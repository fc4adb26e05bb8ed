---------------------------- MODULE SessionProofs ----------------------------
(***************************************************************************)
(* What Session.tla keeps for every number of buffers.                     *)
(*                                                                         *)
(* The core is IInv, defined next to the properties in Session.tla: types, *)
(* the places of the buffers (Conservation), the agreement of the two      *)
(* programs on the frame between them (OneFrameInFlight), what each step   *)
(* knows of its buffer (StepsAgree) and the frames still to draw (InOrder).*)
(* The safety properties, the order of the frames and the refinement of    *)
(* Handoff.tla all follow from it.                                         *)
(***************************************************************************)
EXTENDS Session, SequenceTheorems, TLAPS

-----------------------------------------------------------------------------
(* Appending to and taking from a queue without duplicates.                 *)

LEMMA AppendElements ==
  ASSUME NEW S, NEW s \in Seq(S), NEW e \in S
  PROVE  /\ Append(s, e) \in Seq(S)
         /\ ToSet(Append(s, e)) = ToSet(s) \union {e}
         /\ IsInjective(s) /\ e \notin ToSet(s) => IsInjective(Append(s, e))
<1> DEFINE t == Append(s, e)
           n == Len(s)
<1>1. /\ n \in Nat /\ t \in Seq(S)
      /\ DOMAIN s = 1 .. n /\ DOMAIN t = 1 .. n + 1
      /\ t[n + 1] = e /\ \A i \in 1 .. n : t[i] = s[i]
  BY AppendProperties, LenProperties
<1>2. ToSet(t) = ToSet(s) \union {e}
  <2>1. ASSUME NEW x \in ToSet(t) PROVE x \in ToSet(s) \union {e}
    <3> PICK i \in 1 .. n + 1 : x = t[i] BY <1>1 DEF ToSet
    <3> i \in 1 .. n \/ i = n + 1 BY <1>1
    <3> QED BY <1>1 DEF ToSet
  <2>2. ToSet(s) \subseteq ToSet(t)
    <3> SUFFICES ASSUME NEW i \in 1 .. n PROVE s[i] \in ToSet(t) BY <1>1 DEF ToSet
    <3> i \in 1 .. n + 1 /\ s[i] = t[i] BY <1>1
    <3> QED BY <1>1 DEF ToSet
  <2>3. e \in ToSet(t)
    <3> n + 1 \in 1 .. n + 1 BY <1>1
    <3> QED BY <1>1 DEF ToSet
  <2> QED BY <2>1, <2>2, <2>3
<1>3. ASSUME IsInjective(s), e \notin ToSet(s) PROVE IsInjective(t)
  <2> SUFFICES ASSUME NEW i \in 1 .. n + 1, NEW j \in 1 .. n + 1, t[i] = t[j] PROVE i = j
    BY <1>1 DEF IsInjective
  <2>1. \A k \in 1 .. n : t[k] # e BY <1>1, <1>3 DEF ToSet
  <2>2. CASE i \in 1 .. n /\ j \in 1 .. n BY <1>1, <1>3, <2>2 DEF IsInjective
  <2>3. CASE i = n + 1 BY <1>1, <2>1, <2>3
  <2>4. CASE j = n + 1 BY <1>1, <2>1, <2>4
  <2> QED BY <1>1, <2>2, <2>3, <2>4
<1> QED BY <1>1, <1>2, <1>3

LEMMA TailElements ==
  ASSUME NEW S, NEW s \in Seq(S), s # <<>>, IsInjective(s)
  PROVE  /\ Head(s) \in S /\ Tail(s) \in Seq(S)
         /\ Head(s) \in ToSet(s)
         /\ ToSet(Tail(s)) = ToSet(s) \ {Head(s)}
         /\ IsInjective(Tail(s))
<1> DEFINE t == Tail(s)
           n == Len(s)
<1>1. /\ n \in Nat \ {0} /\ DOMAIN s = 1 .. n
      /\ t \in Seq(S) /\ DOMAIN t = 1 .. n - 1
      /\ \A i \in 1 .. n - 1 : t[i] = s[i + 1]
      /\ Head(s) = s[1] /\ Head(s) \in S
  BY HeadTailProperties, LenProperties, EmptySeq
<1>2. Head(s) \in ToSet(s)
  <2> 1 \in 1 .. n BY <1>1
  <2> QED BY <1>1 DEF ToSet
<1>3. ASSUME NEW x \in ToSet(t) PROVE x \in ToSet(s) \ {Head(s)}
  <2> PICK i \in 1 .. n - 1 : x = s[i + 1] BY <1>1 DEF ToSet
  <2> i + 1 \in 1 .. n /\ 1 \in 1 .. n /\ i + 1 # 1 BY <1>1
  <2> x \in ToSet(s) BY <1>1 DEF ToSet
  <2> x # s[1] BY <1>1 DEF IsInjective
  <2> QED BY <1>1
<1>4. ASSUME NEW x \in ToSet(s), x # Head(s) PROVE x \in ToSet(t)
  <2> PICK i \in 1 .. n : x = s[i] BY <1>1 DEF ToSet
  <2> i - 1 \in 1 .. n - 1 /\ t[i - 1] = x BY <1>1, <1>4
  <2> QED BY <1>1 DEF ToSet
<1>5. IsInjective(t)
  <2> SUFFICES ASSUME NEW i \in 1 .. n - 1, NEW j \in 1 .. n - 1, s[i + 1] = s[j + 1]
               PROVE i = j BY <1>1 DEF IsInjective
  <2> i + 1 \in 1 .. n /\ j + 1 \in 1 .. n BY <1>1
  <2> i + 1 = j + 1 BY <1>1 DEF IsInjective
  <2> QED BY <1>1
<1> QED BY <1>1, <1>2, <1>3, <1>4, <1>5

-----------------------------------------------------------------------------
LEMMA NoneIsNoBuffer == None \notin Buf
  BY DEF None, Buf

USE NoneIsNoBuffer DEF PubStep, SubStep, Streaming, PubOpen, SubOpen, Processing,
        driver, publisher, channel, subscriber, screen, window, vars,
        PubGoto, SubGoto, StreamOff, SwapReturns

-----------------------------------------------------------------------------
(* The steps that need an argument of their own to preserve IInv.           *)

LEMMA CaptureDoneStep == ASSUME IInv, CaptureDone PROVE IInv'
<1> USE NAssumption DEF CaptureDone
<1>1. /\ done \in Seq(Buf) /\ undrawn \in Seq(Buf) /\ filling \in Buf
      /\ queued \subseteq Buf /\ Streaming
  BY DEF IInv, TypeOK, StepsAgree
<1>2. /\ done' \in Seq(Buf) /\ undrawn' \in Seq(Buf)
      /\ ToSet(done') = ToSet(done) \union {filling}
  <2>1. Append(undrawn, filling) \in Seq(Buf) BY <1>1, AppendElements
  <2>2. Append(done, filling) \in Seq(Buf) BY <1>1, AppendElements
  <2>3. ToSet(Append(done, filling)) = ToSet(done) \union {filling} BY <1>1, AppendElements
  <2> QED BY <2>1, <2>2, <2>3
<1>3. IsInjective(done')
  <2> IsInjective(done) /\ filling \notin ToSet(done)
    BY <1>1 DEF IInv, Conservation
  <2> QED BY <1>1, AppendElements
<1>4. TypeOK'
  BY <1>2 DEF IInv, TypeOK
<1>5. Conservation'
  BY <1>1, <1>2, <1>3 DEF IInv, Conservation
<1>6. OneFrameInFlight' /\ StepsAgree'
  BY <1>1 DEF IInv, OneFrameInFlight, StepsAgree
<1>7. InOrder'
  <2>1. \A b \in Buf : Append(<<b>> \o done, filling) = <<b>> \o Append(done, filling)
    BY <1>1
  <2>2. Underway => held \in Buf
    BY DEF IInv, TypeOK, StepsAgree, Underway
  <2>3. UNCHANGED <<Underway, Drawn>>
    BY DEF Underway, Drawn
  <2> QED BY <1>1, <2>1, <2>2, <2>3 DEF IInv, InOrder
<1> QED BY <1>4, <1>5, <1>6, <1>7 DEF IInv

LEMMA PubDequeueStep == ASSUME IInv, PubDequeue PROVE IInv'
<1> USE NAssumption DEF PubDequeue
<1>1. done \in Seq(Buf) /\ done # <<>> /\ Streaming /\ held = None
  BY DEF IInv, TypeOK, StepsAgree
<1>2. IsInjective(done)
  BY <1>1 DEF IInv, Conservation
<1>3. /\ held' \in Buf /\ done' \in Seq(Buf)
      /\ held' \in ToSet(done) /\ ToSet(done') = ToSet(done) \ {held'}
      /\ IsInjective(done')
  BY <1>1, <1>2, TailElements
<1>4. TypeOK'
  BY <1>3 DEF IInv, TypeOK
<1>5. Conservation'
  BY <1>1, <1>3 DEF IInv, Conservation
<1>6. OneFrameInFlight' /\ StepsAgree'
  BY <1>3 DEF IInv, OneFrameInFlight, StepsAgree
<1>7. InOrder'
  <2>1. done = <<held'>> \o done'
    BY <1>1
  <2> QED BY <2>1 DEF IInv, InOrder, Underway, Drawn, OneFrameInFlight
<1> QED BY <1>4, <1>5, <1>6, <1>7 DEF IInv

LEMMA PubSendStep == ASSUME IInv, PubSend PROVE IInv'
<1> USE NAssumption DEF PubSend
<1>1. held \in Buf /\ toSub = <<>> /\ toPub = 0 /\ ~Processing
  BY DEF IInv, TypeOK, StepsAgree, OneFrameInFlight
<1>2. toSub' = IF SubOpen THEN <<held>> ELSE <<>>
  BY <1>1
<1>3. toSub' \in Seq(Buf)
  BY <1>1, <1>2
<1>4. TypeOK'
  BY <1>1, <1>3 DEF IInv, TypeOK
<1>5. Conservation'
  BY DEF IInv, Conservation
<1>6. OneFrameInFlight' /\ StepsAgree'
  BY <1>1, <1>2 DEF IInv, OneFrameInFlight, StepsAgree
<1>7. InOrder'
  BY <1>1, <1>2 DEF IInv, InOrder, Underway, Drawn
<1> QED BY <1>4, <1>5, <1>6, <1>7 DEF IInv

\* VIDIOC_QBUF moves the buffer from the publisher to the driver
LEMMA BackToDriver ==
  ASSUME IInv, held # None, Streaming, queued' = queued \union {held}, held' = None,
         UNCHANGED <<filling, done, pub>> \/ UNCHANGED <<filling, done>>
  PROVE  Conservation'
<1> USE NAssumption DEF IInv, TypeOK
<1>1. held \notin ToSet(done) /\ held # filling /\ held \in Buf /\ IsInjective(done)
  BY DEF Conservation
<1>2. UNCHANGED ToSet(done) /\ IsInjective(done')
  BY <1>1
<1> QED BY <1>1, <1>2 DEF Conservation

LEMMA PubRequeueStep == ASSUME IInv, PubRequeue \/ PubGiveBack PROVE IInv'
<1>1. /\ held \in Buf /\ Streaming /\ pub \in {"requeue", "giveback"}
      /\ UNCHANGED <<filling, done, undrawn, toSub, toPub, subscriber, screen, window, pubRunning>>
      /\ \/ queued' = queued \union {held} /\ held' = None
         \/ UNCHANGED <<queued, held>>
      /\ pub' \in {"loop", "shutdown"} /\ (pub' = "loop" => pub = "requeue" /\ held' = None)
  BY DEF IInv, TypeOK, StepsAgree, PubRequeue, PubGiveBack
<1>2. TypeOK'
  BY <1>1 DEF IInv, TypeOK
<1>3. Conservation'
  <2>1. CASE queued' = queued \union {held} /\ held' = None
    BY <1>1, <2>1, BackToDriver
  <2>2. CASE UNCHANGED <<queued, held>>
    BY <1>1, <2>2 DEF IInv, Conservation
  <2> QED BY <1>1, <2>1, <2>2
<1>4. OneFrameInFlight' /\ StepsAgree'
  BY <1>1 DEF IInv, OneFrameInFlight, StepsAgree
<1>5. InOrder'
  BY <1>1 DEF IInv, InOrder, Underway, Drawn
<1> QED BY <1>2, <1>3, <1>4, <1>5 DEF IInv

LEMMA SubRecvStep == ASSUME IInv, SubRecv PROVE IInv'
<1> USE NAssumption DEF SubRecv
<1>1. CASE toSub # <<>>
  <2>1. Len(toSub) = 1 /\ toSub \in Seq(Buf)
    BY <1>1 DEF IInv, TypeOK, OneFrameInFlight, InOrder
  <2>2. toSub' = <<>> /\ cur' = toSub[1] /\ cur' \in Buf
    <3>1. Len(Tail(toSub)) = 0 /\ Tail(toSub) \in Seq(Buf) /\ Head(toSub) \in Buf
      BY <1>1, <2>1, HeadTailProperties
    <3> QED BY <1>1, <2>1, <3>1, EmptySeq
  <2>3. TypeOK'
    BY <1>1, <2>2 DEF IInv, TypeOK
  <2>4. Conservation'
    BY <1>1 DEF IInv, Conservation
  <2>5. OneFrameInFlight' /\ StepsAgree'
    BY <1>1, <2>2 DEF IInv, OneFrameInFlight, StepsAgree
  <2>6. InOrder'
    BY <1>1, <2>2 DEF IInv, InOrder, Underway, Drawn, OneFrameInFlight
  <2> QED BY <2>3, <2>4, <2>5, <2>6 DEF IInv
<1>2. CASE toSub = <<>>
  BY <1>2 DEF IInv, TypeOK, Conservation, OneFrameInFlight, StepsAgree, InOrder, Underway, Drawn
<1> QED BY <1>1, <1>2

LEMMA SubDrawStep == ASSUME IInv, SubDraw PROVE IInv'
<1> USE NAssumption DEF SubDraw
<1>1. cur \in Buf /\ undrawn \in Seq(Buf)
  BY DEF IInv, TypeOK, StepsAgree
<1>2. /\ undrawn' \in Seq(Buf)
      /\ Len(undrawn) \in Nat
      /\ Len(undrawn') = IF 2 <= Len(undrawn) THEN Len(undrawn) - 1 ELSE 0
      /\ \A i \in 1 .. Len(undrawn) - 1 : undrawn'[i] = undrawn[i + 1]
  <2>1. Len(undrawn) \in Nat /\ \A i \in 2 .. Len(undrawn) : undrawn[i] \in Buf
    BY <1>1, LenProperties, ElementOfSeq
  <2> QED BY <2>1, SubSeqProperties
<1>3. TypeOK'
  BY <1>1, <1>2 DEF IInv, TypeOK
<1>4. Conservation' /\ OneFrameInFlight' /\ StepsAgree'
  BY DEF IInv, Conservation, OneFrameInFlight, StepsAgree
<1>5. InOrder'
  <2>1. CASE pub = "exited"
    BY <2>1 DEF IInv, InOrder, Underway, Drawn
  <2>2. CASE pub # "exited"
    <3>1. pub = "ack" /\ toSub = <<>> /\ toPub = 0
      BY <2>2 DEF IInv, TypeOK, OneFrameInFlight
    <3>2. undrawn = <<held>> \o done /\ done \in Seq(Buf) /\ held \in Buf
      BY <3>1 DEF IInv, TypeOK, StepsAgree, InOrder, Underway
    <3>3. undrawn' = done
      <4>1. Len(undrawn) = Len(done) + 1 /\ Len(done) \in Nat
            /\ \A i \in 1 .. Len(done) : undrawn[i + 1] = done[i]
        BY <3>2
      <4>2. Len(undrawn') = Len(done) /\ \A i \in 1 .. Len(done) : undrawn'[i] = done[i]
        BY <1>2, <4>1
      <4> QED BY <1>2, <3>2, <4>2, SeqEqual
    <3> QED BY <2>2, <3>1, <3>3 DEF InOrder, Underway, Drawn
  <2> QED BY <2>1, <2>2
<1> QED BY <1>3, <1>4, <1>5 DEF IInv

LEMMA SubAckStep == ASSUME IInv, SubAck PROVE IInv'
<1> USE NAssumption DEF SubAck
<1>1. pub # "exited" => pub = "ack" /\ toPub = 0 /\ toSub = <<>>
  BY DEF IInv, TypeOK, OneFrameInFlight
<1>2. TypeOK' /\ Conservation'
  BY <1>1 DEF IInv, TypeOK, Conservation
<1>3. OneFrameInFlight' /\ StepsAgree'
  BY <1>1 DEF IInv, TypeOK, OneFrameInFlight, StepsAgree
<1>4. InOrder'
  BY <1>1 DEF IInv, TypeOK, InOrder, Underway, Drawn
<1> QED BY <1>2, <1>3, <1>4 DEF IInv

LEMMA SigintStep == ASSUME IInv, PubSigint \/ SubSigint PROVE IInv'
<1>1. pubRunning' \in BOOLEAN /\ subRunning' \in BOOLEAN
  BY DEF IInv, TypeOK, PubSigint, SubSigint
<1>2. UNCHANGED <<driver, undrawn, pub, held, channel, sub, cur, screen, window>>
  BY DEF PubSigint, SubSigint
<1>3. TypeOK'
  BY <1>1, <1>2 DEF IInv, TypeOK
<1> QED
  BY <1>2, <1>3 DEF IInv, Conservation, OneFrameInFlight, StepsAgree, InOrder, Underway, Drawn

LEMMA PubKillStep == ASSUME IInv, PubKill PROVE IInv'
<1> USE NAssumption DEF PubKill
<1>1. pubRunning' \in BOOLEAN
  OBVIOUS
<1>2. TypeOK'
  BY <1>1 DEF IInv, TypeOK
<1>3. Conservation' /\ OneFrameInFlight' /\ StepsAgree'
  BY DEF IInv, Conservation, OneFrameInFlight, StepsAgree
<1>4. InOrder'
  <2>1. ~Underway' /\ ~Drawn'
    BY DEF Underway, Drawn
  <2>2. ASSUME toSub # <<>> \/ sub \in {"import", "draw"}
        PROVE  undrawn # <<>> /\ Head(undrawn) = held
    <3>1. undrawn = <<held>> \o done /\ held \in Buf /\ done \in Seq(Buf)
      BY <2>2 DEF IInv, InOrder, Underway, OneFrameInFlight, StepsAgree, TypeOK
    <3> QED BY <3>1
  <2>3. toSub # <<>> => toSub = <<held>> /\ ~Processing
    BY DEF IInv, OneFrameInFlight
  <2>4. sub \in {"import", "draw"} => cur = held
    BY DEF IInv, OneFrameInFlight
  <2>5. UNCHANGED <<toSub, undrawn, sub, cur>>
    OBVIOUS
  <2> QED BY <2>1, <2>2, <2>3, <2>4, <2>5 DEF InOrder
<1> QED BY <1>2, <1>3, <1>4 DEF IInv

LEMMA SubKillStep == ASSUME IInv, SubKill PROVE IInv'
<1> USE NAssumption DEF SubKill
<1>1. subRunning' \in BOOLEAN
  OBVIOUS
<1>2. TypeOK'
  BY <1>1 DEF IInv, TypeOK
<1>3. Conservation' /\ OneFrameInFlight' /\ StepsAgree'
  BY DEF IInv, TypeOK, Conservation, OneFrameInFlight, StepsAgree
<1>4. InOrder'
  BY DEF IInv, TypeOK, InOrder, Underway, Drawn
<1> QED BY <1>2, <1>3, <1>4 DEF IInv

-----------------------------------------------------------------------------
LEMMA InitIInv == Init => IInv
<1> SUFFICES ASSUME Init PROVE IInv OBVIOUS
<1> USE DEF Init
<1>1. TypeOK
  <2>1. <<>> \in Seq(Buf) BY EmptySeq
  <2>2. pubRunning \in BOOLEAN /\ subRunning \in BOOLEAN /\ hidden \in BOOLEAN OBVIOUS
  <2> QED BY <2>1, <2>2 DEF TypeOK
<1>2. Conservation
  BY DEF Conservation, ToSet, IsInjective
<1>3. OneFrameInFlight /\ StepsAgree
  BY DEF OneFrameInFlight, StepsAgree
<1>4. InOrder
  BY DEF InOrder, Underway, Drawn
<1> QED BY <1>1, <1>2, <1>3, <1>4 DEF IInv

LEMMA CameraStep == ASSUME IInv, Camera PROVE IInv'
<1>1. CASE CaptureStart
  BY <1>1 DEF CaptureStart, IInv, TypeOK, Conservation, OneFrameInFlight, StepsAgree,
              InOrder, Underway, Drawn
<1>2. CASE CaptureDone BY <1>2, CaptureDoneStep
<1> QED BY <1>1, <1>2 DEF Camera

LEMMA PublisherStep == ASSUME IInv, Publisher PROVE IInv'
<1> USE DEF IInv, TypeOK, Conservation, OneFrameInFlight, StepsAgree, InOrder, Underway, Drawn
<1>1. CASE PubCheck        BY <1>1 DEF PubCheck
<1>2. CASE PubDequeue      BY <1>2, PubDequeueStep
<1>3. CASE PubDequeueFails BY <1>3 DEF PubDequeueFails
<1>4. CASE PubSend         BY <1>4, PubSendStep
<1>5. CASE PubAck          BY <1>5 DEF PubAck
<1>6. CASE PubRequeue      BY <1>6, PubRequeueStep
<1>7. CASE PubGiveBack     BY <1>7, PubRequeueStep
<1>8. CASE PubShutdown     BY <1>8 DEF PubShutdown
<1>9. CASE PubStop         BY <1>9 DEF PubStop
<1> QED BY <1>1, <1>2, <1>3, <1>4, <1>5, <1>6, <1>7, <1>8, <1>9 DEF Publisher

LEMMA SubscriberStep == ASSUME IInv, Subscriber PROVE IInv'
<1> USE DEF IInv, TypeOK, Conservation, OneFrameInFlight, StepsAgree, InOrder, Underway, Drawn
<1>1. CASE SubSetup     BY <1>1 DEF SubSetup
<1>2. CASE SubCheck     BY <1>2 DEF SubCheck
<1>3. CASE SubRecv      BY <1>3, SubRecvStep
<1>4. CASE SubImport    BY <1>4 DEF SubImport
<1>5. CASE SubDraw      BY <1>5, SubDrawStep
<1>6. CASE SubSwap      BY <1>6 DEF SubSwap
<1>7. CASE SubSwapReads BY <1>7 DEF SubSwapReads
<1>8. CASE SubDestroy   BY <1>8 DEF SubDestroy
<1>9. CASE SubAck       BY <1>9, SubAckStep
<1>10. CASE SubDispatch BY <1>10 DEF SubDispatch
<1>11. CASE SubTeardown BY <1>11 DEF SubTeardown
<1>12. CASE SubClose    BY <1>12 DEF SubClose
<1> QED BY <1>1, <1>2, <1>3, <1>4, <1>5, <1>6, <1>7, <1>8, <1>9, <1>10, <1>11, <1>12
        DEF Subscriber

LEMMA CompositorStep == ASSUME IInv, Compositor PROVE IInv'
<1> USE DEF IInv, TypeOK, Conservation, OneFrameInFlight, StepsAgree, InOrder, Underway, Drawn
<1>1. CASE GpuFinish       BY <1>1 DEF GpuFinish
<1>2. CASE CompositorClose BY <1>2 DEF CompositorClose
<1>3. CASE CompositorHide  BY <1>3 DEF CompositorHide
<1> QED BY <1>1, <1>2, <1>3 DEF Compositor

(***************************************************************************)
(* IInv is inductive: it holds initially and every step of every party     *)
(* preserves it, whatever the number of buffers.                           *)
(***************************************************************************)
THEOREM Inductive == Spec => []IInv
<1>1. IInv /\ [Next]_vars => IInv'
  <2> SUFFICES ASSUME IInv, [Next]_vars PROVE IInv' OBVIOUS
  <2>1. CASE Camera     BY <2>1, CameraStep
  <2>2. CASE Publisher  BY <2>2, PublisherStep
  <2>3. CASE Subscriber BY <2>3, SubscriberStep
  <2>4. CASE Signals    BY <2>4, SigintStep, PubKillStep, SubKillStep DEF Signals
  <2>5. CASE Compositor BY <2>5, CompositorStep
  <2>6. CASE UNCHANGED vars
    BY <2>6 DEF IInv, TypeOK, Conservation, OneFrameInFlight, StepsAgree, InOrder, Underway, Drawn
  <2> QED BY <2>1, <2>2, <2>3, <2>4, <2>5, <2>6 DEF Next, Terminated
<1> QED BY InitIInv, <1>1, PTL DEF Spec

(***************************************************************************)
(* Every variable keeps its type; in particular at most one ack is ever    *)
(* under way.                                                              *)
(***************************************************************************)
THEOREM TypeCorrect == Spec => []TypeOK
<1>1. IInv => TypeOK BY DEF IInv
<1> QED BY <1>1, Inductive, PTL

(***************************************************************************)
(* The buffer the renderer has imported is neither queued nor being        *)
(* filled: the camera does not write what is on the screen.                *)
(***************************************************************************)
THEOREM NoCaptureUnderImage == Spec => []ImportedNotCaptured
<1>1. IInv => ImportedNotCaptured
  BY DEF IInv, TypeOK, Conservation, OneFrameInFlight, StepsAgree, ImportedNotCaptured
<1> QED BY <1>1, Inductive, PTL

(***************************************************************************)
(* No buffer is lost or handed over twice on any path of the publisher.    *)
(***************************************************************************)
THEOREM BuffersConserved == Spec => []Conservation
<1>1. IInv => Conservation BY DEF IInv
<1> QED BY <1>1, Inductive, PTL

(***************************************************************************)
(* Index, imported buffer and ack always speak of the same frame.          *)
(***************************************************************************)
THEOREM FramesAgree == Spec => []OneFrameInFlight
<1>1. IInv => OneFrameInFlight BY DEF IInv
<1> QED BY <1>1, Inductive, PTL

(***************************************************************************)
(* The two blocking receives never face each other.                        *)
(***************************************************************************)
THEOREM NeverBothWaiting == Spec => []NoMutualWait
<1>1. IInv => NoMutualWait
  BY DEF IInv, StepsAgree, NoMutualWait
<1> QED BY <1>1, Inductive, PTL

(***************************************************************************)
(* The frames are drawn in the order of their capture, none is skipped.    *)
(***************************************************************************)
THEOREM DrawnInOrder == Spec => FramesShownInOrder
<1>1. IInv /\ [Next]_vars => [(sub = "draw" /\ sub' = "swap") => undrawn # <<>> /\ cur = Head(undrawn)]_vars
  <2> SUFFICES ASSUME IInv, sub = "draw" PROVE undrawn # <<>> /\ cur = Head(undrawn)
    OBVIOUS
  <2>1. CASE pub = "exited" BY <2>1 DEF IInv, InOrder
  <2>2. CASE pub # "exited"
    <3>1. cur = held /\ held \in Buf /\ done \in Seq(Buf) /\ undrawn = <<held>> \o done
      BY <2>2 DEF IInv, TypeOK, OneFrameInFlight, StepsAgree, InOrder, Underway
    <3> QED BY <3>1
  <2> QED BY <2>1, <2>2
<1> QED BY <1>1, Inductive, PTL DEF Spec, FramesShownInOrder

-----------------------------------------------------------------------------
(* The refinement: every step of the session is a step of Handoff.tla or    *)
(* leaves owners, camera and renderer as they are.                          *)

LEMMA SameOwners ==
  ASSUME UNCHANGED <<pub, held, sub, toPub, done>>
  PROVE  Owner' = Owner
BY DEF Owner, Lent

LEMMA OwnerOf ==
  ASSUME Streaming, NEW b \in Buf
  PROVE  Owner[b] = IF b = held THEN IF Lent THEN "subscriber" ELSE "publisher"
                    ELSE IF b \in ToSet(done) THEN "ready" ELSE "camera"
BY DEF Owner

LEMMA OwnerMoves ==
  ASSUME NEW b \in Buf, NEW to,
         Owner'[b] = to,
         \A c \in Buf \ {b} : Owner'[c] = Owner[c]
  PROVE  Owner' = [Owner EXCEPT ![b] = to]
BY DEF Owner

LEMMA CameraRefines == ASSUME IInv, Camera PROVE Ownership!Next
<1> USE DEF IInv, TypeOK, Conservation, StepsAgree
<1>1. CASE CaptureStart
  <2>1. PICK b \in queued : filling' = b
    BY <1>1 DEF CaptureStart
  <2>2. b \in Buf /\ Streaming /\ Owner[b] = "camera"
    BY <1>1, <2>1, OwnerOf DEF CaptureStart
  <2>3. Owner' = Owner /\ filling = None /\ image' = image
    BY <1>1, SameOwners DEF CaptureStart
  <2>4. Ownership!StartFill(b)
    BY <2>1, <2>2, <2>3 DEF Ownership!StartFill
  <2> QED BY <2>2, <2>4 DEF Ownership!Next
<1>2. CASE CaptureDone
  <2>1. /\ filling \in Buf /\ Streaming /\ Streaming' /\ done \in Seq(Buf)
        /\ filling # held /\ filling \notin ToSet(done)
        /\ filling' = None /\ UNCHANGED <<image, held, Lent>>
    BY <1>2 DEF CaptureDone, Lent
  <2>2. ToSet(done') = ToSet(done) \union {filling}
    BY <1>2, <2>1, AppendElements DEF CaptureDone
  <2>3. Owner[filling] = "camera" /\ Owner'[filling] = "ready"
    BY <2>1, <2>2 DEF Owner
  <2>4. \A c \in Buf \ {filling} : Owner'[c] = Owner[c]
    BY <2>1, <2>2 DEF Owner
  <2>5. Ownership!EndFill(filling)
    BY <2>1, <2>3, <2>4, OwnerMoves DEF Ownership!EndFill, Ownership!Pass
  <2> QED BY <2>1, <2>5 DEF Ownership!Next
<1> QED BY <1>1, <1>2 DEF Camera

LEMMA PublisherRefines ==
  ASSUME IInv, Publisher PROVE Ownership!Next \/ UNCHANGED <<Owner, filling, image>>
<1>1. CASE PubDequeue
  <2>1. /\ done \in Seq(Buf) /\ done # <<>> /\ held = None /\ IsInjective(done)
        /\ ~Lent' /\ Streaming /\ Streaming' /\ UNCHANGED <<filling, image>>
    BY <1>1 DEF PubDequeue, IInv, TypeOK, Conservation, StepsAgree, Lent
  <2>2. held' \in Buf /\ held' \in ToSet(done) /\ ToSet(done') = ToSet(done) \ {held'}
    BY <1>1, <2>1, TailElements DEF PubDequeue
  <2>3. Owner[held'] = "ready" /\ Owner'[held'] = "publisher"
    BY <2>1, <2>2 DEF Owner
  <2>4. \A c \in Buf \ {held'} : Owner'[c] = Owner[c]
    BY <2>1, <2>2 DEF Owner
  <2>5. Ownership!Take(held')
    BY <2>1, <2>2, <2>3, <2>4, OwnerMoves DEF Ownership!Take, Ownership!Pass
  <2> QED BY <2>2, <2>5 DEF Ownership!Next
<1>2. CASE PubSend
  <2>1. /\ held \in Buf /\ toPub = 0 /\ ~Lent /\ Streaming /\ Streaming'
        /\ UNCHANGED <<filling, image, held, done>> /\ (SubOpen <=> Lent')
    BY <1>2 DEF PubSend, IInv, TypeOK, OneFrameInFlight, StepsAgree, Lent
  <2>2. CASE SubOpen
    <3>1. Owner[held] = "publisher" /\ Owner'[held] = "subscriber"
      BY <2>1, <2>2 DEF Owner
    <3>2. \A c \in Buf \ {held} : Owner'[c] = Owner[c]
      BY <2>1 DEF Owner
    <3>3. \A c \in Buf : Owner[c] # "subscriber"
      BY <2>1 DEF Owner
    <3>4. Ownership!Lend(held)
      BY <2>1, <3>1, <3>2, <3>3, OwnerMoves DEF Ownership!Lend, Ownership!Pass
    <3> QED BY <2>1, <3>4 DEF Ownership!Next
  <2>3. CASE ~SubOpen
    <3>1. Owner' = Owner
      BY <2>1, <2>3 DEF Owner
    <3> QED BY <2>1, <3>1
  <2> QED BY <2>2, <2>3
<1>3. CASE PubRequeue \/ PubGiveBack
  <2>1. /\ held \in Buf /\ Streaming /\ Streaming' /\ ~Lent /\ ~Lent'
        /\ UNCHANGED <<filling, image, done>> /\ held \notin ToSet(done)
        /\ held' \in {held, None}
    BY <1>3 DEF PubRequeue, PubGiveBack, IInv, TypeOK, Conservation, StepsAgree, Lent
  <2>2. CASE held' = None
    <3>1. Owner[held] = "publisher" /\ Owner'[held] = "camera"
      BY <2>1, <2>2 DEF Owner
    <3>2. \A c \in Buf \ {held} : Owner'[c] = Owner[c]
      BY <2>1, <2>2 DEF Owner
    <3>3. Ownership!GiveBack(held)
      BY <2>1, <3>1, <3>2, OwnerMoves DEF Ownership!GiveBack, Ownership!Pass
    <3> QED BY <2>1, <3>3 DEF Ownership!Next
  <2>3. CASE held' = held
    BY <2>1, <2>3 DEF Owner
  <2> QED BY <2>1, <2>2, <2>3
<1>4. CASE PubStop
  BY <1>4 DEF PubStop, Owner, Ownership!Next, Ownership!Stop
<1>5. CASE PubCheck \/ PubDequeueFails \/ PubAck \/ PubShutdown
  <2>1. /\ ~Lent /\ ~Lent' /\ Streaming /\ Streaming'
        /\ UNCHANGED <<filling, image, held, done>>
    BY <1>5 DEF PubCheck, PubDequeueFails, PubAck, PubShutdown, Lent
  <2> QED BY <2>1 DEF Owner
<1> QED BY <1>1, <1>2, <1>3, <1>4, <1>5 DEF Publisher

\* the buffer comes back when the ack is sent or the subscriber's socket closes
LEMMA Returned ==
  ASSUME IInv, Streaming, Lent, ~Lent', image' = None, UNCHANGED <<pub, held, done, filling>>
  PROVE  Ownership!Next
<1>1. held \in Buf
  BY DEF IInv, TypeOK, StepsAgree, Lent
<1>2. Owner[held] = "subscriber" /\ Owner'[held] = "publisher"
  BY <1>1 DEF Owner
<1>3. \A c \in Buf \ {held} : Owner'[c] = Owner[c]
  BY DEF Owner
<1>4. Ownership!Return(held)
  BY <1>1, <1>2, <1>3, OwnerMoves DEF Ownership!Return, Ownership!Pass
<1> QED BY <1>1, <1>4 DEF Ownership!Next

LEMMA SubscriberRefines ==
  ASSUME IInv, Subscriber PROVE Ownership!Next \/ UNCHANGED <<Owner, filling, image>>
<1> USE DEF Lent
<1>1. CASE SubImport
  <2>1. /\ cur \in Buf /\ image = None /\ image' \in {None, cur}
        /\ (Streaming => cur = held /\ Lent)
        /\ UNCHANGED <<pub, held, done, filling, Lent>>
    BY <1>1 DEF SubImport, IInv, TypeOK, OneFrameInFlight, StepsAgree
  <2>2. Owner[cur] \in {"subscriber", "nobody"} /\ Owner' = Owner
    BY <2>1 DEF Owner
  <2>3. CASE image' = cur
    <3>1. Ownership!StartRead(cur)
      BY <2>1, <2>2, <2>3 DEF Ownership!StartRead
    <3> QED BY <2>1, <3>1 DEF Ownership!Next
  <2>4. CASE image' = None
    BY <2>1, <2>2, <2>4
  <2> QED BY <2>1, <2>3, <2>4
<1>2. CASE SubDestroy
  <2>1. image' = None /\ UNCHANGED <<pub, held, done, filling, Lent>>
    BY <1>2 DEF SubDestroy
  <2>2. Owner' = Owner
    BY <2>1 DEF Owner
  <2> QED BY <2>1, <2>2 DEF Ownership!Next, Ownership!EndRead
<1>3. CASE SubAck \/ SubClose
  <2>1. image' = None /\ UNCHANGED <<image, pub, held, done, filling>>
    BY <1>3 DEF SubAck, SubClose, IInv, StepsAgree
  <2>2. ~Lent' \/ UNCHANGED Lent
    BY <1>3 DEF SubAck, SubClose, IInv, TypeOK, OneFrameInFlight
  <2>3. CASE Lent /\ ~Lent' /\ Streaming
    BY <2>1, <2>3, Returned
  <2>4. CASE UNCHANGED Lent \/ ~Streaming
    <3>1. Owner' = Owner
      BY <2>1, <2>4 DEF Owner
    <3> QED BY <2>1, <3>1
  <2> QED BY <2>2, <2>3, <2>4
<1>4. CASE \/ SubSetup \/ SubCheck \/ SubRecv \/ SubDraw
           \/ SubSwap \/ SubSwapReads \/ SubDispatch \/ SubTeardown
  <2>1. UNCHANGED <<image, pub, held, done, filling, Lent>>
    BY <1>4 DEF SubSetup, SubCheck, SubRecv, SubDraw, SubSwap, SubSwapReads,
                SubDispatch, SubTeardown, IInv, StepsAgree
  <2> QED BY <2>1 DEF Owner
<1> QED BY <1>1, <1>2, <1>3, <1>4 DEF Subscriber

LEMMA SignalsRefine ==
  ASSUME IInv, Signals PROVE Ownership!Next \/ UNCHANGED <<Owner, filling, image>>
<1> USE DEF Lent
<1>1. CASE PubKill
  BY <1>1 DEF PubKill, Owner, Ownership!Next, Ownership!Stop
<1>2. CASE PubSigint \/ SubSigint
  <2>1. UNCHANGED <<image, pub, held, done, filling, Lent>>
    BY <1>2 DEF PubSigint, SubSigint
  <2> QED BY <2>1 DEF Owner
<1>3. CASE SubKill
  <2>1. image' = None /\ ~Lent' /\ UNCHANGED <<pub, held, done, filling>>
    BY <1>3 DEF SubKill
  <2>2. CASE Lent
    BY <2>1, <2>2, Returned
  <2>3. CASE ~Lent
    <3>1. Owner' = Owner
      BY <2>1, <2>3 DEF Owner
    <3> QED BY <2>1, <3>1 DEF Ownership!Next, Ownership!EndRead
  <2> QED BY <2>2, <2>3
<1> QED BY <1>1, <1>2, <1>3 DEF Signals

(***************************************************************************)
(* The two programs implement the ownership contract: in every step one    *)
(* buffer changes hands as Handoff.tla allows, or none does.               *)
(***************************************************************************)
THEOREM ImplementsContract == Spec => Contract
<1>1. Init => Ownership!Init
  <2> SUFFICES ASSUME Init PROVE Ownership!Init OBVIOUS
  <2>1. \A b \in Buf : Owner[b] = "camera"
    BY DEF Init, Owner, ToSet
  <2> QED BY <2>1 DEF Init, Owner, Ownership!Init
<1>2. IInv /\ [Next]_vars => [Ownership!Next]_(Ownership!vars)
  <2> SUFFICES ASSUME IInv, [Next]_vars
               PROVE  Ownership!Next \/ UNCHANGED <<Owner, filling, image>>
    BY DEF Ownership!vars
  <2>1. CASE Camera     BY <2>1, CameraRefines
  <2>2. CASE Publisher  BY <2>2, PublisherRefines
  <2>3. CASE Subscriber BY <2>3, SubscriberRefines
  <2>4. CASE Signals    BY <2>4, SignalsRefine
  <2>5. CASE Compositor \/ UNCHANGED vars
    <3>1. UNCHANGED <<pub, held, sub, toPub, done, filling, image>>
      BY <2>5 DEF Compositor, GpuFinish, CompositorClose, CompositorHide
    <3> QED BY <3>1, SameOwners
  <2> QED BY <2>1, <2>2, <2>3, <2>4, <2>5 DEF Next, Terminated
<1> QED BY <1>1, <1>2, Inductive, PTL DEF Spec, Contract, Ownership!Spec
=============================================================================
