---------------------------- MODULE StartupProofs ----------------------------
(***************************************************************************)
(* What Startup.tla keeps for any number of publishers and subscribers and *)
(* any backlog.  IInv is the inductive invariant.  StepsAgree in it says   *)
(* that the launcher removes the path only after it saw the publisher's    *)
(* exit, PublisherState that a publisher greets nobody before its one      *)
(* accept and who may have taken its name, and SubscriberState that a      *)
(* subscriber is connected to one publisher at most.  ResumeState and      *)
(* SessionEnd are about the two runs of cleanup.  The last part is about   *)
(* how a session of the script ends after Ctrl+C.                          *)
(***************************************************************************)
EXTENDS Startup, SequenceTheorems, TLAPS

USE NameAssumption, BacklogAssumption DEF NameAssumption, BacklogAssumption, Sub, Pub

LEMMA AppendSet ==
  ASSUME NEW S, NEW q \in Seq(S), NEW e \in S
  PROVE  /\ Append(q, e) \in Seq(S) /\ Len(Append(q, e)) = Len(q) + 1
         /\ ToSet(Append(q, e)) = ToSet(q) \union {e}
<1> DEFINE t == Append(q, e)
           n == Len(q)
<1>1. /\ n \in Nat /\ t \in Seq(S) /\ Len(t) = n + 1
      /\ DOMAIN q = 1 .. n /\ DOMAIN t = 1 .. n + 1
      /\ t[n + 1] = e /\ \A i \in 1 .. n : t[i] = q[i]
  BY AppendProperties, LenProperties
<1>2. ASSUME NEW x \in ToSet(t) PROVE x \in ToSet(q) \union {e}
  <2> PICK i \in 1 .. n + 1 : x = t[i] BY <1>1, <1>2 DEF ToSet
  <2> i \in 1 .. n \/ i = n + 1 BY <1>1
  <2> QED BY <1>1 DEF ToSet
<1>3. ASSUME NEW i \in 1 .. n PROVE q[i] \in ToSet(t)
  <2> i \in 1 .. n + 1 /\ q[i] = t[i] BY <1>1
  <2> QED BY <1>1 DEF ToSet
<1>4. e \in ToSet(t)
  <2> n + 1 \in 1 .. n + 1 BY <1>1
  <2> QED BY <1>1 DEF ToSet
<1>5. ToSet(q) \subseteq ToSet(t) BY <1>1, <1>3 DEF ToSet
<1> QED BY <1>1, <1>2, <1>4, <1>5

LEMMA TailSet ==
  ASSUME NEW S, NEW q \in Seq(S), q # <<>>
  PROVE  /\ Head(q) \in S /\ Head(q) \in ToSet(q)
         /\ Tail(q) \in Seq(S) /\ Len(Tail(q)) = Len(q) - 1
         /\ ToSet(Tail(q)) \subseteq ToSet(q)
<1> DEFINE t == Tail(q)
           n == Len(q)
<1>1. /\ n \in Nat \ {0} /\ DOMAIN q = 1 .. n /\ Head(q) = q[1] /\ Head(q) \in S
      /\ t \in Seq(S) /\ Len(t) = n - 1 /\ DOMAIN t = 1 .. n - 1
      /\ \A i \in 1 .. n - 1 : t[i] = q[i + 1]
  BY HeadTailProperties, EmptySeq, LenProperties
<1>2. Head(q) \in ToSet(q)
  <2> 1 \in 1 .. n BY <1>1
  <2> QED BY <1>1 DEF ToSet
<1>3. ASSUME NEW i \in 1 .. n - 1 PROVE t[i] \in ToSet(q)
  <2> i + 1 \in 1 .. n /\ t[i] = q[i + 1] BY <1>1
  <2> QED BY <1>1 DEF ToSet
<1>4. ToSet(t) \subseteq ToSet(q) BY <1>1, <1>3 DEF ToSet
<1> QED BY <1>1, <1>2, <1>4

-----------------------------------------------------------------------------
LEMMA InitIInv == Init => IInv
<1> SUFFICES ASSUME Init PROVE IInv OBVIOUS
<1>1. TypeOK
  <2>1. <<>> \in Seq(Sub) /\ Len(<<>>) <= Backlog + 1
    OBVIOUS
  <2> QED BY <2>1 DEF Init, TypeOK, ScriptStep, PubStep, SubStep
<1>2. Reachable /\ StepsAgree /\ ResumeState /\ SessionEnd
  BY DEF Init, Reachable, Listening, StepsAgree, SubAlive, ResumeState, SessionEnd
<1>3. ASSUME NEW p \in Pub PROVE PublisherState(p)
  BY DEF Init, PublisherState, Listening
<1>4. ASSUME NEW s \in Sub PROVE SubscriberState(s)
  <2>1. ASSUME NEW p \in Pub PROVE ~Connected(s, p)
    BY DEF Init, Connected, ToSet
  <2> QED BY <2>1 DEF Init, SubscriberState
<1> QED BY <1>1, <1>2, <1>3, <1>4 DEF IInv

-----------------------------------------------------------------------------
(* run.sh and Ctrl+C.                                                       *)

\* SubscriberState only looks at the sockets and the subscribers' steps
LEMMA SocketsUnchanged ==
  ASSUME IInv, UNCHANGED <<sockets, sub>>
  PROVE  \A s \in Sub : SubscriberState(s)'
BY DEF IInv, SubscriberState, Connected, sockets

LEMMA ScriptKeepsIInv == IInv /\ (Script \/ CtrlC) => IInv'
<1> SUFFICES ASSUME IInv, Script \/ CtrlC PROVE IInv' OBVIOUS
<1> USE DEF IInv, TypeOK, Reachable, StepsAgree, ResumeState, SessionEnd, Listening, PubAlive, SubAlive,
        ScriptGoto, Signalled, Handles, launcher, file, publishers, sockets, subscribers,
        ScriptStep, PubStep, SubStep
<1>1. CASE ScriptLaunch
  <2>1. \A s \in Sub : SubscriberState(s)' BY <1>1, SocketsUnchanged DEF ScriptLaunch
  <2>2. \A p \in Pub : PublisherState(p)' BY <1>1 DEF ScriptLaunch, PublisherState
  <2> QED BY <1>1, <2>1, <2>2 DEF ScriptLaunch
<1>2. CASE ScriptSubscriber
  <2>1. \A s \in Sub : SubscriberState(s)'
    BY <1>2 DEF ScriptSubscriber, SubscriberState, Connected
  <2>2. \A p \in Pub : PublisherState(p)' BY <1>2 DEF ScriptSubscriber, PublisherState
  <2> QED BY <1>2, <2>1, <2>2 DEF ScriptSubscriber
<1>3. CASE ScriptSubscriberEnds \/ ScriptCheck \/ ScriptWait
  <2>1. \A s \in Sub : SubscriberState(s)'
    BY <1>3, SocketsUnchanged DEF ScriptSubscriberEnds, ScriptCheck, ScriptWait
  <2>2. \A p \in Pub : PublisherState(p)'
    BY <1>3 DEF ScriptSubscriberEnds, ScriptCheck, ScriptWait, PublisherState
  <2> QED BY <1>3, <2>1, <2>2 DEF ScriptSubscriberEnds, ScriptCheck, ScriptWait
<1>4. CASE ScriptKill
  <2>1. \A s \in Sub : SubscriberState(s)' BY <1>4, SocketsUnchanged DEF ScriptKill
  <2>2. CASE Errexit /\ ~PubAlive(Bg)
    <3>1. \A p \in Pub : PublisherState(p)'
      BY <1>4, <2>2 DEF ScriptKill, Errexit, PublisherState
    <3>2. TypeOK' /\ Reachable' BY <1>4, <2>2 DEF ScriptKill, Errexit
    <3>3. StepsAgree' /\ ResumeState' /\ SessionEnd' BY <1>4, <2>2 DEF ScriptKill, Errexit
    <3> QED BY <2>1, <3>1, <3>2, <3>3
  <2>3. ASSUME ScriptGoto("wait"), Signalled,
               UNCHANGED pub \/ (pub[Bg] = "start" /\ pub' = [pub EXCEPT ![Bg] = "exited"])
        PROVE  IInv'
    <3> UNCHANGED <<file, queue, client, greeted, sub, subRunning>> BY <1>4 DEF ScriptKill
    <3>1. /\ script = "kill" /\ script' = "wait" /\ resume' = resume /\ ctrlC' = ctrlC
          /\ pub[Bg] # "none"
      BY <1>4, <2>3 DEF ScriptKill
    <3>2. pub'[Bg] # "none" BY <2>3, <3>1
    <3>3. pub' \in [Pub -> PubStep] /\ pubRunning' \in [Pub -> BOOLEAN] BY <2>3
    <3>4. TypeOK' BY <3>1, <3>3
    <3>5. \A p \in Pub : pub'[p] = pub[p] \/ (pub[p] = "start" /\ pub'[p] = "exited")
      BY <2>3
    <3>6. \A p \in Pub : PublisherState(p)' BY <3>5 DEF PublisherState
    <3>7. Reachable' BY <3>5
    <3>8. StepsAgree' BY <3>1, <3>2
    <3>9. ResumeState' /\ SessionEnd' BY <2>3, <3>1
    <3> QED BY <2>1, <3>4, <3>6, <3>7, <3>8, <3>9
  <2> QED BY <1>4, <2>2, <2>3 DEF ScriptKill
<1>5. CASE ScriptRm
  <2>1. \A s \in Sub : SubscriberState(s)' BY <1>5, SocketsUnchanged DEF ScriptRm
  <2>2. \A p \in Pub : PublisherState(p)' BY <1>5 DEF ScriptRm, Unlink, PublisherState
  <2>3. TypeOK' /\ Reachable' BY <1>5 DEF ScriptRm, Unlink
  <2>4. StepsAgree' BY <1>5 DEF ScriptRm, Unlink, ResumeState
  <2>5. ResumeState' /\ SessionEnd' BY <1>5 DEF ScriptRm
  <2> QED BY <2>1, <2>2, <2>3, <2>4, <2>5
<1>6. CASE CtrlC
  <2>1. \A s \in Sub : SubscriberState(s)' BY <1>6, SocketsUnchanged DEF CtrlC
  <2>2. \A p \in Pub : PublisherState(p)' BY <1>6 DEF CtrlC, PublisherState
  <2> QED BY <1>6, <2>1, <2>2 DEF CtrlC
<1> QED BY <1>1, <1>2, <1>3, <1>4, <1>5, <1>6 DEF Script

-----------------------------------------------------------------------------
(* The publishers.                                                          *)

\* each step of a publisher moves that publisher only
LEMMA PublisherKeepsIInv ==
  ASSUME IInv, NEW p \in Pub,
         Publisher(p) \/ PubServeFails(p) \/ PubKill(p) \/ (p \in Rivals /\ PubStart(p))
  PROVE  IInv'
<1> USE DEF IInv, TypeOK, Reachable, StepsAgree, ResumeState, SessionEnd, Listening, PubAlive, SubAlive,
        PubGoto, PubDies, launcher, file, publishers, sockets, subscribers,
        ScriptStep, PubStep, SubStep
<1>1. CASE PubInstall(p) \/ PubCamera(p) \/ PubListen(p) \/ PubKill(p)
  <2>1. \A s \in Sub : SubscriberState(s)'
    BY <1>1, SocketsUnchanged DEF PubInstall, PubCamera, PubListen, PubKill
  <2>2. \A q \in Pub : PublisherState(q)'
    <3>1. CASE PubInstall(p) \/ PubCamera(p)
      BY <3>1 DEF PubInstall, PubCamera, PublisherState
    <3>2. CASE PubListen(p) BY <3>2 DEF PubListen, PublisherState
    <3>3. CASE PubKill(p) BY <3>3 DEF PubKill, PublisherState
    <3> QED BY <1>1, <3>1, <3>2, <3>3
  <2>3. TypeOK' BY <1>1 DEF PubInstall, PubCamera, PubListen, PubKill
  <2>4. Reachable' BY <1>1 DEF PubInstall, PubCamera, PubListen, PubKill, PublisherState
  <2>5. StepsAgree' /\ ResumeState' /\ SessionEnd' BY <1>1 DEF PubInstall, PubCamera, PubListen, PubKill
  <2> QED BY <2>1, <2>2, <2>3, <2>4, <2>5
<1>2. CASE PubUnlink(p) \/ PubCleanup(p)
  <2>1. \A s \in Sub : SubscriberState(s)'
    BY <1>2, SocketsUnchanged DEF PubUnlink, PubCleanup
  <2>2. \A q \in Pub : PublisherState(q)'
    BY <1>2 DEF PubUnlink, PubCleanup, Unlink, PublisherState
  <2>3. TypeOK' BY <1>2 DEF PubUnlink, PubCleanup, Unlink
  <2>4. Reachable' BY <1>2 DEF PubUnlink, PubCleanup, Unlink, PublisherState
  <2>5. StepsAgree' /\ ResumeState' /\ SessionEnd' BY <1>2 DEF PubUnlink, PubCleanup, Unlink
  <2> QED BY <2>1, <2>2, <2>3, <2>4, <2>5
<1>3. CASE PubBind(p)
  <2>1. \A s \in Sub : SubscriberState(s)' BY <1>3, SocketsUnchanged DEF PubBind
  <2>2. \A q \in Pub : PublisherState(q)' BY <1>3 DEF PubBind, PublisherState
  <2>3. TypeOK' BY <1>3 DEF PubBind
  <2>4. Reachable' BY <1>3 DEF PubBind, PublisherState
  <2>5. StepsAgree' /\ ResumeState' /\ SessionEnd' BY <1>3 DEF PubBind
  <2> QED BY <2>1, <2>2, <2>3, <2>4, <2>5
<1>4. CASE PubAccept(p)
  <2> DEFINE c == Head(queue[p])
  <2>1. /\ c \in Sub /\ Connected(c, p)
        /\ Tail(queue[p]) \in Seq(Sub) /\ Len(Tail(queue[p])) <= Backlog + 1
        /\ ToSet(Tail(queue[p])) \subseteq ToSet(queue[p])
    <3>1. queue[p] \in Seq(Sub) /\ queue[p] # <<>> BY <1>4 DEF PubAccept, Accept
    <3>2. Len(queue[p]) \in Nat /\ Len(queue[p]) <= Backlog + 1
      BY <3>1, LenProperties
    <3> QED BY <3>1, <3>2, TailSet DEF Connected
  <2>2. client[p] = Nobody /\ greeted[p] = {} BY <1>4 DEF PubAccept, PublisherState
  <2>3. ASSUME NEW s \in Sub, NEW q \in Pub, Connected(s, q)' PROVE Connected(s, q)
    BY <1>4, <2>1, <2>3 DEF PubAccept, Accept, Connected
  <2>4. \A s \in Sub : SubscriberState(s)'
    BY <1>4, <2>3 DEF PubAccept, Accept, SubscriberState
  <2>5. \A q \in Pub : PublisherState(q)'
    BY <1>4, <2>1, <2>2 DEF PubAccept, Accept, PublisherState
  <2>6. TypeOK' BY <1>4, <2>1 DEF PubAccept, Accept
  <2>7. Reachable' /\ StepsAgree' /\ ResumeState' /\ SessionEnd' BY <1>4 DEF PubAccept, Accept
  <2> QED BY <2>4, <2>5, <2>6, <2>7
<1>5. CASE PubHandshake(p)
  <2> USE DEF PubHandshake
  <2>1. client[p] \in Sub /\ greeted[p] = {} BY <1>5 DEF PublisherState
  <2>2. CASE SubAlive(client[p])
    <3> UNCHANGED <<file, queue, client, sub>> BY <1>5, <2>2
    <3>1. greeted' = [greeted EXCEPT ![p] = {client[p]}] BY <1>5, <2>1, <2>2
    <3>2. \A q \in Pub : greeted[q] \subseteq greeted'[q] BY <2>1, <3>1
    <3>3. \A s \in Sub : SubscriberState(s)'
      BY <3>2 DEF SubscriberState, Connected
    <3>4. \A q \in Pub : PublisherState(q)'
      <4>1. \A q \in Pub : q # p => PublisherState(q)'
        BY <1>5, <2>2, <3>1 DEF PublisherState
      <4>2. /\ pub'[p] = "serve" /\ client'[p] = client[p] /\ greeted'[p] = {client[p]}
            /\ UNCHANGED <<path, robbed>>
        BY <1>5, <2>2, <3>1
      <4>3. PublisherState(p)' BY <1>5, <2>1, <4>2 DEF PublisherState
      <4> QED BY <4>1, <4>3
    <3>5. TypeOK' BY <1>5, <2>1, <2>2, <3>1
    <3>6. Reachable' BY <1>5, <2>2
    <3>7. StepsAgree' /\ ResumeState' /\ SessionEnd' BY <1>5, <2>2
    <3> QED BY <3>3, <3>4, <3>5, <3>6, <3>7
  <2>3. CASE ~SubAlive(client[p])
    <3>1. \A s \in Sub : SubscriberState(s)' BY <1>5, <2>3, SocketsUnchanged
    <3>2. \A q \in Pub : PublisherState(q)' BY <1>5, <2>3 DEF PublisherState
    <3>3. Reachable' BY <1>5, <2>3 DEF PublisherState
    <3>4. TypeOK' BY <1>5, <2>3
    <3>5. StepsAgree' /\ ResumeState' /\ SessionEnd' BY <1>5, <2>3
    <3> QED BY <3>1, <3>2, <3>3, <3>4, <3>5
  <2> QED BY <2>2, <2>3
<1>6. CASE PubServeEnds(p) \/ PubServeFails(p) \/ (p \in Rivals /\ PubStart(p))
  <2>1. \A s \in Sub : SubscriberState(s)'
    BY <1>6, SocketsUnchanged DEF PubServeEnds, PubServeFails, PubStart
  <2>2. \A q \in Pub : PublisherState(q)'
    BY <1>6 DEF PubServeEnds, PubServeFails, PubStart, PublisherState
  <2>3. TypeOK' BY <1>6 DEF PubServeEnds, PubServeFails, PubStart
  <2>4. Reachable' BY <1>6 DEF PubServeEnds, PubServeFails, PubStart, PublisherState
  <2>5. StepsAgree' /\ ResumeState' /\ SessionEnd' BY <1>6 DEF PubServeEnds, PubServeFails, PubStart
  <2> QED BY <2>1, <2>2, <2>3, <2>4, <2>5
<1> QED BY <1>1, <1>2, <1>3, <1>4, <1>5, <1>6 DEF Publisher

-----------------------------------------------------------------------------
(* The subscribers.                                                         *)

LEMMA SubscriberKeepsIInv ==
  ASSUME IInv, NEW s \in Sub, Subscriber(s) \/ SubFails(s) \/ (s \in Extra /\ SubStart(s))
  PROVE  IInv'
<1> USE DEF IInv, TypeOK, Reachable, StepsAgree, ResumeState, SessionEnd, Listening, PubAlive, SubAlive,
        SubGoto, launcher, file, publishers, sockets, subscribers,
        ScriptStep, PubStep, SubStep
<1>1. CASE SubConnect(s)
  <2>1. CASE UNCHANGED queue
    <3>1. \A t \in Sub : SubscriberState(t)'
      BY <1>1, <2>1 DEF SubConnect, Enqueue, SubscriberState, Connected
    <3>2. \A q \in Pub : PublisherState(q)' BY <1>1 DEF SubConnect, Enqueue, PublisherState
    <3> QED BY <1>1, <2>1, <3>1, <3>2 DEF SubConnect, Enqueue
  <2>2. ASSUME NEW p \in Pub, Len(queue[p]) <= Backlog, Enqueue(s, p) PROVE IInv'
    <3>1. /\ queue'[p] \in Seq(Sub) /\ Len(queue'[p]) <= Backlog + 1
          /\ ToSet(queue'[p]) = ToSet(queue[p]) \union {s}
      <4>1. queue[p] \in Seq(Sub) /\ queue'[p] = Append(queue[p], s)
        BY <2>2 DEF Enqueue
      <4>2. Len(queue[p]) \in Nat BY <4>1, LenProperties
      <4>3. /\ queue'[p] \in Seq(Sub) /\ Len(queue'[p]) = Len(queue[p]) + 1
            /\ ToSet(queue'[p]) = ToSet(queue[p]) \union {s}
        BY <4>1, AppendSet
      <4>4. Len(queue'[p]) <= Backlog + 1 BY <2>2, <4>2, <4>3
      <4> QED BY <4>3, <4>4
    <3>2. ASSUME NEW t \in Sub, NEW q \in Pub
          PROVE  Connected(t, q)' <=> Connected(t, q) \/ (t = s /\ q = p)
      BY <1>1, <2>2, <3>1 DEF SubConnect, Enqueue, Connected
    <3>3. \A t \in Sub : SubscriberState(t)'
      <4> SUFFICES ASSUME NEW t \in Sub PROVE SubscriberState(t)' OBVIOUS
      <4>1. CASE t = s
        <5>1. \A q \in Pub : ~Connected(s, q) BY <1>1 DEF SubConnect, SubscriberState
        <5> QED BY <1>1, <2>2, <3>2, <4>1, <5>1 DEF SubConnect, Enqueue, SubscriberState
      <4>2. CASE t # s
        BY <1>1, <2>2, <3>2, <4>2 DEF SubConnect, Enqueue, SubscriberState
      <4> QED BY <4>1, <4>2
    <3>4. \A q \in Pub : PublisherState(q)' BY <1>1 DEF SubConnect, PublisherState
    <3>5. TypeOK' BY <1>1, <2>2, <3>1 DEF SubConnect, Enqueue
    <3>6. Reachable' /\ StepsAgree' /\ ResumeState' /\ SessionEnd' BY <1>1, <2>2 DEF SubConnect, Enqueue
    <3> QED BY <3>3, <3>4, <3>5, <3>6
  <2> QED BY <1>1, <2>1, <2>2 DEF SubConnect
<1>2. CASE SubHandshake(s) \/ SubServeEnds(s) \/ SubFails(s)
  <2>1. /\ UNCHANGED <<launcher, file, publishers, sockets, subRunning>>
        /\ \/ sub' = [sub EXCEPT ![s] = "exited"]
           \/ /\ sub' = [sub EXCEPT ![s] = "serve"]
              /\ sub[s] = "handshake" /\ \E p \in Pub : s \in greeted[p]
    BY <1>2 DEF SubHandshake, SubServeEnds, SubFails
  <2>2. sub[s] \notin {"none"} BY <1>2 DEF SubHandshake, SubServeEnds, SubFails
  <2>3. \A t \in Sub : SubscriberState(t)' BY <2>1 DEF SubscriberState, Connected
  <2>4. \A q \in Pub : PublisherState(q)' BY <2>1 DEF PublisherState
  <2>5. TypeOK' /\ Reachable' BY <2>1
  <2>6. StepsAgree' /\ ResumeState' /\ SessionEnd' BY <2>1, <2>2
  <2> QED BY <2>3, <2>4, <2>5, <2>6
<1>3. CASE s \in Extra /\ SubStart(s)
  <2>1. s # Fg BY <1>3
  <2>2. \A t \in Sub : SubscriberState(t)'
    BY <1>3 DEF SubStart, SubscriberState, Connected
  <2>3. \A q \in Pub : PublisherState(q)' BY <1>3 DEF SubStart, PublisherState
  <2> QED BY <1>3, <2>1, <2>2, <2>3 DEF SubStart
<1> QED BY <1>1, <1>2, <1>3 DEF Subscriber

-----------------------------------------------------------------------------
(***************************************************************************)
(* IInv holds in every state: the launcher, the publishers and the         *)
(* subscribers stay in step through crashes, Ctrl+C and rivals.            *)
(***************************************************************************)
THEOREM Inductive == Spec => []IInv
<1>1. IInv /\ [Next]_vars => IInv'
  <2> SUFFICES ASSUME IInv, [Next]_vars PROVE IInv' OBVIOUS
  <2>1. CASE Script \/ CtrlC BY <2>1, ScriptKeepsIInv
  <2>2. ASSUME NEW p \in Pub, Publisher(p) \/ PubServeFails(p) \/ PubKill(p) PROVE IInv'
    BY <2>2, PublisherKeepsIInv
  <2>3. ASSUME NEW p \in Rivals, PubStart(p) PROVE IInv'
    <3> p \in Pub OBVIOUS
    <3> QED BY <2>3, PublisherKeepsIInv
  <2>4. ASSUME NEW s \in Sub, Subscriber(s) \/ SubFails(s) PROVE IInv'
    BY <2>4, SubscriberKeepsIInv
  <2>5. ASSUME NEW s \in Extra, SubStart(s) PROVE IInv'
    <3> s \in Sub OBVIOUS
    <3> QED BY <2>5, SubscriberKeepsIInv
  <2>6. CASE UNCHANGED vars
    <3>1. \A s \in Sub : SubscriberState(s)'
      BY <2>6, SocketsUnchanged DEF vars, subscribers
    <3> QED BY <2>6, <3>1
      DEF vars, launcher, file, publishers, sockets, subscribers, IInv, TypeOK,
          Reachable, StepsAgree, ResumeState, SessionEnd, PublisherState, Listening, SubAlive
  <2> QED BY <2>1, <2>2, <2>3, <2>4, <2>5, <2>6 DEF Next, Accidents, User, AtRest
<1> QED BY InitIInv, <1>1, PTL DEF Spec

(***************************************************************************)
(* Types, and listen queues that connect() never overfills.                *)
(***************************************************************************)
THEOREM TypeCorrect == Spec => []TypeOK
<1>1. IInv => TypeOK BY DEF IInv
<1> QED BY Inductive, <1>1, PTL

(***************************************************************************)
(* Only who did not start a publisher takes the path away from it.         *)
(***************************************************************************)
THEOREM AlwaysReachable == Spec => []Reachable
<1>1. IInv => Reachable BY DEF IInv
<1> QED BY Inductive, <1>1, PTL

(***************************************************************************)
(* With the script's publisher alone nothing takes the path from it.       *)
(***************************************************************************)
THEOREM AloneReachable ==
  ASSUME Rivals = {} PROVE Spec => [](Listening(Bg) => path = Bg)
<1> DEFINE Alone == IInv /\ robbed = {}
<1>1. Init => Alone BY InitIInv DEF Init
<1>2. Alone /\ [Next]_vars /\ IInv' => Alone'
  <2> SUFFICES ASSUME Alone, [Next]_vars, IInv' PROVE robbed' = {} OBVIOUS
  <2> USE DEF launcher, file, publishers, sockets, subscribers
  <2>1. ASSUME Unlink(Bg) PROVE robbed' = {} BY <2>1 DEF Unlink
  <2>2. CASE Script \/ CtrlC
    BY <2>1, <2>2 DEF Script, ScriptLaunch, ScriptSubscriber, ScriptSubscriberEnds,
                      ScriptCheck, ScriptKill, Errexit, ScriptWait, ScriptRm, CtrlC
  <2>3. ASSUME NEW p \in Pub, Publisher(p) \/ PubServeFails(p) \/ PubKill(p)
        PROVE  robbed' = {}
    <3> p = Bg OBVIOUS
    <3> QED BY <2>1, <2>3 DEF Publisher, PubInstall, PubCamera, PubUnlink, PubBind, PubListen, PubAccept,
          Accept, PubHandshake, PubServeEnds, PubCleanup, PubServeFails, PubKill, PubDies
  <2>4. ASSUME NEW s \in Sub, Subscriber(s) \/ SubFails(s) \/ SubStart(s)
        PROVE  robbed' = {}
    BY <2>4 DEF Subscriber, SubConnect, SubHandshake, SubServeEnds, SubFails, SubStart
  <2>5. CASE UNCHANGED vars BY <2>5 DEF vars
  <2> QED BY <2>2, <2>3, <2>4, <2>5 DEF Next, Accidents, User, AtRest
<1>3. Alone => (Listening(Bg) => path = Bg) BY DEF IInv, Reachable
<1> QED BY <1>1, <1>2, <1>3, Inductive, PTL DEF Spec

(***************************************************************************)
(* The camera's buffers go to one subscriber, however many connect.        *)
(***************************************************************************)
THEOREM ServesOne == Spec => []OneServed
<1>1. IInv => OneServed
  <2> SUFFICES ASSUME IInv PROVE OneServed OBVIOUS
  <2>1. \A p \in Pub : greeted[p] \subseteq {client[p]} BY DEF IInv, PublisherState
  <2>2. ASSUME NEW s \in Sub, sub[s] = "serve"
        PROVE  \E p \in Pub : \A q \in Pub : s \in greeted[q] <=> q = p
    <3> PICK p \in Pub : s \in greeted[p] BY <2>2 DEF IInv, SubscriberState
    <3>1. ASSUME NEW q \in Pub, s \in greeted[q] PROVE q = p
      <4> Connected(s, p) /\ Connected(s, q) BY <2>1, <3>1 DEF Connected
      <4> QED BY DEF IInv, SubscriberState
    <3> QED BY <3>1
  <2> QED BY <2>1, <2>2 DEF OneServed
<1> QED BY Inductive, <1>1, PTL

(***************************************************************************)
(* When run.sh has ended, both programs and their socket are gone.         *)
(***************************************************************************)
THEOREM CleanExit == Spec => []NothingLeftBehind
<1>1. IInv => NothingLeftBehind
  <2> SUFFICES ASSUME IInv PROVE NothingLeftBehind OBVIOUS
  <2>1. ScriptEnded => ~PubAlive(Bg) /\ ~SubAlive(Fg) /\ path # Bg
    BY DEF IInv, StepsAgree, ScriptEnded, PublisherState, PubAlive, Listening
  <2>2. script = "exited" => path = "absent" \/ \E p \in Rivals : pub[p] # "none"
    BY DEF IInv, StepsAgree
  <2>3. script = "failed" => ctrlC # "session"
    BY DEF IInv, SessionEnd, ResumeState
  <2> QED BY <2>1, <2>2, <2>3 DEF NothingLeftBehind
<1> QED BY Inductive, <1>1, PTL

-----------------------------------------------------------------------------
(* What Ctrl+C does to a session of the script's two programs.              *)

\* the publisher has accepted the script's subscriber, and Ctrl+C was pressed
Told == ctrlC # "never" /\ client[Bg] = Fg

\* most steps each of the three has still to take
Here == [subscriber |-> 5, check |-> 4, kill |-> 3, wait |-> 2, rm |-> 1,
         exited |-> 0, failed |-> 0]
After == [check |-> 4, kill |-> 3, rm |-> 1, exited |-> 0]
ScriptLeft == Here[script] + After[resume]
PubLeft == [handshake |-> 3, serve |-> 2, cleanup |-> 1, exited |-> 0]
SubLeft == [handshake |-> 2, serve |-> 1, exited |-> 0]
Left == ScriptLeft + PubLeft[pub[Bg]] + SubLeft[sub[Fg]]

\* where each of them waits for nobody, or for what has already come
ScriptCan == \/ script \in {"check", "kill", "rm"}
             \/ script = "subscriber" /\ sub[Fg] = "exited"
             \/ script = "wait" /\ pub[Bg] = "exited"
PubCan == \/ pub[Bg] \in {"handshake", "cleanup"}
          \/ pub[Bg] = "serve" /\ (~pubRunning[Bg] \/ ~SubAlive(Fg))
SubCan == \/ sub[Fg] = "serve" /\ (~subRunning[Fg] \/ (Fg \in greeted[Bg] /\ ~PubAlive(Bg)))
          \/ sub[Fg] = "handshake" /\ (Fg \in greeted[Bg] \/ ~PubAlive(Bg))

\* once pressed, Ctrl+C has reached the script's subscriber, or the publisher
\* was gone before that began
CtrlCSeen ==
  ctrlC # "never" =>
    ~subRunning[Fg] \/ sub[Fg] \in {"none", "exited"} \/ pub[Bg] = "exited"

LEMMA InitCtrlCSeen == Init => CtrlCSeen
BY DEF Init, CtrlCSeen

LEMMA NextCtrlCSeen == IInv /\ CtrlCSeen /\ [Next]_vars => CtrlCSeen'
<1> SUFFICES ASSUME IInv, CtrlCSeen, [Next]_vars PROVE CtrlCSeen' OBVIOUS
<1> USE DEF CtrlCSeen, IInv, TypeOK, launcher, publishers, subscribers
<1>1. CASE Script
  <2>1. CASE ScriptSubscriber
    <3>1. ctrlC # "never" => pub[Bg] = "exited"
      BY <2>1 DEF ScriptSubscriber, ResumeState, SessionEnd
    <3> QED BY <2>1, <3>1 DEF ScriptSubscriber, ScriptGoto
  <2>2. CASE ~ScriptSubscriber
    <3>1. UNCHANGED <<ctrlC, subscribers>> /\ (pub[Bg] = "exited" => pub'[Bg] = "exited")
      BY <1>1, <2>2 DEF Script, ScriptLaunch, ScriptSubscriberEnds, ScriptCheck, ScriptKill,
                        Errexit, ScriptWait, ScriptRm, ScriptGoto, StepsAgree
    <3> QED BY <3>1
  <2> QED BY <2>1, <2>2
<1>2. CASE CtrlC
  BY <1>2 DEF CtrlC, SubAlive, SubStep
<1>3. ASSUME NEW p \in Pub, Publisher(p) \/ PubServeFails(p) \/ PubKill(p) \/ (p \in Rivals /\ PubStart(p))
      PROVE  CtrlCSeen'
  <2>1. UNCHANGED <<launcher, pubRunning, subscribers>> /\ (pub[Bg] = "exited" => pub'[Bg] = "exited")
    BY <1>3 DEF Publisher, PubInstall, PubCamera, PubUnlink, PubBind, PubListen, PubAccept, Accept,
                PubHandshake, PubServeEnds, PubCleanup, PubServeFails, PubKill, PubStart,
                PubDies, PubGoto, PubAlive
  <2> QED BY <2>1
<1>4. ASSUME NEW s \in Sub, Subscriber(s) \/ SubFails(s) \/ (s \in Extra /\ SubStart(s))
      PROVE  CtrlCSeen'
  <2>1. /\ UNCHANGED <<launcher, publishers, subRunning>>
        /\ sub[Fg] \in {"none", "exited"} => sub'[Fg] = sub[Fg]
    BY <1>4 DEF Subscriber, SubConnect, Enqueue, SubHandshake, SubServeEnds, SubFails,
                SubStart, SubGoto, SubAlive
  <2> QED BY <2>1
<1>5. CASE UNCHANGED vars BY <1>5 DEF vars
<1> QED BY <1>1, <1>2, <1>3, <1>4, <1>5 DEF Next, Accidents, User, AtRest

LEMMA Counts ==
  /\ Here["subscriber"] = 5 /\ Here["check"] = 4 /\ Here["kill"] = 3 /\ Here["wait"] = 2
  /\ Here["rm"] = 1 /\ Here["exited"] = 0 /\ Here["failed"] = 0
  /\ After["check"] = 4 /\ After["kill"] = 3 /\ After["rm"] = 1 /\ After["exited"] = 0
  /\ PubLeft["handshake"] = 3 /\ PubLeft["serve"] = 2 /\ PubLeft["cleanup"] = 1
  /\ PubLeft["exited"] = 0
  /\ SubLeft["handshake"] = 2 /\ SubLeft["serve"] = 1 /\ SubLeft["exited"] = 0
BY DEF Here, After, PubLeft, SubLeft

\* a session of the two: both know each other, and neither can begin anew
LEMMA InSession ==
  ASSUME IInv, CtrlCSeen, Told
  PROVE  /\ script \in {"subscriber", "check", "kill", "wait", "rm", "exited", "failed"}
         /\ resume \in {"check", "kill", "rm", "exited"}
         /\ ScriptEnded => resume = "exited"
         /\ pub[Bg] \in {"handshake", "serve", "cleanup", "exited"}
         /\ sub[Fg] \in {"handshake", "serve", "exited"}
         /\ sub[Fg] = "serve" => ~subRunning[Fg] \/ pub[Bg] = "exited"
         /\ sub[Fg] = "serve" \/ pub[Bg] = "serve" => Fg \in greeted[Bg]
<1>1. Connected(Fg, Bg) BY DEF Told, Connected
<1>2. sub[Fg] \notin {"none", "connect"} BY <1>1 DEF IInv, SubscriberState
<1>3. sub[Fg] \in {"handshake", "serve", "exited"} BY <1>2 DEF IInv, TypeOK, SubStep
<1>4. pub[Bg] \in PubStep /\ pub[Bg] \notin {"none", "start", "camera", "unlink", "bind", "listen", "accept"}
  BY DEF IInv, TypeOK, PublisherState, Told
<1>5. pub[Bg] \in {"handshake", "serve", "cleanup", "exited"} BY <1>4 DEF PubStep
<1>6. /\ script \in {"subscriber", "check", "kill", "wait", "rm", "exited", "failed"}
      /\ resume \in {"check", "kill", "rm", "exited"}
      /\ ScriptEnded => resume = "exited"
  BY <1>2 DEF IInv, TypeOK, ScriptStep, StepsAgree, ResumeState, ScriptEnded
<1>7. sub[Fg] = "serve" => Fg \in greeted[Bg]
  <2> SUFFICES ASSUME sub[Fg] = "serve" PROVE Fg \in greeted[Bg] OBVIOUS
  <2> PICK p \in Pub : Fg \in greeted[p] BY DEF IInv, SubscriberState
  <2>1. Connected(Fg, p) BY DEF IInv, PublisherState, Connected
  <2> QED BY <1>1, <2>1 DEF IInv, SubscriberState
<1>8. pub[Bg] = "serve" => Fg \in greeted[Bg] BY DEF IInv, PublisherState, Told
<1>9. sub[Fg] = "serve" => ~subRunning[Fg] \/ pub[Bg] = "exited"
  BY DEF CtrlCSeen, Told
<1> QED BY <1>3, <1>5, <1>6, <1>7, <1>8, <1>9

\* each step brings one of the three further, or none
LEMMA OneMoves ==
  ASSUME IInv, CtrlCSeen, [Next]_vars, Told
  PROVE  /\ Told'
         /\ \/ UNCHANGED <<script, resume, pub[Bg], sub[Fg]>>
            \/ /\ ScriptLeft' < ScriptLeft /\ UNCHANGED <<pub[Bg], sub[Fg]>>
            \/ /\ PubLeft[pub'[Bg]] < PubLeft[pub[Bg]] /\ UNCHANGED <<script, resume, sub[Fg]>>
            \/ /\ SubLeft[sub'[Fg]] < SubLeft[sub[Fg]] /\ UNCHANGED <<script, resume, pub[Bg]>>
<1> DEFINE Same == UNCHANGED <<script, resume, pub[Bg], sub[Fg]>>
           Sc == ScriptLeft' < ScriptLeft /\ UNCHANGED <<pub[Bg], sub[Fg]>>
           Pb == PubLeft[pub'[Bg]] < PubLeft[pub[Bg]] /\ UNCHANGED <<script, resume, sub[Fg]>>
           Sb == SubLeft[sub'[Fg]] < SubLeft[sub[Fg]] /\ UNCHANGED <<script, resume, pub[Bg]>>
           Goal == Told' /\ (Same \/ Sc \/ Pb \/ Sb)
<1> SUFFICES Goal OBVIOUS
<1>0. /\ script \in {"subscriber", "check", "kill", "wait", "rm", "exited", "failed"}
      /\ resume \in {"check", "kill", "rm", "exited"}
      /\ pub[Bg] \in {"handshake", "serve", "cleanup", "exited"}
      /\ sub[Fg] \in {"handshake", "serve", "exited"}
      /\ ctrlC # "never" /\ client[Bg] = Fg
      /\ pub \in [Pub -> PubStep] /\ sub \in [Sub -> SubStep]
      /\ client \in [Pub -> Sub \union {Nobody}]
  BY InSession DEF Told, IInv, TypeOK
<1> USE DEF launcher, file, publishers, sockets, subscribers
<1>1. CASE Script
  <2>1. /\ UNCHANGED <<pub, sub, client>> /\ ctrlC' = ctrlC
        /\ \/ script = "subscriber" /\ script' = "check" /\ resume' = resume
           \/ script = "check" /\ script' \in {"kill", "rm"} /\ resume' = resume
           \/ script = "kill" /\ script' = "wait" /\ resume' = resume
           \/ script = "kill" /\ script' = "check" /\ resume = "check" /\ resume' = "exited"
           \/ script = "kill" /\ script' = "failed" /\ resume' = "exited"
           \/ script = "wait" /\ script' = "rm" /\ resume' = resume
           \/ script = "rm" /\ script' = resume /\ resume' = "exited"
    BY <1>0, <1>1 DEF Script, ScriptLaunch, ScriptSubscriber, ScriptSubscriberEnds, ScriptCheck,
                      ScriptKill, Errexit, ScriptWait, ScriptRm, ScriptGoto
  <2>2. Sc BY <1>0, <2>1, Counts DEF ScriptLeft
  <2> QED BY <1>0, <2>1, <2>2 DEF Told
<1>2. CASE CtrlC BY <1>0, <1>2 DEF CtrlC
<1>3. ASSUME NEW p \in Pub, Publisher(p) \/ PubServeFails(p) \/ PubKill(p) \/ (p \in Rivals /\ PubStart(p))
      PROVE  Goal
  <2>1. /\ UNCHANGED <<launcher, subscribers>>
        /\ \E next : pub' = [pub EXCEPT ![p] = next]
    BY <1>3 DEF Publisher, PubInstall, PubCamera, PubUnlink, PubBind, PubListen, PubAccept, Accept,
                PubHandshake, PubServeEnds, PubCleanup, PubServeFails, PubKill, PubStart,
                PubDies, PubGoto
  <2>2. client'[Bg] = client[Bg]
    BY <1>0, <1>3 DEF Publisher, PubInstall, PubCamera, PubUnlink, PubBind, PubListen, PubAccept, Accept,
                PubHandshake, PubServeEnds, PubCleanup, PubServeFails, PubKill, PubStart
  <2>3. CASE p # Bg BY <1>0, <2>1, <2>2, <2>3 DEF Told
  <2>4. CASE p = Bg
    <3>1. \/ pub[Bg] = "handshake" /\ pub'[Bg] \in {"serve", "exited"}
          \/ pub[Bg] = "serve" /\ pub'[Bg] \in {"cleanup", "exited"}
          \/ pub[Bg] = "cleanup" /\ pub'[Bg] = "exited"
      BY <1>0, <1>3, <2>4
         DEF Publisher, PubInstall, PubCamera, PubUnlink, PubBind, PubListen, PubAccept,
             PubHandshake, PubServeEnds, PubCleanup, PubServeFails, PubKill,
             PubDies, PubGoto, PubAlive
    <3>2. Pb BY <2>1, <3>1, Counts
    <3> QED BY <1>0, <2>1, <2>2, <3>2 DEF Told
  <2> QED BY <2>3, <2>4
<1>4. ASSUME NEW s \in Sub, Subscriber(s) \/ SubFails(s) \/ (s \in Extra /\ SubStart(s))
      PROVE  Goal
  <2>1. /\ UNCHANGED <<launcher, publishers, client>>
        /\ \E next : sub' = [sub EXCEPT ![s] = next]
    BY <1>4 DEF Subscriber, SubConnect, Enqueue, SubHandshake, SubServeEnds, SubFails,
                SubStart, SubGoto
  <2>2. CASE s # Fg BY <1>0, <2>1, <2>2 DEF Told
  <2>3. CASE s = Fg
    <3>1. \/ sub[Fg] = "handshake" /\ sub'[Fg] \in {"serve", "exited"}
          \/ sub[Fg] = "serve" /\ sub'[Fg] = "exited"
      BY <1>0, <1>4, <2>3 DEF Subscriber, SubConnect, SubHandshake, SubServeEnds, SubFails,
                              SubGoto, SubAlive
    <3>2. Sb BY <2>1, <3>1, Counts
    <3> QED BY <1>0, <2>1, <3>2 DEF Told
  <2> QED BY <2>2, <2>3
<1>5. CASE UNCHANGED vars BY <1>0, <1>5 DEF vars, Told
<1> HIDE DEF Goal
<1> QED BY <1>1, <1>2, <1>3, <1>4, <1>5 DEF Next, Accidents, User, AtRest

LEMMA LeftCounts ==
  ASSUME IInv, CtrlCSeen, Told
  PROVE  ScriptLeft \in 0 .. 9 /\ PubLeft[pub[Bg]] \in 0 .. 3 /\ SubLeft[sub[Fg]] \in 0 .. 2
BY InSession, Counts DEF ScriptLeft

(***************************************************************************)
(* Once Ctrl+C was pressed in a session of the script's two programs,      *)
(* every step of the script or of either lowers Left, and nobody raises    *)
(* it: no rival, no further subscriber and no crash.                       *)
(***************************************************************************)
CtrlCWindsDown ==
  [][Told => /\ Told' /\ Left' <= Left
             /\ Left' < Left \/ UNCHANGED <<script, resume, pub[Bg], sub[Fg]>>]_vars

THEOREM CtrlCWinds == Spec => CtrlCWindsDown
<1> DEFINE Winds == /\ Told' /\ Left' <= Left
                    /\ Left' < Left \/ UNCHANGED <<script, resume, pub[Bg], sub[Fg]>>
<1>1. IInv /\ IInv' /\ CtrlCSeen /\ CtrlCSeen' /\ [Next]_vars => (Told => Winds)
  <2> SUFFICES ASSUME IInv, IInv', CtrlCSeen, CtrlCSeen', [Next]_vars, Told PROVE Winds OBVIOUS
  <2> DEFINE a == ScriptLeft
             b == PubLeft[pub[Bg]]
             c == SubLeft[sub[Fg]]
  <2>1. Told' BY OneMoves
  <2>2. a \in 0 .. 9 /\ b \in 0 .. 3 /\ c \in 0 .. 2 BY LeftCounts
  <2>3. a' \in 0 .. 9 /\ b' \in 0 .. 3 /\ c' \in 0 .. 2
    <3>1. (IInv /\ CtrlCSeen /\ Told => a \in 0 .. 9 /\ b \in 0 .. 3 /\ c \in 0 .. 2)'
      BY LeftCounts, PTL
    <3> QED BY <2>1, <3>1
  <2>4. \/ UNCHANGED <<script, resume, pub[Bg], sub[Fg]>> /\ a' = a /\ b' = b /\ c' = c
        \/ a' < a /\ b' = b /\ c' = c
        \/ b' < b /\ a' = a /\ c' = c
        \/ c' < c /\ a' = a /\ b' = b
    BY OneMoves DEF ScriptLeft
  <2>5. Left = a + b + c /\ Left' = a' + b' + c' BY DEF Left
  <2>6. /\ a \in Int /\ b \in Int /\ c \in Int
        /\ a' \in Int /\ b' \in Int /\ c' \in Int
    BY <2>2, <2>3
  <2>7. CASE a' < a /\ b' = b /\ c' = c BY <2>1, <2>5, <2>6, <2>7
  <2>8. CASE b' < b /\ a' = a /\ c' = c BY <2>1, <2>5, <2>6, <2>8
  <2>9. CASE c' < c /\ a' = a /\ b' = b BY <2>1, <2>5, <2>6, <2>9
  <2>10. CASE UNCHANGED <<script, resume, pub[Bg], sub[Fg]>> /\ a' = a /\ b' = b /\ c' = c
    BY <2>1, <2>5, <2>6, <2>10
  <2> QED BY <2>4, <2>7, <2>8, <2>9, <2>10
<1> QED BY <1>1, Inductive, InitCtrlCSeen, NextCtrlCSeen, PTL DEF Spec, CtrlCWindsDown

(***************************************************************************)
(* From there fourteen steps are left at most; none exactly when           *)
(* everything has stopped and no socket of the publisher is left; before   *)
(* that one of the three is at a step that waits for nobody, whatever      *)
(* rivals do.                                                              *)
(***************************************************************************)
THEOREM CtrlCBounded ==
  Spec => [](Told => /\ Left \in 0 .. 14 /\ (Left = 0 <=> Stopped)
                     /\ Stopped \/ ScriptCan \/ PubCan \/ SubCan)
<1>1. IInv /\ CtrlCSeen /\ Told => /\ Left \in 0 .. 14 /\ (Left = 0 <=> Stopped)
                                   /\ Stopped \/ ScriptCan \/ PubCan \/ SubCan
  <2> SUFFICES ASSUME IInv, CtrlCSeen, Told
               PROVE  /\ Left \in 0 .. 14 /\ (Left = 0 <=> Stopped)
                      /\ Stopped \/ ScriptCan \/ PubCan \/ SubCan
    OBVIOUS
  <2>1. Left \in 0 .. 14 BY LeftCounts DEF Left
  <2>2. Left = 0 <=> ScriptEnded /\ pub[Bg] = "exited" /\ sub[Fg] = "exited"
    <3>1. ScriptLeft = 0 <=> ScriptEnded
      BY InSession, Counts DEF ScriptLeft, ScriptEnded
    <3>2. /\ PubLeft[pub[Bg]] = 0 <=> pub[Bg] = "exited"
          /\ SubLeft[sub[Fg]] = 0 <=> sub[Fg] = "exited"
      BY InSession, Counts
    <3> QED BY <3>1, <3>2, LeftCounts DEF Left
  <2>3. pub[Bg] = "exited" => path # Bg BY DEF IInv, PublisherState, Listening
  <2>4. Left = 0 <=> Stopped BY <2>2, <2>3, InSession DEF Stopped, SubAlive
  <2>5. Stopped \/ ScriptCan \/ PubCan \/ SubCan
    <3>1. CASE pub[Bg] = "serve"
      <4>1. ASSUME sub[Fg] \in {"handshake", "serve"} PROVE SubCan
        <5>1. Fg \in greeted[Bg] BY <3>1, InSession
        <5>2. pub[Bg] # "exited" BY <3>1
        <5>3. sub[Fg] = "serve" => ~subRunning[Fg] BY <5>2, InSession
        <5>4. CASE sub[Fg] = "serve" BY <5>3, <5>4 DEF SubCan
        <5>5. CASE sub[Fg] = "handshake" BY <5>1, <5>5 DEF SubCan
        <5> QED BY <4>1, <5>4, <5>5
      <4>2. sub[Fg] = "exited" => PubCan BY <3>1 DEF PubCan, SubAlive
      <4> QED BY <3>1, <4>1, <4>2, InSession
    <3>2. CASE pub[Bg] \in {"handshake", "cleanup"} BY <3>2 DEF PubCan
    <3>3. CASE pub[Bg] = "exited" /\ sub[Fg] # "exited"
      BY <3>3, InSession DEF SubCan, PubAlive
    <3>4. CASE pub[Bg] = "exited" /\ sub[Fg] = "exited"
      BY <2>3, <3>4, InSession DEF Stopped, SubAlive, ScriptCan, ScriptEnded
    <3> QED BY <3>1, <3>2, <3>3, <3>4, InSession
  <2> QED BY <2>1, <2>4, <2>5
<1> QED BY <1>1, Inductive, InitCtrlCSeen, NextCtrlCSeen, PTL DEF Spec
=============================================================================
