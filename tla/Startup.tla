------------------------------- MODULE Startup -------------------------------
(***************************************************************************)
(* How the programs find each other and how run.sh starts and stops them:  *)
(* the socket path, the listen queue, accept, the handshake message, the   *)
(* launcher script with its trap, Ctrl+C, crashes, and further publishers  *)
(* and subscribers that a user starts by hand on the same path.            *)
(*                                                                         *)
(* Ctrl+C is pressed once.  The frame loops are one step here ("serve");   *)
(* Session.tla shows that they end once a program is told to stop or its   *)
(* peer is gone.                                                           *)
(***************************************************************************)
EXTENDS Integers, Sequences, SequencesExt, FiniteSets

CONSTANTS Extra,    \* subscribers started by hand
          Fg,       \* the subscriber run.sh runs in the foreground
          Rivals,   \* publishers started by hand
          Bg,       \* the publisher run.sh runs in the background
          Nobody,   \* no subscriber
          Backlog   \* second argument of listen()

NameAssumption == /\ Fg \notin Extra /\ Nobody \notin Extra \union {Fg}
                  /\ Bg \notin Rivals
                  /\ {"absent", "stale"} \intersect (Rivals \union {Bg}) = {}
BacklogAssumption == Backlog \in Nat
ASSUME NameAssumption
ASSUME BacklogAssumption

Sub == Extra \union {Fg}
Pub == Rivals \union {Bg}

VARIABLES
  script,     \* the step of run.sh
  resume,     \* where run.sh goes on after the next run of cleanup
  ctrlC,      \* when Ctrl+C was pressed
  path,       \* the file system entry of the socket: no file, a file without
              \* a socket, or the publisher whose socket it names
  robbed,     \* history: publishers whose file somebody started by hand removed,
              \* or that run.sh, which did not start them, removed
  pub,        \* the step of each publisher
  pubRunning, \* their g_running
  queue,      \* connections waiting for accept, in each listening socket
  client,     \* the subscriber each has accepted
  greeted,    \* subscribers each has sent a handshake message to
  sub,        \* the step of each subscriber
  subRunning  \* their g_running

launcher == <<script, resume, ctrlC>>
file == <<path, robbed>>
publishers == <<pub, pubRunning>>
sockets == <<queue, client, greeted>>
subscribers == <<sub, subRunning>>
vars == <<launcher, file, publishers, sockets, subscribers>>

\* "failed": an error left the EXIT trap before rm
ScriptStep == {"launch", "sleep", "subscriber", "check", "kill", "wait", "rm",
               "exited", "failed"}
PubStep == {"none", "start", "camera", "unlink", "bind", "listen", "accept", "handshake",
            "serve", "cleanup", "exited"}
SubStep == {"none", "connect", "handshake", "serve", "exited"}

PubAlive(p) == pub[p] \notin {"none", "exited"}
\* its signal handlers are installed
Handles(p) == PubAlive(p) /\ pub[p] # "start"
ScriptEnded == script \in {"exited", "failed"}
SubAlive(s) == sub[s] \notin {"none", "exited"}
Listening(p) == pub[p] \in {"accept", "handshake", "serve", "cleanup"}
Connected(s, p) == s = client[p] \/ s \in ToSet(queue[p])

\* an earlier publisher may have crashed and left its file
Init == /\ script = "launch" /\ resume = "exited" /\ ctrlC = "never"
        /\ path \in {"absent", "stale"} /\ robbed = {}
        /\ pub = [p \in Pub |-> "none"] /\ pubRunning = [p \in Pub |-> TRUE]
        /\ queue = [p \in Pub |-> <<>>] /\ client = [p \in Pub |-> Nobody]
        /\ greeted = [p \in Pub |-> {}]
        /\ sub = [s \in Sub |-> "none"]
        /\ subRunning = [s \in Sub |-> TRUE]

\* unlink(); the name is gone, whoever listens behind it
Unlink(starter) == /\ path' = "absent"
                   /\ robbed' = robbed \union ({path} \intersect (Pub \ {starter}))

-----------------------------------------------------------------------------
(* run.sh.  Its function cleanup is the steps check, kill, wait and rm; it  *)
(* runs for SIGINT and again for EXIT.                                      *)

ScriptGoto(step) == script' = step /\ UNCHANGED <<resume, ctrlC>>

ScriptLaunch ==
  /\ script = "launch" /\ ScriptGoto("sleep")
  /\ pub' = [pub EXCEPT ![Bg] = "start"]
  /\ UNCHANGED <<file, pubRunning, sockets, subscribers>>

\* sleep 0.3: nothing checks that the publisher listens by then
ScriptSubscriber ==
  /\ script = "sleep" /\ ScriptGoto("subscriber")
  /\ sub' = [sub EXCEPT ![Fg] = "connect"]
  /\ UNCHANGED <<file, publishers, sockets, subRunning>>

\* set -e or the end of the script; a SIGINT that came meanwhile is handled
\* now, then both run the EXIT trap
ScriptSubscriberEnds ==
  /\ script = "subscriber" /\ sub[Fg] = "exited" /\ ScriptGoto("check")
  /\ UNCHANGED <<file, publishers, sockets, subscribers>>

\* a bug: cleanup removes the file without waiting for the publisher
ScriptCheckNoWait ==
  /\ script = "check" /\ ScriptGoto("rm")
  /\ UNCHANGED <<file, publishers, sockets, subscribers>>

\* kill -0: is the publisher still there?
ScriptCheck ==
  /\ script = "check" /\ ScriptGoto(IF PubAlive(Bg) THEN "kill" ELSE "rm")
  /\ UNCHANGED <<file, publishers, sockets, subscribers>>

\* a signal clears g_running, once it is handled
Signalled == pubRunning' = [pubRunning EXCEPT ![Bg] = @ /\ ~Handles(Bg)]

\* set -e leaves cleanup: the trap of SIGINT for the EXIT trap, that for the end
Errexit == /\ script' = IF resume \in {"sleep", "check"} THEN "check" ELSE "failed"
           /\ resume' = "exited"
           /\ UNCHANGED <<ctrlC, publishers>>

\* kill.  SIGTERM ends a publisher that has no handler yet, or is lost in one
\* that has but clears it (RUNNING.store(true) in Rust); the command fails if
\* the publisher ended since kill -0, unless bash has yet to notice that
ScriptKill ==
  /\ script = "kill"
  /\ \/ /\ ScriptGoto("wait") /\ Signalled
        /\ \/ UNCHANGED pub
           \/ pub[Bg] = "start" /\ pub' = [pub EXCEPT ![Bg] = "exited"]
     \/ ~PubAlive(Bg) /\ Errexit
  /\ UNCHANGED <<file, sockets, subscribers>>

ScriptWait ==
  /\ script = "wait" /\ pub[Bg] = "exited" /\ ScriptGoto("rm")
  /\ UNCHANGED <<file, publishers, sockets, subscribers>>

ScriptRm ==
  /\ script = "rm" /\ script' = resume /\ resume' = "exited"
  /\ Unlink(Bg)
  /\ UNCHANGED <<ctrlC, publishers, sockets, subscribers>>

\* SIGINT to the process group.  bash ignores it for a publisher without
\* handlers.  It ends the sleep and the script, or comes before or after it and
\* the script goes on; a foreground subscriber ends by itself before bash runs
\* the trap (or at once, SubFails); the EXIT trap goes on afterwards, where its
\* wait was interrupted with rm.
CtrlC ==
  /\ script \in {"sleep", "subscriber", "check", "kill", "wait", "rm"} /\ ctrlC = "never"
  /\ ctrlC' = IF script \in {"sleep", "subscriber"} THEN "session" ELSE "trap"
  /\ script' = IF script = "subscriber" THEN script ELSE "check"
  /\ \/ script = "sleep" /\ resume' \in {"sleep", "check"}
     \/ script = "subscriber" /\ resume' = "check"
     \/ script = "kill" /\ resume' = "kill"
     \/ script \in {"check", "wait", "rm"} /\ resume' = "rm"
  /\ Signalled
  /\ subRunning' = [subRunning EXCEPT ![Fg] = @ /\ ~SubAlive(Fg)]
  /\ UNCHANGED <<file, pub, sockets, sub>>

-----------------------------------------------------------------------------
(* A publisher up to its loop.                                              *)

PubGoto(p, step) == pub' = [pub EXCEPT ![p] = step] /\ UNCHANGED pubRunning

\* the descriptors of the process close; a bound path keeps its entry
PubDies(p) == /\ PubGoto(p, "exited")
              /\ path' = IF path = p THEN "stale" ELSE path
              /\ UNCHANGED robbed

\* the user runs another publisher
PubStart(p) ==
  /\ p \in Rivals /\ pub[p] = "none" /\ PubGoto(p, "start")
  /\ UNCHANGED <<launcher, file, sockets, subscribers>>

\* signal(); in Rust also RUNNING.store(true)
PubInstall(p) ==
  /\ pub[p] = "start" /\ PubGoto(p, "camera")
  /\ UNCHANGED <<launcher, file, sockets, subscribers>>

\* open and start the camera; without one the publisher ends here
PubCamera(p) ==
  /\ pub[p] = "camera"
  /\ \/ PubGoto(p, "unlink") /\ UNCHANGED file
     \/ PubDies(p)
  /\ UNCHANGED <<launcher, sockets, subscribers>>

PubUnlink(p) ==
  /\ pub[p] = "unlink" /\ PubGoto(p, "bind")
  /\ Unlink(p)
  /\ UNCHANGED <<launcher, sockets, subscribers>>

\* a bug: the file is not checked, bind() replaces it
PubBindOver(p) ==
  /\ pub[p] = "bind"
  /\ \/ path' = p /\ PubGoto(p, "listen") /\ UNCHANGED robbed
     \/ PubDies(p)
  /\ UNCHANGED <<launcher, sockets, subscribers>>

\* bind() fails if somebody has bound the path since
PubBind(p) ==
  /\ pub[p] = "bind"
  /\ \/ path = "absent" /\ path' = p /\ PubGoto(p, "listen") /\ UNCHANGED robbed
     \/ PubDies(p)
  /\ UNCHANGED <<launcher, sockets, subscribers>>

PubListen(p) ==
  /\ pub[p] = "listen"
  /\ \/ PubGoto(p, "accept") /\ UNCHANGED file
     \/ PubDies(p)
  /\ UNCHANGED <<launcher, sockets, subscribers>>

Accept(p) ==
  /\ queue[p] # <<>>
  /\ client' = [client EXCEPT ![p] = Head(queue[p])]
  /\ queue' = [queue EXCEPT ![p] = Tail(@)]
  /\ PubGoto(p, "handshake")
  /\ UNCHANGED <<greeted, file, launcher, subscribers>>

\* a bug: the publisher accepts again while it serves
PubAcceptAgain(p) == pub[p] \in {"accept", "serve"} /\ Accept(p)

\* accept4 blocks; a signal restarts it: signal() installs handlers with SA_RESTART
PubAccept(p) == pub[p] = "accept" /\ Accept(p)

\* one sendmsg with all descriptors; it fails if the subscriber is gone
PubHandshake(p) ==
  /\ pub[p] = "handshake"
  /\ IF SubAlive(client[p])
     THEN /\ greeted' = [greeted EXCEPT ![p] = @ \union {client[p]}]
          /\ PubGoto(p, "serve") /\ UNCHANGED file
     ELSE UNCHANGED greeted /\ PubDies(p)
  /\ UNCHANGED <<queue, client, launcher, subscribers>>

\* a bug: the loop does not notice that the subscriber has gone
PubServeBlind(p) ==
  /\ pub[p] = "serve" /\ ~pubRunning[p]
  /\ PubGoto(p, "cleanup")
  /\ UNCHANGED <<file, launcher, sockets, subscribers>>

\* Session.tla: the loop ends when it is told to, or with the subscriber
PubServeEnds(p) ==
  /\ pub[p] = "serve" /\ (~pubRunning[p] \/ ~SubAlive(client[p]))
  /\ PubGoto(p, "cleanup")
  /\ UNCHANGED <<file, launcher, sockets, subscribers>>

\* the camera stalls for two seconds or fails
PubServeFails(p) ==
  /\ pub[p] = "serve" /\ PubGoto(p, "cleanup")
  /\ UNCHANGED <<file, launcher, sockets, subscribers>>

\* unlink, whoever has bound the path by now, then exit
PubCleanup(p) ==
  /\ pub[p] = "cleanup" /\ PubGoto(p, "exited")
  /\ Unlink(p)
  /\ UNCHANGED <<launcher, sockets, subscribers>>

PubKill(p) ==
  /\ PubAlive(p) /\ PubDies(p)
  /\ UNCHANGED <<launcher, sockets, subscribers>>

-----------------------------------------------------------------------------
(* A subscriber up to its loop.                                             *)

SubGoto(s, step) == sub' = [sub EXCEPT ![s] = step] /\ UNCHANGED subRunning

\* the user runs another subscriber
SubStart(s) ==
  /\ s \in Extra /\ sub[s] = "none" /\ SubGoto(s, "connect")
  /\ UNCHANGED <<launcher, file, publishers, sockets>>

Enqueue(s, p) == /\ queue' = [queue EXCEPT ![p] = Append(@, s)]
                 /\ SubGoto(s, "handshake")

\* nobody listens behind the name, or there is no name
Refused == \A p \in Pub : ~(path = p /\ Listening(p))

\* a bug: the listen queue has no limit
SubConnectUnbounded(s) ==
  /\ sub[s] = "connect"
  /\ \/ \E p \in Pub : path = p /\ Listening(p) /\ Enqueue(s, p)
     \/ Refused /\ UNCHANGED queue /\ SubGoto(s, "exited")
  /\ UNCHANGED <<client, greeted, launcher, file, publishers>>

\* connect() blocks while the listen queue is full: Backlog + 1 connections
SubConnect(s) ==
  /\ sub[s] = "connect"
  /\ \/ \E p \in Pub : /\ path = p /\ Listening(p)
                        /\ Len(queue[p]) <= Backlog /\ Enqueue(s, p)
     \/ Refused /\ UNCHANGED queue /\ SubGoto(s, "exited")
  /\ UNCHANGED <<client, greeted, launcher, file, publishers>>

\* a bug: recv_handshake does not notice the end of the stream
SubHandshakeBlind(s) ==
  /\ sub[s] = "handshake" /\ (\E p \in Pub : s \in greeted[p])
  /\ SubGoto(s, "serve")
  /\ UNCHANGED <<launcher, file, publishers, sockets>>

\* recvmsg blocks for the handshake; the listener's end resets who still queues
SubHandshake(s) ==
  /\ sub[s] = "handshake"
  /\ \E p \in Pub :
       \/ s \in greeted[p] /\ SubGoto(s, "serve")
       \/ /\ Connected(s, p) /\ s \notin greeted[p] /\ ~PubAlive(p)
          /\ SubGoto(s, "exited")
  /\ UNCHANGED <<launcher, file, publishers, sockets>>

SubServeEnds(s) ==
  /\ sub[s] = "serve"
  /\ ~subRunning[s] \/ \E p \in Pub : s \in greeted[p] /\ ~PubAlive(p)
  /\ SubGoto(s, "exited")
  /\ UNCHANGED <<launcher, file, publishers, sockets>>

\* no compositor, no EGL, a window that closes, a crash
SubFails(s) ==
  /\ SubAlive(s) /\ SubGoto(s, "exited")
  /\ UNCHANGED <<launcher, file, publishers, sockets>>

-----------------------------------------------------------------------------
Script == \/ ScriptLaunch \/ ScriptSubscriber \/ ScriptSubscriberEnds
          \/ ScriptCheck \/ ScriptKill \/ ScriptWait \/ ScriptRm
Publisher(p) == \/ PubInstall(p) \/ PubCamera(p) \/ PubUnlink(p) \/ PubBind(p) \/ PubListen(p)
                \/ PubAccept(p) \/ PubHandshake(p) \/ PubServeEnds(p) \/ PubCleanup(p)
Subscriber(s) == SubConnect(s) \/ SubHandshake(s) \/ SubServeEnds(s)
Accidents == \/ \E p \in Pub : PubServeFails(p) \/ PubKill(p)
             \/ \E s \in Sub : SubFails(s)
User == CtrlC \/ (\E s \in Extra : SubStart(s)) \/ (\E p \in Rivals : PubStart(p))

\* run.sh has ended, or it waits for a publisher that waits for a subscriber
AtRest == /\ \/ ScriptEnded
             \/ script = "wait" /\ pub[Bg] = "accept" /\ queue[Bg] = <<>>
          /\ UNCHANGED vars

Next == \/ Script \/ Accidents \/ User \/ AtRest
        \/ \E p \in Pub : Publisher(p)
        \/ \E s \in Sub : Subscriber(s)

Spec == Init /\ [][Next]_vars

\* every process runs when it can; accidents and the user do as they like
Fairness == /\ WF_vars(Script)
            /\ \A p \in Pub : WF_vars(Publisher(p))
            /\ \A s \in Sub : WF_vars(Subscriber(s))

LiveSpec == Spec /\ Fairness

-----------------------------------------------------------------------------
(* Invariants.                                                              *)

TypeOK ==
  /\ script \in ScriptStep /\ resume \in {"sleep", "check", "kill", "rm", "exited"}
  /\ ctrlC \in {"never", "session", "trap"}
  /\ path \in {"absent", "stale"} \union Pub /\ robbed \subseteq Pub
  /\ pub \in [Pub -> PubStep] /\ pubRunning \in [Pub -> BOOLEAN]
  /\ queue \in [Pub -> Seq(Sub)] /\ \A p \in Pub : Len(queue[p]) <= Backlog + 1
  /\ client \in [Pub -> Sub \union {Nobody}] /\ greeted \in [Pub -> SUBSET Sub]
  /\ sub \in [Sub -> SubStep] /\ subRunning \in [Sub -> BOOLEAN]

(***************************************************************************)
(* Whoever comes while a publisher waits or serves reaches that publisher: *)
(* no step of its own, of the script that started it, of a subscriber and  *)
(* no stale file takes the name away from a listening socket.  What does   *)
(* is somebody who did not start it: another publisher's start or end.     *)
(***************************************************************************)
Reachable == \A p \in Pub : Listening(p) => path = p \/ p \in robbed

(***************************************************************************)
(* The camera's buffers go to one subscriber only: a second one queues     *)
(* behind the listening socket but is never greeted.  A subscriber that    *)
(* serves has one publisher.                                               *)
(***************************************************************************)
OneServed ==
  /\ \A p \in Pub : greeted[p] \subseteq {client[p]}
  /\ \A s \in Sub : sub[s] = "serve" =>
       \E p \in Pub : \A q \in Pub : s \in greeted[q] <=> q = p

(***************************************************************************)
(* When run.sh has ended there is no publisher, no foreground subscriber   *)
(* and no socket of theirs left, however the three were interrupted: wait  *)
(* precedes rm, or a slow publisher would bind after the clean-up.  A file *)
(* can only be a rival's, or be left without a socket because the          *)
(* publisher ended between kill -0 and kill, whose failure skips rm under  *)
(* set -e.  After Ctrl+C in the session that cannot be: the EXIT trap runs *)
(* cleanup again.                                                          *)
(***************************************************************************)
NothingLeftBehind ==
  /\ ScriptEnded => ~PubAlive(Bg) /\ ~SubAlive(Fg) /\ path # Bg
  /\ script = "exited" => path = "absent" \/ \E p \in Rivals : pub[p] # "none"
  /\ script = "failed" => ctrlC # "session"

(***************************************************************************)
(* The inductive invariant behind these: where the programs can be         *)
(* together, and what a publisher's step says of its client.               *)
(***************************************************************************)
StepsAgree ==
  /\ script = "launch" <=> pub[Bg] = "none"
  /\ script \in {"rm", "exited", "failed"} => pub[Bg] = "exited"
  /\ script = "exited" => path = "absent" \/ \E p \in Rivals : pub[p] # "none"
  /\ script \in {"launch", "sleep"} \/ resume = "sleep" => sub[Fg] = "none"
  /\ script \in {"check", "kill", "wait", "rm", "exited", "failed"} => ~SubAlive(Fg)

\* the trap of SIGINT runs for Ctrl+C, and leaves the steps before it to come
ResumeState ==
  /\ script \in {"launch", "sleep", "exited", "failed"} => resume = "exited"
  /\ resume \in {"sleep", "check"} => ctrlC = "session"
  /\ resume \in {"kill", "rm"} => ctrlC = "trap"
  /\ script = "launch" => ctrlC = "never"
  /\ script \in {"launch", "sleep", "subscriber"} => ctrlC # "trap"

\* after Ctrl+C in the session the EXIT trap finds no publisher
SessionEnd ==
  ctrlC = "session" /\ resume \notin {"sleep", "check"} =>
    pub[Bg] = "exited" /\ script \notin {"kill", "wait", "failed"}

PublisherState(p) ==
  /\ pub[p] = "listen" => path = p \/ p \in robbed
  /\ path = p => pub[p] = "listen" \/ Listening(p)
  /\ p \in robbed => pub[p] \notin {"none", "start", "camera", "unlink", "bind"}
  /\ pub[p] \in {"none", "start", "camera", "unlink", "bind", "listen", "accept", "handshake"} =>
       greeted[p] = {}
  /\ pub[p] \in {"none", "start", "camera", "unlink", "bind", "listen", "accept"} =>
       client[p] = Nobody
  /\ pub[p] \in {"handshake", "serve"} => client[p] \in Sub
  /\ pub[p] = "serve" => client[p] \in greeted[p]
  /\ greeted[p] \subseteq {client[p]}

\* a connection is to one publisher, and made once
SubscriberState(s) ==
  /\ sub[s] = "serve" => \E p \in Pub : s \in greeted[p]
  /\ sub[s] \in {"none", "connect"} => \A p \in Pub : ~Connected(s, p)
  /\ \A p, q \in Pub : Connected(s, p) /\ Connected(s, q) => p = q

IInv == /\ TypeOK /\ Reachable /\ StepsAgree /\ ResumeState /\ SessionEnd
        /\ \A p \in Pub : PublisherState(p)
        /\ \A s \in Sub : SubscriberState(s)

-----------------------------------------------------------------------------
(* Liveness.                                                                *)

Stopped == ScriptEnded /\ pub[Bg] = "exited" /\ ~SubAlive(Fg) /\ path # Bg

(***************************************************************************)
(* Ctrl+C stops both programs and the script, and no socket of theirs is   *)
(* left.                                                                   *)
(***************************************************************************)
CtrlCStopsAll == ctrlC # "never" ~> Stopped

(***************************************************************************)
(* It does once the publisher has accepted the script's subscriber,        *)
(* whatever rivals do to the file, and also if it missed the signal: its   *)
(* subscriber's end or cleanup then ends it.  If it has accepted somebody  *)
(* else the subscriber may wait behind a rival's session, in recvmsg() for *)
(* ever.                                                                   *)
(***************************************************************************)
CtrlCStopsSession == (ctrlC # "never" /\ client[Bg] = Fg) ~> Stopped

(***************************************************************************)
(* A subscriber that queues behind a busy publisher is blocked in recvmsg  *)
(* without a timeout and is never served.  It is released once the served  *)
(* subscriber is gone or the publisher is told to stop: the publisher has  *)
(* to leave its loop for that, and its end resets the queue.               *)
(***************************************************************************)
QueuedReleased == \A s \in Sub, p \in Pub :
  (/\ s \in ToSet(queue[p]) /\ client[p] # Nobody
   /\ ~pubRunning[p] \/ ~SubAlive(client[p])) ~> sub[s] = "exited"
=============================================================================
