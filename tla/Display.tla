------------------------------- MODULE Display -------------------------------
(***************************************************************************)
(* The subscriber's screen: how it sets up the Wayland window, the EGL     *)
(* context and the renderer, how its loop talks to the compositor, and how *)
(* the three are torn down from wherever the program leaves.               *)
(*                                                                         *)
(* The C++ and the Rust program make the same calls in the same order;     *)
(* they differ in what an early return releases, so both are started.      *)
(* The publisher is the source of frames and of the end of the stream.     *)
(***************************************************************************)
EXTENDS Naturals, FiniteSets

CONSTANTS Pings,      \* xdg_wm_base.ping events the compositor may send
          Configures, \* xdg_surface.configure events
          Close       \* the xdg_toplevel.close event

EventAssumption == /\ Configures # {} /\ Pings \intersect Configures = {}
                   /\ Close \notin Pings \union Configures
ASSUME EventAssumption

Requests == Pings \union Configures \* events that want a pong or an ack
Event == Requests \union {Close}

VARIABLES
  lang,    \* which program this is: "cpp" or "rust"
  step,    \* the subscriber's step
  live,    \* handles that exist
  built,   \* finished values: EglContext, QuadRenderer
  todo,    \* handles the destructors have still to release
  commit,  \* the first wl_surface.commit: none, buffered, received
  stage,   \* how far each event, and the answer to it, has come
  shown,   \* the compositor has received a frame
  conn,    \* the connection: "up" or "broken"
  err,     \* libwayland knows that it is broken
  running  \* g_running

handles == <<live, built, todo>>
wire == <<commit, stage, shown>>
link == <<conn, err>>
vars == <<lang, step, handles, wire, link, running>>

(***************************************************************************)
(* An event is sent, read into the client's queue, handled (its answer     *)
(* lies in the client's buffer), answered (the compositor has the answer). *)
(***************************************************************************)
Stage == {"none", "sent", "read", "handled", "answered"}

Proxies == {"registry", "compositor", "wm_base", "surface", "xdg_surface", "toplevel"}
EglObjects == {"egl", "context", "esurface", "current"}
GlObjects == {"vs", "fs", "program", "vbo", "texture"}
Handle == Proxies \union EglObjects \union GlObjects \union {"display", "native"}

\* a handle must not outlive these
Supports ==
  [registry |-> {"display"}, compositor |-> {"display"}, wm_base |-> {"display"},
   surface |-> {"display"}, xdg_surface |-> {"surface", "wm_base"},
   toplevel |-> {"xdg_surface"}, native |-> {"surface"}, display |-> {},
   egl |-> {"display"}, context |-> {"egl"}, esurface |-> {"egl", "native"},
   current |-> {"context", "esurface"}, vs |-> {"context"}, fs |-> {"context"},
   program |-> {"context"}, vbo |-> {"context"}, texture |-> {"context"}]

SetupStep == {"connect", "roundtrip", "surface", "configure", "native", "initialize",
              "choose", "context", "esurface", "current", "procs", "vs", "fs",
              "program", "objects"}
LoopStep == {"loop", "recv", "draw", "swap", "ack", "dispatch"}

Init ==
  /\ lang \in {"cpp", "rust"}
  /\ step = "connect" /\ live = {} /\ built = {} /\ todo = {}
  /\ commit = "none" /\ stage = [e \in Event |-> "none"] /\ shown = FALSE
  /\ conn = "up" /\ err = FALSE /\ running = TRUE

ShouldClose == stage[Close] = "handled"
Configured == \E c \in Configures : stage[c] \in {"handled", "answered"}
Sent == {e \in Event : stage[e] = "sent"}

-----------------------------------------------------------------------------
(* libwayland's buffers.                                                    *)

\* wl_display_flush(); EPIPE is left to the next read
Flushed(st) == IF conn = "up"
               THEN [e \in Event |-> IF st[e] = "handled" /\ e \in Requests
                                     THEN "answered" ELSE st[e]]
               ELSE st

\* what has arrived goes into the client's queue
Arrived(st) == [e \in Event |-> IF st[e] = "sent" THEN "read" ELSE st[e]]

\* a library's own roundtrip, or its wait for an event
FlushedAndRead == /\ stage' = Arrived(Flushed(stage))
                  /\ err' = (err \/ (conn = "broken" /\ Sent = {}))

\* a bug: no listener for ping
DispatchedPingless(st) ==
  [e \in Event |-> IF st[e] = "read" /\ e \notin Pings THEN "handled" ELSE st[e]]

\* the listeners: pong, ack_configure and configured_, should_close_
Dispatched(st) == [e \in Event |-> IF st[e] = "read" THEN "handled" ELSE st[e]]

-----------------------------------------------------------------------------
(* Leaving: whoever returns early, breaks or finds the loop's end.          *)

\* a bug: destroy() forgets one of its members
OwnedButRegistry(l) ==
  IF lang = "cpp" THEN l \ {"registry"}
  ELSE {h \in l : \/ h \in {"display", "native"}
                  \/ h \in EglObjects /\ "EglContext" \in built
                  \/ h \in GlObjects /\ "QuadRenderer" \in built}

(***************************************************************************)
(* C++ objects hold each handle from the call that made it.  A Rust value  *)
(* is dropped only if its constructor has finished; proxies go with the    *)
(* connection.                                                             *)
(***************************************************************************)
Owned(l) ==
  IF lang = "cpp" THEN l
  ELSE {h \in l : \/ h \in {"display", "native"}
                  \/ h \in EglObjects /\ "EglContext" \in built
                  \/ h \in GlObjects /\ "QuadRenderer" \in built}

Leave(l) == step' = "release" /\ live' = l /\ todo' = Owned(l)

\* a bug: the window is declared after the EGL context
RankWindowFirst ==
  [texture |-> 17, vbo |-> 16, program |-> 15, fs |-> 14, vs |-> 13, native |-> 12,
   current |-> 11, esurface |-> 10, context |-> 9, egl |-> 8,
   toplevel |-> 7, xdg_surface |-> 6, surface |-> 5, wm_base |-> 4, compositor |-> 3,
   registry |-> 2, display |-> 1]

(***************************************************************************)
(* The destructors' order: renderer, EGL, window.  The Rust window drops   *)
(* its connection before the wl_egl_window, as its fields are declared.    *)
(***************************************************************************)
Rank ==
  [texture |-> 17, vbo |-> 16, program |-> 15, fs |-> 14, vs |-> 13,
   current |-> 12, esurface |-> 11, context |-> 10, egl |-> 9,
   native |-> IF lang = "cpp" THEN 8 ELSE 0,
   toplevel |-> 7, xdg_surface |-> 6, surface |-> 5, wm_base |-> 4, compositor |-> 3,
   registry |-> 2, display |-> 1]

\* GL objects go with their context, the Rust crate's proxies with the connection
Gone(h) == {h} \union (IF h = "context" THEN GlObjects
                       ELSE IF h = "display" /\ lang = "rust" THEN Proxies ELSE {})

\* a bug: the handle is not reset after its release
ReleaseAgain ==
  \E h \in todo :
    /\ step = "release" /\ \A g \in todo : Rank[g] <= Rank[h]
    /\ live' = live \ Gone(h) /\ UNCHANGED <<todo, lang, step, built, wire, link, running>>

Release ==
  \E h \in todo :
    /\ step = "release" /\ \A g \in todo : Rank[g] <= Rank[h]
    /\ live' = live \ Gone(h) /\ todo' = todo \ {h}
    /\ UNCHANGED <<lang, step, built, wire, link, running>>

Exit ==
  /\ step = "release" /\ todo = {}
  /\ step' = "exited"
  /\ UNCHANGED <<lang, handles, wire, link, running>>

-----------------------------------------------------------------------------
(* The window.                                                              *)

Make(hs, next) == step' = next /\ live' = live \union hs /\ UNCHANGED todo

\* one call that makes a handle or fails
MakeOrLeave(from, hs, next) ==
  /\ step = from
  /\ Make(hs, next) \/ Leave(live)

Connect ==
  /\ step = "connect"
  /\ \/ conn = "up" /\ Make({"display", "registry"}, "roundtrip")
     \/ Leave({})
  /\ UNCHANGED <<lang, built, wire, link, running>>

\* what the registry's listener binds
Globals == {"compositor", "wm_base"}

(***************************************************************************)
(* A compositor without xdg-shell, or one that dies here, leaves globals   *)
(* unbound.  Only the Rust program looks at the result of the roundtrip.   *)
(***************************************************************************)
Roundtrip ==
  /\ step = "roundtrip"
  /\ err' = (conn = "broken")
  /\ \E bound \in SUBSET Globals :
       IF bound = Globals /\ (lang = "cpp" \/ ~err')
       THEN Make(bound, "surface") ELSE Leave(live \union bound)
  /\ UNCHANGED <<lang, built, wire, conn, running>>

CreateSurface ==
  /\ step = "surface"
  /\ Make({"surface", "xdg_surface", "toplevel"}, "configure")
  /\ commit' = "buffered"
  /\ UNCHANGED <<lang, built, stage, shown, link, running>>

\* wl_display_dispatch() without events: flush, then poll
ConfigureFlush ==
  /\ step = "configure" /\ conn = "up"
  /\ commit = "buffered" \/ Flushed(stage) # stage
  /\ commit' = "received" /\ stage' = Flushed(stage)
  /\ UNCHANGED <<lang, step, handles, shown, link, running>>

\* ... then read and dispatch
ConfigureRead ==
  /\ step = "configure" /\ ~Configured /\ ~err /\ Sent # {}
  /\ stage' = Dispatched(Arrived(stage))
  /\ UNCHANGED <<lang, step, handles, commit, shown, link, running>>

\* poll() restarts after a signal, and has no timeout
ConfigureFails ==
  /\ step = "configure" /\ ~Configured
  /\ err \/ (conn = "broken" /\ Sent = {})
  /\ err' = TRUE /\ Leave(live)
  /\ UNCHANGED <<lang, built, wire, conn, running>>

\* a bug: the program does not wait for the first configure
ConfigureAtOnce ==
  /\ step = "configure"
  /\ Make({}, "native")
  /\ UNCHANGED <<lang, built, wire, link, running>>

ConfigureDone ==
  /\ step = "configure" /\ Configured
  /\ Make({}, "native")
  /\ UNCHANGED <<lang, built, wire, link, running>>

CreateNative ==
  /\ MakeOrLeave("native", {"native"}, "initialize")
  /\ UNCHANGED <<lang, built, wire, link, running>>

-----------------------------------------------------------------------------
(* EGL and the renderer.                                                    *)

\* Mesa binds its own globals: a roundtrip, which reads for all queues
EglInitialize ==
  /\ MakeOrLeave("initialize", {"egl"}, "choose")
  /\ FlushedAndRead \/ UNCHANGED <<stage, err>>
  /\ UNCHANGED <<lang, built, commit, shown, conn, running>>

\* eglBindAPI and eglChooseConfig
EglChoose ==
  /\ MakeOrLeave("choose", {}, "context")
  /\ UNCHANGED <<lang, built, wire, link, running>>

EglContextCreate ==
  /\ MakeOrLeave("context", {"context"}, "esurface")
  /\ UNCHANGED <<lang, built, wire, link, running>>

EglSurfaceCreate ==
  /\ MakeOrLeave("esurface", {"esurface"}, "current")
  /\ UNCHANGED <<lang, built, wire, link, running>>

EglMakeCurrent ==
  /\ MakeOrLeave("current", {"current"}, "procs")
  /\ UNCHANGED <<lang, built, wire, link, running>>

\* all three entry points, or init fails
EglEntryPoints ==
  /\ step = "procs"
  /\ \/ Make({}, "vs") /\ built' = built \union {"EglContext"}
     \/ Leave(live) /\ UNCHANGED built
  /\ UNCHANGED <<lang, wire, link, running>>

\* C++ compiles the second shader even if the first fails
CompileVertex ==
  /\ step = "vs"
  /\ \/ Make({"vs"}, "fs")
     \/ IF lang = "cpp" THEN Make({}, "fs") ELSE Leave(live)
  /\ UNCHANGED <<lang, built, wire, link, running>>

\* ... and then deletes the other; Rust returns with the vertex shader left
CompileFragment ==
  /\ step = "fs"
  /\ \/ "vs" \in live /\ Make({"fs"}, "program")
     \/ Leave(IF lang = "cpp" THEN live \ {"vs"} ELSE live)
  /\ UNCHANGED <<lang, built, wire, link, running>>

LinkProgram ==
  /\ step = "program"
  /\ \/ /\ step' = "objects"
        /\ live' = (live \ {"vs", "fs"}) \union {"program"} /\ UNCHANGED todo
     \/ Leave(live \ {"vs", "fs"})
  /\ UNCHANGED <<lang, built, wire, link, running>>

GenObjects ==
  /\ step = "objects"
  /\ Make({"vbo", "texture"}, "loop")
  /\ built' = built \union {"QuadRenderer"}
  /\ UNCHANGED <<lang, wire, link, running>>

-----------------------------------------------------------------------------
(* The loop.                                                                *)

\* a bug: while (g_running)
LoopCheckBlind ==
  /\ step = "loop"
  /\ IF running THEN Make({}, "recv") ELSE Leave(live)
  /\ UNCHANGED <<lang, built, wire, link, running>>

LoopCheck ==
  /\ step = "loop"
  /\ IF running /\ ~ShouldClose THEN Make({}, "recv") ELSE Leave(live)
  /\ UNCHANGED <<lang, built, wire, link, running>>

\* a frame, or the end of the stream
Recv ==
  /\ MakeOrLeave("recv", {}, "draw")
  /\ UNCHANGED <<lang, built, wire, link, running>>

\* the import may fail
Draw ==
  /\ MakeOrLeave("draw", {}, "swap")
  /\ UNCHANGED <<lang, built, wire, link, running>>

\* the frame follows what was buffered before it
SwapCommit ==
  /\ step = "swap" /\ Make({}, "ack")
  /\ shown' = (shown \/ conn = "up")

Swap ==
  /\ SwapCommit /\ stage' = Flushed(stage)
  /\ UNCHANGED <<lang, built, commit, link, running>>

\* waiting for its frame callback, Mesa reads the connection for all queues
SwapReads ==
  /\ SwapCommit /\ FlushedAndRead
  /\ UNCHANGED <<lang, built, commit, conn, running>>

SendAck ==
  /\ MakeOrLeave("ack", {}, "dispatch")
  /\ UNCHANGED <<lang, built, wire, link, running>>

\* a bug: the result of wl_display_dispatch_pending() is not looked at
DispatchCarriesOn ==
  /\ step = "dispatch"
  /\ stage' = IF err THEN stage ELSE Dispatched(Flushed(stage))
  /\ IF stage'[Close] = "handled" THEN Leave(live) ELSE Make({}, "loop")
  /\ UNCHANGED <<lang, built, commit, shown, link, running>>

(***************************************************************************)
(* Flush first, then dispatch what a swap has read; nothing is dispatched  *)
(* on a connection known to be broken.  Only the C++ program leaves then:  *)
(* Rust drops the flush's error, and its crate that of the connection.     *)
(***************************************************************************)
Dispatch ==
  /\ step = "dispatch"
  /\ stage' = IF err THEN stage ELSE Dispatched(Flushed(stage))
  /\ IF (err /\ lang = "cpp") \/ stage'[Close] = "handled" THEN Leave(live) ELSE Make({}, "loop")
  /\ UNCHANGED <<lang, built, commit, shown, link, running>>

-----------------------------------------------------------------------------
(* The compositor and the user.                                             *)

CanSend(e) == \/ e \in Pings /\ "wm_base" \in live
              \/ e \notin Pings /\ commit = "received"

CompositorSends(e) ==
  /\ conn = "up" /\ "display" \in live /\ stage[e] = "none" /\ CanSend(e)
  /\ stage' = [stage EXCEPT ![e] = "sent"]
  /\ UNCHANGED <<lang, step, handles, commit, shown, link, running>>

CompositorDies ==
  /\ conn = "up" /\ conn' = "broken"
  /\ UNCHANGED <<lang, step, handles, wire, err, running>>

Interrupt ==
  /\ running /\ running' = FALSE
  /\ UNCHANGED <<lang, step, handles, wire, link>>

-----------------------------------------------------------------------------
SetUp == \/ Connect \/ Roundtrip \/ CreateSurface
         \/ ConfigureFlush \/ ConfigureRead \/ ConfigureFails \/ ConfigureDone
         \/ CreateNative \/ EglInitialize \/ EglChoose \/ EglContextCreate
         \/ EglSurfaceCreate \/ EglMakeCurrent \/ EglEntryPoints
         \/ CompileVertex \/ CompileFragment \/ LinkProgram \/ GenObjects
Loop == LoopCheck \/ Recv \/ Draw \/ Swap \/ SwapReads \/ SendAck \/ Dispatch
TearDown == Release \/ Exit
Subscriber == SetUp \/ Loop \/ TearDown

AtRest == step = "exited" /\ UNCHANGED vars

Next == \/ Subscriber \/ (\E e \in Event : CompositorSends(e))
        \/ CompositorDies \/ Interrupt \/ AtRest

Spec == Init /\ [][Next]_vars

(***************************************************************************)
(* The program runs; frames come or the stream ends (Session.tla); swaps   *)
(* wait for a frame callback, and so read, again and again.  The           *)
(* compositor need not do anything, nor answer the first commit.           *)
(***************************************************************************)
Fairness == WF_vars(Subscriber) /\ SF_vars(SwapReads)

LiveSpec == Spec /\ Fairness

-----------------------------------------------------------------------------
(* Invariants.                                                              *)

TypeOK ==
  /\ lang \in {"cpp", "rust"}
  /\ step \in SetupStep \union LoopStep \union {"release", "exited"}
  /\ live \subseteq Handle /\ todo \subseteq live
  /\ built \subseteq {"EglContext", "QuadRenderer"}
  /\ commit \in {"none", "buffered", "received"} /\ stage \in [Event -> Stage]
  /\ shown \in BOOLEAN /\ conn \in {"up", "broken"} /\ err \in BOOLEAN
  /\ running \in BOOLEAN

(***************************************************************************)
(* Xdg-shell kills a client that attaches a buffer before it has acked a   *)
(* configure: no frame reaches the compositor before an ack has.           *)
(***************************************************************************)
ConfiguredBeforeFrame == shown => \E c \in Configures : stage[c] = "answered"

\* what the Rust program leaves behind if EglContext::init returns an error
Abandoned(h) == lang = "rust" /\ h \in EglObjects /\ "EglContext" \notin built

(***************************************************************************)
(* Wherever the program leaves, nothing is released before what is built   *)
(* on it, and GL objects are deleted while their context is current.  Two  *)
(* things the Rust program does instead: its wl_egl_window outlives the    *)
(* connection, and EGL objects outlive it if EglContext::init has failed.  *)
(***************************************************************************)
ReleasedInOrder ==
  /\ \A h \in live :
       \/ Supports[h] \subseteq live
       \/ step \in {"release", "exited"} /\ lang = "rust"
            /\ (h = "native" \/ Abandoned(h))
  /\ todo \intersect GlObjects # {} => "current" \in live

(***************************************************************************)
(* Every failing call, break and signal ends with everything released; the *)
(* one exception is an EglContext::init that fails in the Rust program.    *)
(***************************************************************************)
AllReleased == step = "exited" => \A h \in live : Abandoned(h)

(***************************************************************************)
(* The inductive invariant behind these: what stands at each step, when a  *)
(* configure has been seen, and what the destructors still hold.           *)
(***************************************************************************)
Leaving == step \in {"release", "exited"}
BeforeWindow == {"connect", "roundtrip", "surface", "configure", "native"}
EglInitStep == {"initialize", "choose", "context", "esurface", "current", "procs"}

Standing ==
  /\ step \notin {"connect"} /\ ~Leaving => "display" \in live
  /\ step \notin {"connect", "roundtrip"} /\ ~Leaving => "wm_base" \in live
  /\ step \notin {"connect", "roundtrip", "surface"} /\ ~Leaving => "surface" \in live
  /\ step \notin BeforeWindow /\ ~Leaving => "native" \in live
  /\ step \notin BeforeWindow \union {"initialize"} /\ ~Leaving => "egl" \in live
  /\ step \in {"esurface", "current"} => "context" \in live
  /\ step = "current" => "esurface" \in live
  /\ step = "procs" => {"context", "current"} \subseteq live
  /\ "EglContext" \in built /\ ~Leaving => {"context", "current"} \subseteq live
  /\ step \in LoopStep \union {"vs", "fs", "program", "objects"} => "EglContext" \in built
  /\ step \in BeforeWindow \union EglInitStep => "EglContext" \notin built
  /\ "EglContext" \notin built => live \intersect GlObjects = {}

SeenConfigure ==
  step \notin {"connect", "roundtrip", "surface", "configure"} /\ ~Leaving => Configured

Held ==
  /\ ~Leaving => todo = {}
  /\ step = "exited" => todo = {}
  /\ Leaving /\ lang = "cpp" => todo = live
  /\ Leaving /\ lang = "rust" => todo \intersect Proxies = {}
  /\ Leaving => live \intersect {"display", "native"} \subseteq todo
  /\ Leaving /\ "EglContext" \in built => live \intersect EglObjects \subseteq todo

IInv == /\ TypeOK /\ ConfiguredBeforeFrame /\ ReleasedInOrder
        /\ Standing /\ SeenConfigure /\ Held

-----------------------------------------------------------------------------
(* Liveness.                                                                *)

(***************************************************************************)
(* As long as frames come the compositor, unless it dies, gets its pong,   *)
(* although pongs leave only with the swap after the dispatch that wrote   *)
(* them.                                                                   *)
(***************************************************************************)
PingAnswered == \A p \in Pings :
  stage[p] = "sent" ~> (stage[p] = "answered" \/ step = "exited" \/ conn = "broken")

(***************************************************************************)
(* A signal ends the program, in the middle of the set-up too, and so do   *)
(* the window's close and the compositor's death.  Two exceptions: the     *)
(* wait for the first configure has no end of its own, and the Rust loop   *)
(* does not see that the compositor is dead, nor a close still unread.     *)
(***************************************************************************)
NeverConfigured == [](step = "configure" /\ conn = "up" /\ ~Configured)

EndsWhenAsked ==
  /\ ~running ~> (step = "exited" \/ NeverConfigured)
  /\ (stage[Close] = "sent" \/ conn = "broken") ~>
       (step = "exited" \/ NeverConfigured \/ (lang = "rust" /\ conn = "broken"))

(***************************************************************************)
(* wayland.rs says that dispatch_pending returns false if a fatal error    *)
(* occurred: then a dead compositor ends either program.                   *)
(***************************************************************************)
DeadCompositorEnds == conn = "broken" ~> step = "exited"

-----------------------------------------------------------------------------
(* The window, as the loop of Session.tla sees it.                          *)

Win == INSTANCE Window
  WITH step <- CASE step \in SetupStep -> "setup"
                 [] step \in {"release", "exited"} -> "gone"
                 [] OTHER -> step,
       closing <- CASE stage[Close] = "none" -> "none"
                    [] stage[Close] = "sent" -> "wire"
                    [] stage[Close] = "read" -> "queued"
                    [] OTHER -> "seen",
       deaf <- err

(***************************************************************************)
(* The close event is read in the set-up or in a swap and handled in the   *)
(* wait for the first configure or after an ack, and no check that follows *)
(* lets the loop go on.                                                    *)
(***************************************************************************)
ProvidesWindow == Win!Spec
=============================================================================
