---------------------------- MODULE DisplayProofs ----------------------------
(***************************************************************************)
(* What Display.tla keeps for any set of events.                           *)
(*                                                                         *)
(* IInv is inductive.  Standing in it says what exists at each step of the *)
(* set-up; Held says what the destructors still have to release once the   *)
(* program leaves: for C++ whatever is live, for Rust the connection, the  *)
(* native window and the parts of values that were finished.  With the     *)
(* ranks of the destructors these give the order of the releases.          *)
(*                                                                         *)
(* The last two parts are about the close event, as the frame loop sees    *)
(* it, and about the way out once the program has to end.                  *)
(***************************************************************************)
EXTENDS Display, TLAPS

USE EventAssumption DEF EventAssumption, Event, Requests

-----------------------------------------------------------------------------
(* The tables, read out.                                                    *)

LEMMA SupportsTable ==
  /\ Supports["display"] = {} /\ Supports["registry"] = {"display"}
  /\ Supports["compositor"] = {"display"} /\ Supports["wm_base"] = {"display"}
  /\ Supports["surface"] = {"display"} /\ Supports["xdg_surface"] = {"surface", "wm_base"}
  /\ Supports["toplevel"] = {"xdg_surface"} /\ Supports["native"] = {"surface"}
  /\ Supports["egl"] = {"display"} /\ Supports["context"] = {"egl"}
  /\ Supports["esurface"] = {"egl", "native"}
  /\ Supports["current"] = {"context", "esurface"}
  /\ \A h \in GlObjects : Supports[h] = {"context"}
BY DEF Supports, GlObjects

LEMMA RankTable ==
  /\ Rank["texture"] = 17 /\ Rank["vbo"] = 16 /\ Rank["program"] = 15
  /\ Rank["fs"] = 14 /\ Rank["vs"] = 13 /\ Rank["current"] = 12
  /\ Rank["esurface"] = 11 /\ Rank["context"] = 10 /\ Rank["egl"] = 9
  /\ Rank["native"] = IF lang = "cpp" THEN 8 ELSE 0
  /\ Rank["toplevel"] = 7 /\ Rank["xdg_surface"] = 6 /\ Rank["surface"] = 5
  /\ Rank["wm_base"] = 4 /\ Rank["compositor"] = 3 /\ Rank["registry"] = 2
  /\ Rank["display"] = 1
BY DEF Rank

-----------------------------------------------------------------------------
(* Going on and leaving.                                                    *)

LEMMA MakeKeeps ==
  ASSUME IInv, ~Leaving, NEW hs \in SUBSET Handle, NEW next,
         next \notin {"release", "exited"}, Make(hs, next),
         \A h \in hs : Supports[h] \subseteq live \union hs
  PROVE  live' \subseteq Handle /\ todo' \subseteq live' /\ ReleasedInOrder' /\ Held'
<1> USE DEF IInv, TypeOK, Leaving, Make
<1>1. todo' = {} BY DEF Held
<1>2. ASSUME NEW h \in live' PROVE Supports[h] \subseteq live'
  BY DEF ReleasedInOrder
<1>3. ReleasedInOrder' BY <1>1, <1>2 DEF ReleasedInOrder
<1> QED BY <1>1, <1>3 DEF Held

\* whoever leaves keeps what is built on something together with it
LEMMA LeaveKeeps ==
  ASSUME IInv, ~Leaving, NEW l \in SUBSET Handle, Leave(l), UNCHANGED <<lang, built>>,
         \A h \in l : Supports[h] \subseteq l,
         l \intersect EglObjects = live \intersect EglObjects,
         l \intersect GlObjects # {} => "EglContext" \in built
  PROVE  /\ live' \subseteq Handle /\ todo' \subseteq live' /\ step' = "release"
         /\ ReleasedInOrder' /\ Standing' /\ SeenConfigure' /\ Held'
<1> USE DEF IInv, TypeOK, Leaving, Leave
<1>1. todo' \subseteq l /\ live' = l BY DEF Owned
<1>2. todo' \intersect GlObjects # {} => "current" \in live'
  <2> SUFFICES ASSUME todo' \intersect GlObjects # {} PROVE "current" \in live' OBVIOUS
  <2>1. "EglContext" \in built BY <1>1
  <2>2. "current" \in live BY <2>1 DEF Standing
  <2> QED BY <2>2, <1>1 DEF EglObjects
<1>3. ReleasedInOrder' BY <1>1, <1>2 DEF ReleasedInOrder
<1>4. Standing'
  BY <1>1 DEF Standing, LoopStep, BeforeWindow, EglInitStep
<1>5. Held' BY <1>1 DEF Held, Owned, EglObjects, GlObjects, Proxies
<1> QED BY <1>1, <1>3, <1>4, <1>5 DEF SeenConfigure

\* the plain case: nothing is released on the way out
LEMMA LeaveLive ==
  ASSUME IInv, ~Leaving, Leave(live), UNCHANGED <<lang, built>>
  PROVE  /\ live' \subseteq Handle /\ todo' \subseteq live' /\ step' = "release"
         /\ ReleasedInOrder' /\ Standing' /\ SeenConfigure' /\ Held'
<1>1. \A h \in live : Supports[h] \subseteq live
  BY DEF IInv, ReleasedInOrder, Leaving
<1>2. live \intersect GlObjects # {} => "EglContext" \in built
  BY DEF IInv, Standing
<1> QED BY <1>1, <1>2, LeaveKeeps DEF IInv, TypeOK

-----------------------------------------------------------------------------
(* What a flush, an arrival and a dispatch do to the events.                *)

LEMMA StageMoves ==
  ASSUME TypeOK, NEW st \in [Event -> Stage]
  PROVE  /\ Flushed(st) \in [Event -> Stage] /\ Arrived(st) \in [Event -> Stage]
         /\ Dispatched(st) \in [Event -> Stage]
         /\ \A e \in Event : st[e] \in {"handled", "answered"} =>
              /\ Flushed(st)[e] \in {"handled", "answered"}
              /\ Arrived(st)[e] = st[e] /\ Dispatched(st)[e] = st[e]
         /\ \A e \in Event : st[e] = "answered" => Flushed(st)[e] = "answered"
BY DEF TypeOK, Flushed, Arrived, Dispatched, Stage

\* what has been handled or answered stays so
Kept == \A e \in Event :
  /\ stage[e] \in {"handled", "answered"} => stage'[e] \in {"handled", "answered"}
  /\ stage[e] = "answered" => stage'[e] = "answered"

LEMMA KeptConfigured ==
  ASSUME Kept
  PROVE  /\ Configured => Configured'
         /\ ConfiguredBeforeFrame /\ UNCHANGED shown => ConfiguredBeforeFrame'
BY DEF Kept, Configured, ConfiguredBeforeFrame

-----------------------------------------------------------------------------
LEMMA InitIInv == Init => IInv
<1> SUFFICES ASSUME Init PROVE IInv OBVIOUS
<1> USE DEF Init
<1>1. TypeOK BY DEF TypeOK, SetupStep, Stage
<1>2. ConfiguredBeforeFrame /\ ReleasedInOrder
  BY DEF ConfiguredBeforeFrame, ReleasedInOrder
<1>3. Standing
  BY DEF Standing, LoopStep, BeforeWindow, EglInitStep, Leaving
<1>4. SeenConfigure /\ Held BY DEF SeenConfigure, Held, Leaving
<1> QED BY <1>1, <1>2, <1>3, <1>4 DEF IInv

\* a step without effect on the events and the connection
LEMMA QuietStep ==
  ASSUME IInv, UNCHANGED <<lang, wire, link, running>>,
         step' \in SetupStep \union LoopStep \union {"release", "exited"},
         live' \subseteq Handle, todo' \subseteq live',
         built' \subseteq {"EglContext", "QuadRenderer"},
         ReleasedInOrder', Held', Standing', SeenConfigure'
  PROVE  IInv'
<1>1. TypeOK' BY DEF IInv, TypeOK, wire, link
<1>2. ConfiguredBeforeFrame' BY DEF IInv, ConfiguredBeforeFrame, wire
<1> QED BY <1>1, <1>2 DEF IInv

LEMMA LeaveStep ==
  ASSUME IInv, ~Leaving, Leave(live), UNCHANGED <<lang, built, wire, link, running>>
  PROVE  IInv'
<1>1. built' \subseteq {"EglContext", "QuadRenderer"} BY DEF IInv, TypeOK
<1> QED BY LeaveLive, QuietStep, <1>1

-----------------------------------------------------------------------------
(* Calls that make one thing or fail.                                       *)

LEMMA MakeOrLeaveKeeps ==
  ASSUME IInv, NEW from, NEW hs \in SUBSET Handle, NEW next,
         from \in SetupStep \union LoopStep, next \in SetupStep \union LoopStep,
         MakeOrLeave(from, hs, next),
         UNCHANGED <<lang, built, wire, link, running>>,
         \A h \in hs : Supports[h] \subseteq live \union hs,
         Make(hs, next) => Standing' /\ SeenConfigure'
  PROVE  IInv'
<1>1. ~Leaving /\ next \notin {"release", "exited"}
  BY DEF MakeOrLeave, Leaving, SetupStep, LoopStep
<1>2. CASE Make(hs, next)
  <2>1. live' \subseteq Handle /\ todo' \subseteq live' /\ ReleasedInOrder' /\ Held'
    BY <1>1, <1>2, MakeKeeps
  <2>2. step' = next BY <1>2 DEF Make
  <2>3. built' \subseteq {"EglContext", "QuadRenderer"} BY DEF IInv, TypeOK
  <2> QED BY <1>2, <2>1, <2>2, <2>3, QuietStep
<1>3. CASE Leave(live) BY <1>1, <1>3, LeaveStep
<1> QED BY <1>2, <1>3 DEF MakeOrLeave

LEMMA CallsKeepIInv ==
  ASSUME IInv,
         \/ CreateNative \/ EglChoose \/ EglContextCreate
         \/ EglSurfaceCreate \/ EglMakeCurrent \/ Recv \/ Draw \/ SendAck
  PROVE  IInv'
<1> USE SupportsTable DEF SetupStep, LoopStep, Handle, EglObjects, Make, MakeOrLeave,
        Standing, Leaving, BeforeWindow, EglInitStep, SeenConfigure, Configured, wire
<1>1. CASE CreateNative
  <2>1. MakeOrLeave("native", {"native"}, "initialize") /\ UNCHANGED <<lang, built, wire, link, running>>
    BY <1>1 DEF CreateNative
  <2>2. \A h \in {"native"} : Supports[h] \subseteq live \union {"native"} BY <2>1 DEF IInv
  <2>3. Make({"native"}, "initialize") => Standing' /\ SeenConfigure' BY <2>1 DEF IInv
  <2> HIDE DEF MakeOrLeave, Make, Standing, SeenConfigure
  <2> QED BY <2>1, <2>2, <2>3, MakeOrLeaveKeeps
<1>2. CASE EglChoose
  <2>1. MakeOrLeave("choose", {}, "context") /\ UNCHANGED <<lang, built, wire, link, running>>
    BY <1>2 DEF EglChoose
  <2>2. \A h \in {} : Supports[h] \subseteq live \union {} BY <2>1 DEF IInv
  <2>3. Make({}, "context") => Standing' /\ SeenConfigure' BY <2>1 DEF IInv
  <2> HIDE DEF MakeOrLeave, Make, Standing, SeenConfigure
  <2> QED BY <2>1, <2>2, <2>3, MakeOrLeaveKeeps
<1>3. CASE EglContextCreate
  <2>1. MakeOrLeave("context", {"context"}, "esurface") /\ UNCHANGED <<lang, built, wire, link, running>>
    BY <1>3 DEF EglContextCreate
  <2>2. \A h \in {"context"} : Supports[h] \subseteq live \union {"context"} BY <2>1 DEF IInv
  <2>3. Make({"context"}, "esurface") => Standing' /\ SeenConfigure' BY <2>1 DEF IInv
  <2> HIDE DEF MakeOrLeave, Make, Standing, SeenConfigure
  <2> QED BY <2>1, <2>2, <2>3, MakeOrLeaveKeeps
<1>4. CASE EglSurfaceCreate
  <2>1. MakeOrLeave("esurface", {"esurface"}, "current") /\ UNCHANGED <<lang, built, wire, link, running>>
    BY <1>4 DEF EglSurfaceCreate
  <2>2. \A h \in {"esurface"} : Supports[h] \subseteq live \union {"esurface"} BY <2>1 DEF IInv
  <2>3. Make({"esurface"}, "current") => Standing' /\ SeenConfigure' BY <2>1 DEF IInv
  <2> HIDE DEF MakeOrLeave, Make, Standing, SeenConfigure
  <2> QED BY <2>1, <2>2, <2>3, MakeOrLeaveKeeps
<1>5. CASE EglMakeCurrent
  <2>1. MakeOrLeave("current", {"current"}, "procs") /\ UNCHANGED <<lang, built, wire, link, running>>
    BY <1>5 DEF EglMakeCurrent
  <2>2. \A h \in {"current"} : Supports[h] \subseteq live \union {"current"} BY <2>1 DEF IInv
  <2>3. Make({"current"}, "procs") => Standing' /\ SeenConfigure' BY <2>1 DEF IInv
  <2> HIDE DEF MakeOrLeave, Make, Standing, SeenConfigure
  <2> QED BY <2>1, <2>2, <2>3, MakeOrLeaveKeeps
<1>6. CASE Recv
  <2>1. MakeOrLeave("recv", {}, "draw") /\ UNCHANGED <<lang, built, wire, link, running>>
    BY <1>6 DEF Recv
  <2>2. \A h \in {} : Supports[h] \subseteq live \union {} BY <2>1 DEF IInv
  <2>3. Make({}, "draw") => Standing' /\ SeenConfigure' BY <2>1 DEF IInv
  <2> HIDE DEF MakeOrLeave, Make, Standing, SeenConfigure
  <2> QED BY <2>1, <2>2, <2>3, MakeOrLeaveKeeps
<1>7. CASE Draw
  <2>1. MakeOrLeave("draw", {}, "swap") /\ UNCHANGED <<lang, built, wire, link, running>>
    BY <1>7 DEF Draw
  <2>2. \A h \in {} : Supports[h] \subseteq live \union {} BY <2>1 DEF IInv
  <2>3. Make({}, "swap") => Standing' /\ SeenConfigure' BY <2>1 DEF IInv
  <2> HIDE DEF MakeOrLeave, Make, Standing, SeenConfigure
  <2> QED BY <2>1, <2>2, <2>3, MakeOrLeaveKeeps
<1>8. CASE SendAck
  <2>1. MakeOrLeave("ack", {}, "dispatch") /\ UNCHANGED <<lang, built, wire, link, running>>
    BY <1>8 DEF SendAck
  <2>2. \A h \in {} : Supports[h] \subseteq live \union {} BY <2>1 DEF IInv
  <2>3. Make({}, "dispatch") => Standing' /\ SeenConfigure' BY <2>1 DEF IInv
  <2> HIDE DEF MakeOrLeave, Make, Standing, SeenConfigure
  <2> QED BY <2>1, <2>2, <2>3, MakeOrLeaveKeeps
<1> QED BY <1>1, <1>2, <1>3, <1>4, <1>5, <1>6, <1>7, <1>8

\* this one may read, too
LEMMA EglInitializeKeepsIInv == ASSUME IInv, EglInitialize PROVE IInv'
<1> USE DEF EglInitialize
<1>0. TypeOK /\ stage \in [Event -> Stage] BY DEF IInv, TypeOK
<1>1. ~Leaving /\ Configured
  BY DEF MakeOrLeave, Leaving, IInv, SeenConfigure
<1>2. stage' \in [Event -> Stage] /\ Kept /\ err' \in BOOLEAN
  <2>1. CASE FlushedAndRead
    <3>1. Flushed(stage) \in [Event -> Stage] BY <1>0, StageMoves
    <3>2. stage' = Arrived(Flushed(stage)) /\ err' \in BOOLEAN
      BY <1>0, <2>1 DEF FlushedAndRead, TypeOK
    <3> QED BY <1>0, <3>1, <3>2, StageMoves DEF Kept
  <2>2. CASE UNCHANGED <<stage, err>> BY <1>0, <2>2 DEF Kept, TypeOK
  <2> QED BY <2>1, <2>2
<1>3. ConfiguredBeforeFrame' /\ Configured'
  BY <1>1, <1>2, KeptConfigured DEF IInv
<1>4. CASE Make({"egl"}, "choose")
  <2>1. \A h \in {"egl"} : Supports[h] \subseteq live \union {"egl"}
    BY SupportsTable DEF MakeOrLeave, IInv, Standing, Leaving
  <2>2. live' \subseteq Handle /\ todo' \subseteq live' /\ ReleasedInOrder' /\ Held'
    BY <1>1, <1>4, <2>1, MakeKeeps DEF Handle, EglObjects
  <2>3. Standing' /\ SeenConfigure'
    BY <1>3, <1>4 DEF MakeOrLeave, Make, IInv, Standing, SeenConfigure, Leaving, BeforeWindow,
                      EglInitStep, LoopStep, GlObjects
  <2>4. TypeOK' BY <1>0, <1>2, <1>4, <2>2 DEF TypeOK, Make, SetupStep
  <2> QED BY <1>3, <2>2, <2>3, <2>4 DEF IInv
<1>5. CASE Leave(live)
  <2>1. /\ live' \subseteq Handle /\ todo' \subseteq live' /\ step' = "release"
        /\ ReleasedInOrder' /\ Standing' /\ SeenConfigure' /\ Held'
    BY <1>1, <1>5, LeaveLive
  <2>2. TypeOK' BY <1>0, <1>2, <2>1 DEF TypeOK
  <2> QED BY <1>3, <2>1, <2>2 DEF IInv
<1> QED BY <1>4, <1>5 DEF MakeOrLeave

-----------------------------------------------------------------------------
(* The window's set-up.                                                     *)

LEMMA WindowKeepsIInv ==
  ASSUME IInv,
         \/ Connect \/ Roundtrip \/ CreateSurface
         \/ ConfigureFlush \/ ConfigureRead \/ ConfigureFails \/ ConfigureDone
  PROVE  IInv'
<1> DEFINE Frame == live' \subseteq Handle /\ todo' \subseteq live' /\ ReleasedInOrder' /\ Held'
<1> USE SupportsTable
<1>0. TypeOK /\ built \subseteq {"EglContext", "QuadRenderer"} BY DEF IInv, TypeOK
<1>1. CASE Connect
  <2>1. ~Leaving BY <1>1 DEF Connect, Leaving
  <2>2. CASE Make({"display", "registry"}, "roundtrip")
    <3> DEFINE hs == {"display", "registry"}
    <3>0. hs \in SUBSET Handle /\ \A h \in hs : Supports[h] \subseteq live \union hs
      BY DEF Handle, Proxies
    <3> HIDE DEF hs
    <3>1. Frame BY <2>1, <2>2, <3>0, MakeKeeps DEF hs
    <3>2. Standing' /\ SeenConfigure'
      BY <1>1, <2>2 DEF Connect, Make, IInv, Standing, SeenConfigure, Leaving, BeforeWindow,
                        EglInitStep, LoopStep, GlObjects
    <3> QED BY <1>0, <1>1, <2>2, <3>1, <3>2, QuietStep DEF Connect, Make, SetupStep
  <2>3. CASE Leave({})
    <3>1. "EglContext" \notin built
      BY <1>1 DEF Connect, IInv, Standing, BeforeWindow
    <3>2. Standing' /\ SeenConfigure' /\ Held' /\ ReleasedInOrder' /\ todo' = {}
      BY <1>1, <2>3, <3>1 DEF Connect, Leave, Owned, Standing, SeenConfigure, Held,
         ReleasedInOrder, Leaving, BeforeWindow, EglInitStep, LoopStep
    <3> QED BY <1>0, <1>1, <2>3, <3>2, QuietStep DEF Connect, Leave
  <2> QED BY <1>1, <2>2, <2>3 DEF Connect
<1>2. CASE Roundtrip
  <2>1. ~Leaving /\ "display" \in live /\ "EglContext" \notin built
    BY <1>2 DEF Roundtrip, Leaving, IInv, Standing, BeforeWindow
  <2>2. PICK bound \in SUBSET {"compositor", "wm_base"} :
          \/ bound = {"compositor", "wm_base"} /\ Make(bound, "surface")
          \/ Leave(live \union bound)
    BY <1>2 DEF Roundtrip, Globals
  <2>3. CASE bound = {"compositor", "wm_base"} /\ Make(bound, "surface")
    <3>0. bound \in SUBSET Handle /\ \A h \in bound : Supports[h] \subseteq live \union bound
      BY <2>1 DEF Handle, Proxies
    <3>1. Frame BY <2>1, <2>3, <3>0, MakeKeeps
    <3>2. Standing' /\ SeenConfigure'
      BY <1>2, <2>1, <2>3 DEF Roundtrip, Make, IInv, Standing, SeenConfigure, Leaving,
                        BeforeWindow, EglInitStep, LoopStep, GlObjects
    <3>3. TypeOK' BY <1>0, <1>2, <2>3, <3>1 DEF Roundtrip, Make, TypeOK, SetupStep, wire
    <3>4. ConfiguredBeforeFrame'
      BY <1>2 DEF Roundtrip, IInv, ConfiguredBeforeFrame, wire
    <3> QED BY <3>1, <3>2, <3>3, <3>4 DEF IInv
  <2>4. CASE Leave(live \union bound)
    <3> DEFINE l == live \union bound
    <3>1. l \in SUBSET Handle BY <1>0 DEF TypeOK, Handle, Proxies
    <3>2. \A h \in l : Supports[h] \subseteq l
      BY <2>1 DEF IInv, ReleasedInOrder, Leaving
    <3>3. l \intersect EglObjects = live \intersect EglObjects BY DEF EglObjects
    <3>4. l \intersect GlObjects = {} BY <2>1 DEF IInv, Standing, GlObjects
    <3>5. UNCHANGED <<lang, built>> BY <1>2 DEF Roundtrip
    <3> HIDE DEF l
    <3>6. /\ Frame /\ Standing' /\ SeenConfigure' /\ step' = "release"
      BY <2>1, <2>4, <3>1, <3>2, <3>3, <3>4, <3>5, LeaveKeeps DEF l
    <3>7. TypeOK' BY <1>0, <1>2, <3>6 DEF Roundtrip, TypeOK, wire
    <3>8. ConfiguredBeforeFrame'
      BY <1>2 DEF Roundtrip, IInv, ConfiguredBeforeFrame, wire
    <3> QED BY <3>6, <3>7, <3>8 DEF IInv
  <2> QED BY <2>2, <2>3, <2>4
<1>3. CASE CreateSurface
  <2>1. ~Leaving /\ {"display", "wm_base"} \subseteq live
    BY <1>3 DEF CreateSurface, Leaving, IInv, Standing
  <2> DEFINE hs == {"surface", "xdg_surface", "toplevel"}
  <2>0. hs \in SUBSET Handle /\ \A h \in hs : Supports[h] \subseteq live \union hs
    BY <2>1 DEF Handle, Proxies
  <2>2. Frame
    <3> Make(hs, "configure") BY <1>3 DEF CreateSurface
    <3> HIDE DEF hs
    <3> QED BY <2>0, <2>1, MakeKeeps
  <2>3. Standing' /\ SeenConfigure'
    BY <1>3, <2>1 DEF CreateSurface, Make, IInv, Standing, SeenConfigure, Leaving,
                      BeforeWindow, EglInitStep, LoopStep, GlObjects
  <2>4. TypeOK' BY <1>0, <1>3, <2>2 DEF CreateSurface, Make, TypeOK, SetupStep, link
  <2>5. ConfiguredBeforeFrame' BY <1>3 DEF CreateSurface, IInv, ConfiguredBeforeFrame
  <2> QED BY <2>2, <2>3, <2>4, <2>5 DEF IInv
<1>4. CASE ConfigureFlush \/ ConfigureRead
  <2>1. stage' \in [Event -> Stage] /\ Kept
    <3>1. stage \in [Event -> Stage] BY <1>0 DEF TypeOK
    <3>2. CASE ConfigureFlush BY <1>0, <3>1, <3>2, StageMoves DEF ConfigureFlush, Kept
    <3>3. CASE ConfigureRead
      <4>1. Arrived(stage) \in [Event -> Stage] BY <1>0, <3>1, StageMoves
      <4> QED BY <1>0, <3>1, <3>3, <4>1, StageMoves DEF ConfigureRead, Kept
    <3> QED BY <1>4, <3>2, <3>3
  <2>2. /\ UNCHANGED <<lang, step, handles, shown, link, running>>
        /\ commit' \in {"none", "buffered", "received"} /\ step = "configure"
    BY <1>0, <1>4 DEF ConfigureFlush, ConfigureRead, TypeOK
  <2>3. TypeOK' BY <1>0, <2>1, <2>2 DEF TypeOK, handles, link
  <2>4. ConfiguredBeforeFrame' BY <2>1, <2>2, KeptConfigured DEF IInv
  <2>5. ReleasedInOrder' /\ Held' /\ Standing' /\ SeenConfigure'
    BY <2>2 DEF IInv, ReleasedInOrder, Abandoned, Held, Standing, SeenConfigure, Leaving, handles
  <2> QED BY <2>3, <2>4, <2>5 DEF IInv
<1>5. CASE ConfigureFails
  <2>1. ~Leaving BY <1>5 DEF ConfigureFails, Leaving
  <2>2. Frame /\ Standing' /\ SeenConfigure' /\ step' = "release"
    BY <1>5, <2>1, LeaveLive DEF ConfigureFails
  <2>3. TypeOK' BY <1>0, <1>5, <2>2 DEF ConfigureFails, TypeOK, wire
  <2>4. ConfiguredBeforeFrame' BY <1>5 DEF ConfigureFails, IInv, ConfiguredBeforeFrame, wire
  <2> QED BY <2>2, <2>3, <2>4 DEF IInv
<1>6. CASE ConfigureDone
  <2>1. ~Leaving BY <1>6 DEF ConfigureDone, Leaving
  <2>2. Frame BY <1>6, <2>1, MakeKeeps DEF ConfigureDone
  <2>3. Standing' /\ SeenConfigure'
    BY <1>6 DEF ConfigureDone, Make, IInv, Standing, SeenConfigure, Configured, Leaving,
                BeforeWindow, EglInitStep, LoopStep, GlObjects, wire
  <2> QED BY <1>0, <1>6, <2>2, <2>3, QuietStep DEF ConfigureDone, Make, SetupStep
<1> QED BY <1>1, <1>2, <1>3, <1>4, <1>5, <1>6

-----------------------------------------------------------------------------
(* Entry points, shaders, program, buffers.                                 *)

LEMMA RendererKeepsIInv ==
  ASSUME IInv, EglEntryPoints \/ CompileVertex \/ CompileFragment \/ LinkProgram \/ GenObjects
  PROVE  IInv'
<1> DEFINE Frame == live' \subseteq Handle /\ todo' \subseteq live' /\ ReleasedInOrder' /\ Held'
<1> USE SupportsTable
<1>0. TypeOK /\ built \subseteq {"EglContext", "QuadRenderer"} BY DEF IInv, TypeOK
<1>a. ~Leaving
  BY DEF EglEntryPoints, CompileVertex, CompileFragment, LinkProgram, GenObjects, Leaving
<1>b. step # "procs" => "EglContext" \in built
  BY DEF EglEntryPoints, CompileVertex, CompileFragment, LinkProgram, GenObjects, IInv, Standing
<1>c. {"context", "current"} \subseteq live
  BY <1>a, <1>b DEF IInv, Standing
<1>d. \A h \in live : Supports[h] \subseteq live BY <1>a DEF IInv, ReleasedInOrder, Leaving
<1>1. CASE EglEntryPoints
  <2>1. CASE Make({}, "vs") /\ built' = built \union {"EglContext"}
    <3>1. Frame BY <1>a, <2>1, MakeKeeps
    <3>2. Standing' /\ SeenConfigure'
      BY <1>1, <1>c, <2>1 DEF EglEntryPoints, Make, IInv, Standing, SeenConfigure, Configured,
           Leaving, BeforeWindow, EglInitStep, LoopStep, GlObjects, wire
    <3> QED BY <1>0, <1>1, <2>1, <3>1, <3>2, QuietStep DEF EglEntryPoints, Make, SetupStep
  <2>2. CASE Leave(live) /\ UNCHANGED built BY <1>1, <1>a, <2>2, LeaveStep DEF EglEntryPoints
  <2> QED BY <1>1, <2>1, <2>2 DEF EglEntryPoints
<1>2. CASE CompileVertex
  <2>1. ASSUME NEW hs \in SUBSET {"vs"}, Make(hs, "fs") PROVE IInv'
    <3>1. \A h \in hs : h \in GlObjects /\ h \in Handle BY DEF GlObjects, Handle
    <3>2. Frame
      <4>1. \A h \in hs : Supports[h] = {"context"} BY <3>1
      <4>2. \A h \in hs : Supports[h] \subseteq live \union hs BY <1>c, <4>1
      <4> QED BY <1>a, <2>1, <3>1, <4>2, MakeKeeps
    <3>3. Standing' /\ SeenConfigure'
      BY <1>2, <1>b, <1>c, <2>1 DEF CompileVertex, Make, IInv, Standing, SeenConfigure,
           Configured, Leaving, BeforeWindow, EglInitStep, LoopStep, wire
    <3> QED BY <1>0, <1>2, <2>1, <3>2, <3>3, QuietStep DEF CompileVertex, Make, SetupStep
  <2>2. CASE Leave(live) BY <1>2, <1>a, <2>2, LeaveStep DEF CompileVertex
  <2> QED BY <1>2, <2>1, <2>2 DEF CompileVertex
<1>3. CASE CompileFragment
  <2>1. CASE Make({"fs"}, "program")
    <3>1. Frame
      <4> DEFINE hs == {"fs"}
      <4>1. hs \in SUBSET Handle BY DEF GlObjects, Handle
      <4>2. \A h \in hs : Supports[h] \subseteq live \union hs BY <1>c DEF GlObjects
      <4> HIDE DEF hs
      <4> QED BY <1>a, <2>1, <4>1, <4>2, MakeKeeps DEF hs
    <3>2. Standing' /\ SeenConfigure'
      BY <1>3, <1>b, <1>c, <2>1 DEF CompileFragment, Make, IInv, Standing, SeenConfigure,
           Configured, Leaving, BeforeWindow, EglInitStep, LoopStep, wire
    <3> QED BY <1>0, <1>3, <2>1, <3>1, <3>2, QuietStep DEF CompileFragment, Make, SetupStep
  <2>2. ASSUME NEW l \in {live, live \ {"vs"}}, Leave(l) PROVE IInv'
    <3>1. l \in SUBSET Handle BY <1>0 DEF TypeOK
    <3>2. \A h \in l : "vs" \notin Supports[h]
      BY <1>0 DEF TypeOK, Handle, Proxies, EglObjects, GlObjects
    <3>3. \A h \in l : Supports[h] \subseteq l BY <1>d, <3>2
    <3>4. l \intersect EglObjects = live \intersect EglObjects BY DEF EglObjects
    <3>5. Frame /\ Standing' /\ SeenConfigure' /\ step' = "release"
      BY <1>3, <1>a, <1>b, <2>2, <3>1, <3>3, <3>4, LeaveKeeps DEF CompileFragment
    <3> QED BY <1>0, <1>3, <3>5, QuietStep DEF CompileFragment
  <2> QED BY <1>3, <2>1, <2>2 DEF CompileFragment
<1>4. CASE LinkProgram
  <2> DEFINE l == live \ {"vs", "fs"}
  <2>1. \A h \in live : Supports[h] \intersect GlObjects = {}
    BY <1>0 DEF TypeOK, Handle, Proxies, EglObjects, GlObjects
  <2>2. \A h \in l : Supports[h] \subseteq l BY <1>d, <2>1 DEF GlObjects
  <2>3. l \in SUBSET Handle /\ l \intersect EglObjects = live \intersect EglObjects
    BY <1>0 DEF TypeOK, EglObjects
  <2>4. CASE step' = "objects" /\ live' = l \union {"program"} /\ UNCHANGED todo
    <3>1. todo' = {} BY <1>a, <2>4 DEF IInv, Held
    <3>2. \A h \in live' : Supports[h] \subseteq live'
      BY <1>c, <2>2, <2>4 DEF GlObjects
    <3>3. Frame
      BY <2>3, <2>4, <3>1, <3>2 DEF ReleasedInOrder, Held, Handle, GlObjects, Leaving
    <3>4. Standing' /\ SeenConfigure'
      BY <1>4, <1>b, <1>c, <2>4 DEF LinkProgram, IInv, Standing, SeenConfigure,
           Configured, Leaving, BeforeWindow, EglInitStep, LoopStep, wire
    <3> QED BY <1>0, <1>4, <2>4, <3>3, <3>4, QuietStep DEF LinkProgram, SetupStep
  <2>5. CASE Leave(l)
    <3> HIDE DEF l
    <3>1. Frame /\ Standing' /\ SeenConfigure' /\ step' = "release"
      BY <1>4, <1>a, <1>b, <2>2, <2>3, <2>5, LeaveKeeps DEF LinkProgram
    <3> QED BY <1>0, <1>4, <3>1, QuietStep DEF LinkProgram
  <2> QED BY <1>4, <2>4, <2>5 DEF LinkProgram
<1>5. CASE GenObjects
  <2>1. Frame
    <3> DEFINE hs == {"vbo", "texture"}
    <3>1. hs \in SUBSET Handle BY DEF GlObjects, Handle
    <3>2. \A h \in hs : Supports[h] \subseteq live \union hs BY <1>c DEF GlObjects
    <3>3. Make(hs, "loop") BY <1>5 DEF GenObjects
    <3> HIDE DEF hs
    <3> QED BY <1>a, <3>1, <3>2, <3>3, MakeKeeps
  <2>2. Standing' /\ SeenConfigure'
    BY <1>5, <1>b, <1>c DEF GenObjects, Make, IInv, Standing, SeenConfigure,
         Configured, Leaving, BeforeWindow, EglInitStep, LoopStep, wire
  <2>3. built' \subseteq {"EglContext", "QuadRenderer"} BY <1>0, <1>5 DEF GenObjects
  <2> QED BY <1>5, <2>1, <2>2, <2>3, QuietStep DEF GenObjects, Make, LoopStep
<1> QED BY <1>1, <1>2, <1>3, <1>4, <1>5

-----------------------------------------------------------------------------
(* The loop.                                                                *)

LEMMA LoopKeepsIInv ==
  ASSUME IInv, LoopCheck \/ Swap \/ SwapReads \/ Dispatch
  PROVE  IInv'
<1> DEFINE Frame == live' \subseteq Handle /\ todo' \subseteq live' /\ ReleasedInOrder' /\ Held'
<1>0. TypeOK /\ stage \in [Event -> Stage] BY DEF IInv, TypeOK
<1>a. ~Leaving BY DEF LoopCheck, Swap, SwapReads, SwapCommit, Dispatch, Leaving
<1>1. ASSUME NEW next \in LoopStep, Make({}, next), step \in LoopStep, Kept,
             UNCHANGED <<lang, built>>
      PROVE  Frame /\ Standing' /\ SeenConfigure'
  <2>1. Frame BY <1>1, <1>a, MakeKeeps DEF LoopStep
  <2>2. Configured => Configured' BY <1>1, KeptConfigured
  <2>3. Standing' /\ SeenConfigure'
    BY <1>1, <2>2 DEF Make, IInv, Standing, SeenConfigure, Leaving, BeforeWindow,
                      EglInitStep, LoopStep
  <2> QED BY <2>1, <2>3
<1>2. CASE LoopCheck
  <2>1. CASE Make({}, "recv")
    <3>1. Kept BY <1>2 DEF LoopCheck, wire, Kept
    <3>2. Frame /\ Standing' /\ SeenConfigure' BY <1>1, <1>2, <2>1, <3>1 DEF LoopCheck, LoopStep
    <3> QED BY <1>2, <2>1, <3>2, QuietStep DEF LoopCheck, Make, LoopStep, IInv, TypeOK
  <2>2. CASE Leave(live) BY <1>2, <1>a, <2>2, LeaveStep DEF LoopCheck
  <2> QED BY <1>2, <2>1, <2>2 DEF LoopCheck
<1>3. CASE Swap \/ SwapReads
  <2>1. /\ step = "swap" /\ Make({}, "ack") /\ shown' = (shown \/ conn = "up")
        /\ stage' = Flushed(stage) \/ stage' = Arrived(Flushed(stage))
        /\ UNCHANGED <<lang, built, commit, conn, running>> /\ err' \in BOOLEAN
    BY <1>0, <1>3 DEF Swap, SwapReads, SwapCommit, FlushedAndRead, link, TypeOK
  <2>2. Flushed(stage) \in [Event -> Stage] BY <1>0, StageMoves
  <2>3. stage' \in [Event -> Stage] /\ Kept
    BY <1>0, <2>1, <2>2, StageMoves DEF Kept
  <2>4. Frame /\ Standing' /\ SeenConfigure' BY <1>1, <2>1, <2>3 DEF LoopStep
  <2>5. ConfiguredBeforeFrame'
    <3>1. CASE conn = "up"
      <4>1. PICK c \in Configures : stage[c] \in {"handled", "answered"}
        BY <1>a, <2>1 DEF IInv, SeenConfigure, Configured
      <4>2. Flushed(stage)[c] = "answered" BY <3>1, <4>1 DEF Flushed
      <4>3. stage'[c] = "answered" BY <1>0, <2>1, <2>2, <4>2, StageMoves
      <4> QED BY <4>3 DEF ConfiguredBeforeFrame
    <3>2. CASE conn # "up"
      <4>1. shown' = shown BY <1>0, <2>1, <3>2 DEF TypeOK
      <4> QED BY <2>3, <4>1, KeptConfigured DEF IInv
    <3> QED BY <3>1, <3>2
  <2>6. TypeOK' BY <1>0, <2>1, <2>3, <2>4 DEF TypeOK, Make, LoopStep
  <2> QED BY <2>4, <2>5, <2>6 DEF IInv
<1>4. CASE Dispatch
  <2>1. stage' \in [Event -> Stage] /\ Kept
    <3>1. Flushed(stage) \in [Event -> Stage] BY <1>0, StageMoves
    <3>2. CASE err BY <1>0, <1>4, <3>2 DEF Dispatch, Kept
    <3>3. CASE ~err
      <4>1. stage' = Dispatched(Flushed(stage)) BY <1>4, <3>3 DEF Dispatch
      <4> QED BY <1>0, <3>1, <4>1, StageMoves DEF Kept
    <3> QED BY <3>2, <3>3
  <2>2. ConfiguredBeforeFrame' BY <1>4, <2>1, KeptConfigured DEF Dispatch, IInv
  <2>3. CASE Make({}, "loop")
    <3>1. Frame /\ Standing' /\ SeenConfigure' BY <1>1, <1>4, <2>1, <2>3 DEF Dispatch, LoopStep
    <3>2. TypeOK' BY <1>0, <1>4, <2>1, <2>3, <3>1 DEF Dispatch, TypeOK, Make, LoopStep, link
    <3> QED BY <2>2, <3>1, <3>2 DEF IInv
  <2>4. CASE Leave(live)
    <3>1. Frame /\ Standing' /\ SeenConfigure' /\ step' = "release"
      BY <1>4, <1>a, <2>4, LeaveLive DEF Dispatch
    <3>2. TypeOK' BY <1>0, <1>4, <2>1, <3>1 DEF Dispatch, TypeOK, link
    <3> QED BY <2>2, <3>1, <3>2 DEF IInv
  <2> QED BY <1>4, <2>3, <2>4 DEF Dispatch
<1> QED BY <1>2, <1>3, <1>4

-----------------------------------------------------------------------------
(* The teardown.                                                            *)

\* what is released supports nothing that stays, but for the exceptions
LEMMA ReleaseKeepsIInv == ASSUME IInv, Release PROVE IInv'
<1> USE DEF IInv, Leaving
<1>1. PICK h \in todo :
        /\ step = "release" /\ \A g \in todo : Rank[g] <= Rank[h]
        /\ live' = live \ Gone(h) /\ todo' = todo \ {h}
        /\ UNCHANGED <<lang, step, built, wire, link, running>>
  BY DEF Release
<1>2. h \in Handle /\ h \in live /\ lang \in {"cpp", "rust"} /\ live \subseteq Handle
  BY DEF TypeOK
<1>3. lang = "cpp" => todo = live BY <1>1 DEF Held
<1>4. lang = "rust" => /\ live \intersect {"display", "native"} \subseteq todo
                       /\ "EglContext" \in built => live \intersect EglObjects \subseteq todo
  BY <1>1 DEF Held
<1>5. "EglContext" \notin built => live \intersect GlObjects = {} BY DEF Standing
<1> USE <1>1, <1>2
<1>6. ASSUME NEW g \in live', lang = "cpp" PROVE Supports[g] \subseteq live'
  <2>1. Supports[g] \subseteq live BY <1>6 DEF ReleasedInOrder
  <2>2. Gone(h) \subseteq {h} \union (IF h = "context" THEN GlObjects ELSE {})
    BY <1>6 DEF Gone
  <2>3. \A k \in Supports[g] : k \notin GlObjects
    BY SupportsTable DEF Handle, Proxies, EglObjects, GlObjects
  <2>4. h \notin Supports[g]
    <3>1. Rank[g] <= Rank[h] BY <1>3, <1>6
    <3> QED BY <1>6, <3>1, SupportsTable, RankTable DEF Handle, Proxies, EglObjects, GlObjects
  <2> QED BY <2>1, <2>2, <2>3, <2>4
<1>7. ASSUME NEW g \in live', lang = "rust"
      PROVE  Supports[g] \subseteq live' \/ g = "native" \/ Abandoned(g)
  <2> SUFFICES ASSUME g # "native", ~Abandoned(g) PROVE Supports[g] \subseteq live'
    OBVIOUS
  <2>1. Supports[g] \subseteq live BY <1>7 DEF ReleasedInOrder
  <2>2. h \notin Proxies BY <1>7 DEF Held
  <2>3. CASE g \in Proxies
    <3>1. h # "display" BY <1>7, <2>3 DEF Gone
    <3>2. Supports[g] \subseteq {"display"} \union Proxies
      BY <2>3, SupportsTable DEF Proxies
    <3>3. Gone(h) \subseteq {h} \union GlObjects BY <3>1 DEF Gone
    <3> QED BY <2>1, <2>2, <3>1, <3>2, <3>3 DEF Proxies, GlObjects
  <2>4. CASE g \in EglObjects
    <3>1. g \in todo BY <1>4, <1>7, <2>4 DEF Abandoned
    <3>2. Rank[g] <= Rank[h] BY <3>1
    <3>3. h \notin Supports[g] /\ h # "display"
      BY <1>7, <2>4, <3>2, SupportsTable, RankTable
         DEF Handle, Proxies, EglObjects, GlObjects
    <3>4. Gone(h) \subseteq {h} \union GlObjects BY <3>3 DEF Gone
    <3>5. Supports[g] \intersect GlObjects = {}
      BY <2>4, SupportsTable DEF EglObjects, GlObjects
    <3> QED BY <2>1, <3>3, <3>4, <3>5
  <2>5. CASE g \in GlObjects
    <3>1. Supports[g] = {"context"} BY <2>5, SupportsTable
    <3>2. h # "context" BY <1>7, <2>5 DEF Gone
    <3>3. "context" \notin Gone(h) BY <3>2 DEF Gone, GlObjects, Proxies
    <3> QED BY <2>1, <3>1, <3>3
  <2>6. CASE g = "display" BY <2>6, SupportsTable
  <2> QED BY <2>3, <2>4, <2>5, <2>6, <1>7 DEF Handle
<1>8. todo' \intersect GlObjects # {} => "current" \in live'
  <2> SUFFICES ASSUME NEW g \in todo', g \in GlObjects PROVE "current" \in live'
    OBVIOUS
  <2>1. "current" \in live BY DEF ReleasedInOrder
  <2>2. Rank[g] <= Rank[h] /\ Rank[g] >= 13 BY RankTable DEF GlObjects
  <2>3. "current" \notin Gone(h) BY <2>2, RankTable DEF Gone, GlObjects, Proxies
  <2> QED BY <2>1, <2>3
<1>9. ReleasedInOrder' BY <1>6, <1>7, <1>8 DEF ReleasedInOrder, Abandoned
<1>10. live' \subseteq Handle /\ todo' \subseteq live'
  <2> SUFFICES ASSUME NEW g \in todo' PROVE g \notin Gone(h) BY DEF TypeOK
  <2>1. Rank[g] <= Rank[h] /\ g # h BY DEF TypeOK
  <2>2. lang = "rust" => g \notin Proxies BY DEF Held
  <2>3. CASE h = "context"
    <3> g \notin GlObjects BY <2>1, <2>3, RankTable DEF GlObjects
    <3> QED BY <2>1, <2>3 DEF Gone
  <2>4. CASE h # "context" BY <2>1, <2>2, <2>4 DEF Gone
  <2> QED BY <2>3, <2>4
<1>11. Held'
  <2>1. lang = "cpp" => todo' = live'
    <3> SUFFICES ASSUME lang = "cpp" PROVE live' \subseteq todo' BY <1>10
    <3> QED BY <1>3 DEF Gone
  <2> QED BY <1>4, <2>1, <1>10 DEF Held, Gone
<1>12. Standing' /\ SeenConfigure'
  BY DEF Standing, SeenConfigure, LoopStep, BeforeWindow, EglInitStep
<1>13. built' \subseteq {"EglContext", "QuadRenderer"} BY DEF TypeOK
<1> HIDE DEF IInv
<1> QED BY <1>9, <1>10, <1>11, <1>12, <1>13, QuietStep

LEMMA ExitKeepsIInv == ASSUME IInv, Exit PROVE IInv'
<1> USE DEF Exit, IInv, Leaving
<1>1. ReleasedInOrder' BY DEF ReleasedInOrder, Abandoned, handles
<1>2. Held' /\ Standing' /\ SeenConfigure'
  BY DEF Held, Standing, SeenConfigure, handles, LoopStep, BeforeWindow, EglInitStep
<1>3. live' \subseteq Handle /\ todo' \subseteq live'
      /\ built' \subseteq {"EglContext", "QuadRenderer"}
  BY DEF TypeOK, handles
<1> HIDE DEF IInv
<1> QED BY <1>1, <1>2, <1>3, QuietStep

-----------------------------------------------------------------------------
(* The compositor, the user, and no step at all.                            *)

LEMMA OthersKeepIInv ==
  ASSUME IInv,
         (\E e \in Event : CompositorSends(e)) \/ CompositorDies \/ Interrupt \/ UNCHANGED vars
  PROVE  IInv'
<1>1. UNCHANGED <<lang, step, handles, commit, shown>>
  BY DEF CompositorSends, CompositorDies, Interrupt, vars, wire
<1>2. stage' \in [Event -> Stage] /\ Kept
  <2>1. stage \in [Event -> Stage] BY DEF IInv, TypeOK
  <2>2. CASE UNCHANGED stage BY <2>1, <2>2 DEF Kept
  <2>3. ASSUME NEW e \in Event, CompositorSends(e) PROVE stage' \in [Event -> Stage] /\ Kept
    BY <2>1, <2>3 DEF CompositorSends, Kept, Stage
  <2> QED BY <2>2, <2>3 DEF CompositorDies, Interrupt, vars, wire
<1>3. TypeOK'
  BY <1>1, <1>2 DEF IInv, TypeOK, handles, CompositorSends, CompositorDies, Interrupt,
                    vars, link
<1>4. ConfiguredBeforeFrame' BY <1>1, <1>2, KeptConfigured DEF IInv
<1>5. Configured => Configured' BY <1>2, KeptConfigured
<1>6. ReleasedInOrder' /\ Held' /\ Standing' /\ SeenConfigure'
  BY <1>1, <1>5 DEF IInv, ReleasedInOrder, Abandoned, Held, Standing, SeenConfigure,
                    Leaving, handles
<1> QED BY <1>3, <1>4, <1>6 DEF IInv

-----------------------------------------------------------------------------
(***************************************************************************)
(* IInv holds in every state, in both programs and from whatever call the  *)
(* program leaves.                                                         *)
(***************************************************************************)
THEOREM Inductive == Spec => []IInv
<1>1. IInv /\ [Next]_vars => IInv'
  BY WindowKeepsIInv, CallsKeepIInv, EglInitializeKeepsIInv, RendererKeepsIInv, LoopKeepsIInv,
     ReleaseKeepsIInv, ExitKeepsIInv, OthersKeepIInv
  DEF Next, Subscriber, SetUp, Loop, TearDown, AtRest
<1> QED BY InitIInv, <1>1, PTL DEF Spec

(***************************************************************************)
(* Types; a destructor never releases what is already gone.                *)
(***************************************************************************)
THEOREM TypeCorrect == Spec => []TypeOK
<1>1. IInv => TypeOK BY DEF IInv
<1> QED BY Inductive, <1>1, PTL

(***************************************************************************)
(* No frame reaches the compositor before the ack of a configure.          *)
(***************************************************************************)
THEOREM AckedFirst == Spec => []ConfiguredBeforeFrame
<1>1. IInv => ConfiguredBeforeFrame BY DEF IInv
<1> QED BY Inductive, <1>1, PTL

(***************************************************************************)
(* Nothing is released before what is built on it, but for the two         *)
(* exceptions of the Rust program.                                         *)
(***************************************************************************)
THEOREM OrderedRelease == Spec => []ReleasedInOrder
<1>1. IInv => ReleasedInOrder BY DEF IInv
<1> QED BY Inductive, <1>1, PTL

(***************************************************************************)
(* Only a failed EglContext::init of the Rust program leaves anything.     *)
(***************************************************************************)
THEOREM EverythingReleased == Spec => []AllReleased
<1>1. IInv => AllReleased
  <2> SUFFICES ASSUME IInv, step = "exited", NEW h \in live PROVE Abandoned(h)
    BY DEF AllReleased
  <2>1. todo = {} /\ lang \in {"cpp", "rust"} /\ h \in Handle
    BY DEF IInv, Held, TypeOK
  <2>2. lang = "rust" /\ h \notin {"display", "native"} /\ "display" \notin live
    BY <2>1 DEF IInv, Held, Leaving
  <2>3. h \notin Proxies
    <3> SUFFICES ASSUME h \in Proxies PROVE FALSE OBVIOUS
    <3>1. \A g \in live \intersect Proxies : Supports[g] \subseteq live
      BY DEF IInv, ReleasedInOrder, Abandoned, Proxies, EglObjects
    <3> QED BY <2>2, <3>1, SupportsTable DEF Proxies
  <2>4. h \in GlObjects => FALSE
    <3> SUFFICES ASSUME h \in GlObjects PROVE FALSE OBVIOUS
    <3>1. "EglContext" \in built BY DEF IInv, Standing
    <3>2. "context" \in live
      BY <3>1, SupportsTable DEF IInv, ReleasedInOrder, Abandoned, GlObjects
    <3> QED BY <2>1, <3>1, <3>2 DEF IInv, Held, Leaving, EglObjects
  <2>5. h \in EglObjects BY <2>1, <2>2, <2>3, <2>4 DEF Handle
  <2>6. "EglContext" \notin built BY <2>1, <2>5 DEF IInv, Held, Leaving
  <2> QED BY <2>2, <2>5, <2>6 DEF Abandoned
<1> QED BY Inductive, <1>1, PTL

-----------------------------------------------------------------------------
(* The window that Session.tla relies on.                                   *)

LEMMA CloseMoves ==
  ASSUME NEW st \in [Event -> Stage]
  PROVE  /\ Flushed(st)[Close] = st[Close] /\ Flushed(st) \in [Event -> Stage]
         /\ Arrived(st)[Close] = IF st[Close] = "sent" THEN "read" ELSE st[Close]
         /\ Arrived(st) \in [Event -> Stage]
         /\ Dispatched(st)[Close] = IF st[Close] = "read" THEN "handled" ELSE st[Close]
<1>1. Close \in Event /\ Close \notin Requests OBVIOUS
<1>2. Flushed(st)[Close] = st[Close] BY <1>1 DEF Flushed
<1>3. Flushed(st) \in [Event -> Stage] BY DEF Flushed, Stage
<1>4. Arrived(st)[Close] = IF st[Close] = "sent" THEN "read" ELSE st[Close]
  BY <1>1 DEF Arrived
<1>5. Arrived(st) \in [Event -> Stage] BY DEF Arrived, Stage
<1>6. Dispatched(st)[Close] = IF st[Close] = "read" THEN "handled" ELSE st[Close]
  BY <1>1 DEF Dispatched
<1> QED BY <1>2, <1>3, <1>4, <1>5, <1>6

\* each way in which a step treats the close event
LEMMA CloseCases ==
  ASSUME IInv
  PROVE  /\ stage' = Flushed(stage) => stage'[Close] = stage[Close]
         /\ stage' = Arrived(Flushed(stage)) =>
              stage'[Close] = IF stage[Close] = "sent" THEN "read" ELSE stage[Close]
         /\ stage' = Dispatched(Arrived(stage)) =>
              stage'[Close] = IF stage[Close] \in {"sent", "read"} THEN "handled" ELSE stage[Close]
         /\ stage' = Dispatched(Flushed(stage)) =>
              stage'[Close] = IF stage[Close] = "read" THEN "handled" ELSE stage[Close]
<1>1. stage \in [Event -> Stage] BY DEF IInv, TypeOK
<1>2. Flushed(stage) \in [Event -> Stage] /\ Arrived(stage) \in [Event -> Stage]
  BY <1>1, CloseMoves
<1>3. /\ Flushed(stage)[Close] = stage[Close]
      /\ Arrived(stage)[Close] = IF stage[Close] = "sent" THEN "read" ELSE stage[Close]
  BY <1>1, CloseMoves
<1>4. Arrived(Flushed(stage))[Close] = IF stage[Close] = "sent" THEN "read" ELSE stage[Close]
  BY <1>2, <1>3, CloseMoves
<1>5. Dispatched(Arrived(stage))[Close] =
        IF stage[Close] \in {"sent", "read"} THEN "handled" ELSE stage[Close]
  <2>1. Dispatched(Arrived(stage))[Close] =
          IF Arrived(stage)[Close] = "read" THEN "handled" ELSE Arrived(stage)[Close]
    BY <1>2, CloseMoves
  <2> QED BY <1>3, <2>1
<1>6. Dispatched(Flushed(stage))[Close] = IF stage[Close] = "read" THEN "handled" ELSE stage[Close]
  <2>1. Dispatched(Flushed(stage))[Close] =
          IF Flushed(stage)[Close] = "read" THEN "handled" ELSE Flushed(stage)[Close]
    BY <1>2, CloseMoves
  <2> QED BY <1>3, <2>1
<1> QED BY <1>3, <1>4, <1>5, <1>6

\* a close needs no answer, and until the first configure it is handled when read
CloseStage ==
  /\ stage[Close] \in {"none", "sent", "read", "handled"}
  /\ step \in {"connect", "roundtrip", "surface", "configure"} => stage[Close] # "read"

LEMMA InitCloseStage == Init => CloseStage
BY DEF Init, CloseStage

\* what each step makes of the close event and of the step
Before == {"connect", "roundtrip", "surface", "configure"}

LEMMA SetUpMoves ==
  ASSUME IInv, CloseStage, SetUp
  PROVE  /\ step \in SetupStep /\ step' \in SetupStep \union {"loop", "release"}
         /\ step \notin Before => step' \notin Before
         /\ \/ stage'[Close] = stage[Close]
            \/ stage[Close] = "sent" /\ stage'[Close] = "read" /\ step \notin Before
            \/ stage[Close] = "sent" /\ stage'[Close] = "handled"
<1> USE DEF Make, Leave, MakeOrLeave, SetupStep, Before, CloseStage, wire
<1>1. CASE EglInitialize
  <2>1. stage' = stage \/ stage' = Arrived(Flushed(stage))
    BY <1>1 DEF EglInitialize, FlushedAndRead
  <2>2. stage'[Close] = stage[Close] \/ (stage[Close] = "sent" /\ stage'[Close] = "read")
    BY <2>1, CloseCases
  <2> QED BY <1>1, <2>2 DEF EglInitialize
<1>2. CASE ConfigureFlush
  <2>1. stage'[Close] = stage[Close] BY <1>2, CloseCases DEF ConfigureFlush
  <2> QED BY <1>2, <2>1 DEF ConfigureFlush
<1>3. CASE ConfigureRead
  <2>1. stage[Close] # "read" BY <1>3 DEF ConfigureRead
  <2>2. stage'[Close] = IF stage[Close] = "sent" THEN "handled" ELSE stage[Close]
    BY <1>3, <2>1, CloseCases DEF ConfigureRead
  <2> QED BY <1>3, <2>2 DEF ConfigureRead
<1>4. CASE Connect \/ Roundtrip \/ CreateSurface \/ ConfigureFails \/ ConfigureDone
  BY <1>4 DEF Connect, Roundtrip, CreateSurface, ConfigureFails, ConfigureDone
<1>5. CASE \/ CreateNative \/ EglChoose \/ EglContextCreate \/ EglSurfaceCreate
           \/ EglMakeCurrent \/ EglEntryPoints
  BY <1>5 DEF CreateNative, EglChoose, EglContextCreate, EglSurfaceCreate,
              EglMakeCurrent, EglEntryPoints
<1>6. CASE CompileVertex \/ CompileFragment \/ LinkProgram \/ GenObjects
  BY <1>6 DEF CompileVertex, CompileFragment, LinkProgram, GenObjects
<1> QED BY <1>1, <1>2, <1>3, <1>4, <1>5, <1>6 DEF SetUp

LEMMA LoopMoves ==
  ASSUME IInv, Loop
  PROVE  \/ /\ step = "loop" /\ ~ShouldClose /\ step' = "recv"
            /\ stage' = stage
         \/ /\ <<step, step'>> \in {<<"recv", "draw">>, <<"draw", "swap">>, <<"ack", "dispatch">>}
            /\ stage' = stage
         \/ /\ step \in {"loop", "recv", "draw", "ack", "dispatch"} /\ step' = "release"
            /\ stage' = stage
         \/ /\ step = "swap" /\ step' = "ack"
            /\ \/ stage'[Close] = stage[Close]
               \/ stage[Close] = "sent" /\ stage'[Close] = "read"
         \/ /\ step = "dispatch"
            /\ stage'[Close] = IF stage[Close] = "read" /\ ~err THEN "handled" ELSE stage[Close]
            /\ step' = IF stage'[Close] = "handled" THEN "release" ELSE "loop"
<1> USE DEF Make, Leave, MakeOrLeave, wire
<1>1. CASE LoopCheck BY <1>1 DEF LoopCheck
<1>2. CASE Recv \/ Draw \/ SendAck BY <1>2 DEF Recv, Draw, SendAck
<1>3. CASE Swap \/ SwapReads
  <2>1. step = "swap" /\ step' = "ack"
        /\ (stage' = Flushed(stage) \/ stage' = Arrived(Flushed(stage)))
    BY <1>3 DEF Swap, SwapReads, SwapCommit, FlushedAndRead
  <2>2. stage'[Close] = stage[Close] \/ (stage[Close] = "sent" /\ stage'[Close] = "read")
    BY <2>1, CloseCases
  <2> QED BY <2>1, <2>2
<1>4. CASE Dispatch
  <2>1. CASE err BY <1>4, <2>1 DEF Dispatch
  <2>2. CASE ~err
    <3>1. stage' = Dispatched(Flushed(stage)) BY <1>4, <2>2 DEF Dispatch
    <3>2. stage'[Close] = IF stage[Close] = "read" THEN "handled" ELSE stage[Close]
      BY <3>1, CloseCases
    <3> QED BY <1>4, <2>2, <3>2 DEF Dispatch
  <2> QED BY <2>1, <2>2
<1> QED BY <1>1, <1>2, <1>3, <1>4 DEF Loop

\* the teardown, the compositor, the user, and no step at all
LEMMA OtherMoves ==
  ASSUME IInv,
         \/ TearDown \/ (\E e \in Event : CompositorSends(e))
         \/ CompositorDies \/ Interrupt \/ UNCHANGED vars
  PROVE  /\ step' = step \/ (step = "release" /\ step' = "exited")
         /\ \/ stage'[Close] = stage[Close]
            \/ stage[Close] = "none" /\ stage'[Close] = "sent" /\ step' = step
<1>1. stage \in [Event -> Stage] BY DEF IInv, TypeOK
<1>2. CASE TearDown BY <1>2 DEF TearDown, Release, Exit, wire
<1>3. ASSUME NEW e \in Event, CompositorSends(e)
      PROVE  /\ step' = step
             /\ \/ stage'[Close] = stage[Close]
                \/ stage[Close] = "none" /\ stage'[Close] = "sent"
  BY <1>1, <1>3 DEF CompositorSends
<1>4. CASE CompositorDies \/ Interrupt \/ UNCHANGED vars
  BY <1>4 DEF CompositorDies, Interrupt, vars, wire
<1> QED BY <1>2, <1>3, <1>4

LEMMA NextCloseStage == IInv /\ CloseStage /\ [Next]_vars => CloseStage'
<1> SUFFICES ASSUME IInv, CloseStage, [Next]_vars PROVE CloseStage' OBVIOUS
<1> USE DEF CloseStage
<1>1. CASE SetUp BY <1>1, SetUpMoves DEF Before, SetupStep
<1>2. CASE Loop BY <1>2, LoopMoves
<1>3. CASE \/ TearDown \/ (\E e \in Event : CompositorSends(e))
           \/ CompositorDies \/ Interrupt \/ UNCHANGED vars
  BY <1>3, OtherMoves
<1> QED BY <1>1, <1>2, <1>3 DEF Next, Subscriber, AtRest

\* libwayland reports no error of a connection that is up
ErrRight == err => conn = "broken"

LEMMA InitErrRight == Init => ErrRight
BY DEF Init, ErrRight

LEMMA LangStays == [Next]_vars => lang' = lang
<1>1. SetUp => lang' = lang
  BY DEF SetUp, Connect, Roundtrip, CreateSurface, ConfigureFlush, ConfigureRead,
       ConfigureFails, ConfigureDone, CreateNative, EglInitialize, EglChoose,
       EglContextCreate, EglSurfaceCreate, EglMakeCurrent, EglEntryPoints, CompileVertex,
       CompileFragment, LinkProgram, GenObjects
<1>2. Loop \/ TearDown => lang' = lang
  BY DEF Loop, LoopCheck, Recv, Draw, Swap, SwapReads, SendAck, Dispatch, TearDown, Release, Exit
<1>3. (\E e \in Event : CompositorSends(e)) \/ CompositorDies \/ Interrupt \/ UNCHANGED vars
        => lang' = lang
  BY DEF CompositorSends, CompositorDies, Interrupt, vars
<1> QED BY <1>1, <1>2, <1>3 DEF Next, Subscriber, AtRest

\* nothing takes back what was asked
LEMMA AskedStays ==
  ASSUME IInv, CloseStage, ErrRight, [Next]_vars
  PROVE  /\ ErrRight' /\ (err => err') /\ lang' = lang /\ (~running => ~running')
         /\ (ShouldClose => ShouldClose')
<1> USE DEF ErrRight, ShouldClose, wire, link
<1>0. err \in BOOLEAN /\ conn \in {"up", "broken"} BY DEF IInv, TypeOK
<1>l. lang' = lang BY LangStays
<1>1. CASE SetUp
  <2>1. /\ running' = running /\ conn' = conn
        /\ \/ err' = err
           \/ err' = (conn = "broken")
           \/ err' = (err \/ (conn = "broken" /\ Sent = {}))
           \/ err' = TRUE /\ (err \/ (conn = "broken" /\ Sent = {}))
    BY <1>1 DEF SetUp, Connect, Roundtrip, CreateSurface, ConfigureFlush, ConfigureRead,
         ConfigureFails, ConfigureDone, CreateNative, EglInitialize, FlushedAndRead, EglChoose,
         EglContextCreate, EglSurfaceCreate, EglMakeCurrent, EglEntryPoints, CompileVertex,
         CompileFragment, LinkProgram, GenObjects
  <2>2. ErrRight' /\ (err => err') BY <1>0, <2>1
  <2>3. ShouldClose => ShouldClose' BY <1>1, SetUpMoves
  <2> QED BY <1>l, <2>1, <2>2, <2>3
<1>2. CASE Loop
  <2>1. /\ running' = running /\ conn' = conn
        /\ err' = err \/ err' = (err \/ (conn = "broken" /\ Sent = {}))
    BY <1>2 DEF Loop, LoopCheck, Recv, Draw, Swap, SwapReads, FlushedAndRead, SendAck, Dispatch
  <2>2. ErrRight' /\ (err => err') BY <1>0, <2>1
  <2>3. ShouldClose => ShouldClose' BY <1>2, LoopMoves
  <2> QED BY <1>l, <2>1, <2>2, <2>3
<1>3. CASE \/ TearDown \/ (\E e \in Event : CompositorSends(e))
           \/ CompositorDies \/ Interrupt \/ UNCHANGED vars
  <2>1. err' = err /\ (conn = "broken" => conn' = "broken") /\ (~running => ~running')
    BY <1>3 DEF TearDown, Release, Exit, CompositorSends, CompositorDies, Interrupt, vars
  <2>2. ShouldClose => ShouldClose' BY <1>3, OtherMoves
  <2> QED BY <1>l, <2>1, <2>2
<1> QED BY <1>1, <1>2, <1>3 DEF Next, Subscriber, AtRest

\* the loop's calls are none of the set-up
LEMMA LoopApart == Loop => ~SetUp
BY DEF Loop, LoopCheck, Recv, Draw, Swap, SwapReads, SwapCommit, SendAck, Dispatch, MakeOrLeave,
       SetUp, Connect, Roundtrip, CreateSurface, ConfigureFlush, ConfigureRead, ConfigureFails,
       ConfigureDone, CreateNative, EglInitialize, EglChoose, EglContextCreate, EglSurfaceCreate,
       EglMakeCurrent, EglEntryPoints, CompileVertex, CompileFragment, LinkProgram, GenObjects

\* only a read can find out that the connection is dead
LEMMA ErrMoves ==
  ASSUME [Next]_vars, ~SetUp, step # "swap"
  PROVE  err' = err
<1> USE DEF link
<1>1. CASE Loop
  BY <1>1 DEF Loop, LoopCheck, Recv, Draw, Swap, SwapReads, SwapCommit, SendAck, Dispatch
<1>2. CASE \/ TearDown \/ (\E e \in Event : CompositorSends(e))
           \/ CompositorDies \/ Interrupt \/ UNCHANGED vars
  BY <1>2 DEF TearDown, Release, Exit, CompositorSends, CompositorDies, Interrupt, vars
<1> QED BY <1>1, <1>2 DEF Next, Subscriber, AtRest

(***************************************************************************)
(* The window's set-up, the loop's calls and the compositor implement      *)
(* Window.tla: a close comes to the loop during the set-up or in a swap,   *)
(* and never past the loop's own check.                                    *)
(***************************************************************************)
THEOREM ProvidesTheWindow == Spec => ProvidesWindow
<1> USE DEF Win!vars
<1>1. Init => Win!Init
  BY DEF Init, Win!Init, SetupStep
<1>2. IInv /\ IInv' /\ CloseStage /\ ErrRight /\ [Next]_vars => [Win!Next]_(Win!vars)
  <2> SUFFICES ASSUME IInv, IInv', CloseStage, ErrRight, [Next]_vars
               PROVE  Win!Next \/ UNCHANGED Win!vars
    OBVIOUS
  <2>0. err \in BOOLEAN /\ err' \in BOOLEAN /\ (err => err') BY AskedStays DEF IInv, TypeOK
  <2> USE DEF CloseStage, SetupStep
  <2>1. CASE SetUp
    <3>1. Win!SetUp BY <2>0, <2>1, SetUpMoves DEF Win!SetUp, Win!Read, Win!Listen
    <3> QED BY <3>1 DEF Win!Next
  <2>2. CASE Loop
    <3>1. CASE step = "swap"
      BY <2>0, <2>2, <3>1, LoopMoves DEF Win!Next, Win!Swap, Win!Read, Win!Listen
    <3>2. CASE step # "swap"
      <4>1. step \notin SetupStep /\ err' = err
        BY <2>2, <3>2, LoopMoves, ErrMoves, LoopApart
      <4> QED BY <2>2, <3>2, <4>1, LoopMoves
              DEF ShouldClose, Win!Next, Win!Check, Win!Receive, Win!Draw,
                  Win!Ack, Win!Dispatch, Win!Leave
    <3> QED BY <3>1, <3>2
  <2>3. CASE \/ TearDown \/ (\E e \in Event : CompositorSends(e))
             \/ CompositorDies \/ Interrupt \/ UNCHANGED vars
    <3>1. err' = err
      BY <2>3 DEF TearDown, Release, Exit, CompositorSends, CompositorDies, Interrupt, vars, link
    <3> QED BY <2>3, <3>1, OtherMoves DEF Win!Next, Win!UserCloses
  <2> QED BY <2>1, <2>2, <2>3 DEF Next, Subscriber, AtRest
<1> QED BY <1>1, <1>2, Inductive, InitCloseStage, NextCloseStage, InitErrRight, AskedStays, PTL
        DEF Spec, ProvidesWindow, Win!Spec

-----------------------------------------------------------------------------
(* How the program ends once it knows that it must.                         *)

\* a signal was handled, the close was, or a read has met the dead connection
Asked == ~running \/ ShouldClose \/ (err /\ lang = "cpp")

\* most steps to the exit, the releases apart
Ahead ==
  [exited |-> 0, release |-> 1, dispatch |-> 3, ack |-> 4, swap |-> 5, draw |-> 6, recv |-> 7,
   loop |-> IF running /\ ~ShouldClose THEN 8 ELSE 2,
   objects |-> 9, program |-> 10, fs |-> 11, vs |-> 12, procs |-> 13, current |-> 14,
   esurface |-> 15, context |-> 16, choose |-> 17, initialize |-> 18, native |-> 19,
   configure |-> 20, surface |-> 21, roundtrip |-> 22, connect |-> 23][step]

\* the table, read out
Counted ==
  /\ (step = "exited" => Ahead = 0) /\ (step = "release" => Ahead = 1)
  /\ (step = "dispatch" => Ahead = 3) /\ (step = "ack" => Ahead = 4)
  /\ (step = "swap" => Ahead = 5) /\ (step = "draw" => Ahead = 6) /\ (step = "recv" => Ahead = 7)
  /\ step = "loop" => Ahead = IF running /\ ~ShouldClose THEN 8 ELSE 2
  /\ (step = "objects" => Ahead = 9) /\ (step = "program" => Ahead = 10)
  /\ (step = "fs" => Ahead = 11) /\ (step = "vs" => Ahead = 12) /\ (step = "procs" => Ahead = 13)
  /\ (step = "current" => Ahead = 14) /\ (step = "esurface" => Ahead = 15)
  /\ (step = "context" => Ahead = 16) /\ (step = "choose" => Ahead = 17)
  /\ (step = "initialize" => Ahead = 18) /\ (step = "native" => Ahead = 19)
  /\ (step = "configure" => Ahead = 20) /\ (step = "surface" => Ahead = 21)
  /\ (step = "roundtrip" => Ahead = 22) /\ (step = "connect" => Ahead = 23)

LEMMA Counts == Counted
BY DEF Ahead, Counted

LEMMA AheadTyped == IInv => Ahead \in Nat
BY Counts DEF Counted, IInv, TypeOK, SetupStep, LoopStep

\* where the set-up and the loop can go once they are asked to end
LEMMA SetUpGoesOn ==
  ASSUME SetUp
  PROVE  \/ step = "configure" /\ UNCHANGED <<step, handles>>
         \/ step \in SetupStep /\ step' = "release"
         \/ <<step, step'>> \in
              {<<"connect", "roundtrip">>, <<"roundtrip", "surface">>, <<"surface", "configure">>,
               <<"configure", "native">>, <<"native", "initialize">>, <<"initialize", "choose">>,
               <<"choose", "context">>, <<"context", "esurface">>, <<"esurface", "current">>,
               <<"current", "procs">>, <<"procs", "vs">>, <<"vs", "fs">>, <<"fs", "program">>,
               <<"program", "objects">>, <<"objects", "loop">>}
<1> USE DEF Make, Leave, MakeOrLeave, SetupStep
<1>1. CASE Connect \/ Roundtrip \/ CreateSurface
  BY <1>1 DEF Connect, Roundtrip, CreateSurface
<1>2. CASE ConfigureFlush \/ ConfigureRead \/ ConfigureFails \/ ConfigureDone
  BY <1>2 DEF ConfigureFlush, ConfigureRead, ConfigureFails, ConfigureDone
<1>3. CASE CreateNative \/ EglInitialize \/ EglChoose \/ EglContextCreate
  BY <1>3 DEF CreateNative, EglInitialize, EglChoose, EglContextCreate
<1>4. CASE EglSurfaceCreate \/ EglMakeCurrent \/ EglEntryPoints
  BY <1>4 DEF EglSurfaceCreate, EglMakeCurrent, EglEntryPoints
<1>5. CASE CompileVertex \/ CompileFragment \/ LinkProgram \/ GenObjects
  BY <1>5 DEF CompileVertex, CompileFragment, LinkProgram, GenObjects
<1> QED BY <1>1, <1>2, <1>3, <1>4, <1>5 DEF SetUp

LEMMA LoopGoesOn ==
  ASSUME Loop
  PROVE  \/ step \in LoopStep \ {"swap"} /\ step' = "release"
         \/ step = "loop" /\ running /\ ~ShouldClose /\ step' = "recv"
         \/ step = "dispatch" /\ step' = "loop" /\ ~(err /\ lang = "cpp") /\ ~ShouldClose'
         \/ <<step, step'>> \in
              {<<"recv", "draw">>, <<"draw", "swap">>, <<"swap", "ack">>, <<"ack", "dispatch">>}
<1> USE DEF Make, Leave, MakeOrLeave, LoopStep
<1>1. CASE LoopCheck \/ Recv \/ Draw BY <1>1 DEF LoopCheck, Recv, Draw
<1>2. CASE Swap \/ SwapReads \/ SendAck BY <1>2 DEF Swap, SwapReads, SwapCommit, SendAck
<1>3. CASE Dispatch BY <1>3 DEF Dispatch, ShouldClose
<1> QED BY <1>1, <1>2, <1>3 DEF Loop

(***************************************************************************)
(* Once a signal or the close is noticed, or, by the C++ program, that the *)
(* connection is dead (Rust's loop never learns it), the program           *)
(* goes one way: set-up, rest of the round, loop's check, release.  Every  *)
(* step but those of the wait for the first configure brings it further,   *)
(* no destructor touches a handle twice, and nobody turns it back.         *)
(***************************************************************************)
EndsOneWay ==
  [][Asked => /\ Asked' /\ Ahead' <= Ahead
              /\ \/ Ahead' < Ahead
                 \/ UNCHANGED <<step, handles>>
                 \/ step = "release" /\ \E h \in todo : todo' = todo \ {h}]_vars

THEOREM GoesOneWay == Spec => EndsOneWay
<1> DEFINE Further == \/ Ahead' < Ahead
                      \/ UNCHANGED <<step, handles>>
                      \/ step = "release" /\ \E h \in todo : todo' = todo \ {h}
           Onwards == Asked' /\ Ahead' <= Ahead /\ Further
<1>1. IInv /\ IInv' /\ CloseStage /\ ErrRight /\ [Next]_vars => (Asked => Onwards)
  <2> SUFFICES ASSUME IInv, IInv', CloseStage, ErrRight, [Next]_vars, Asked
               PROVE  Onwards
    OBVIOUS
  <2>1. Asked' BY AskedStays DEF Asked
  <2>2. Ahead \in Nat /\ Ahead' \in Nat
    <3>1. (IInv => Ahead \in Nat)' BY AheadTyped, PTL
    <3> QED BY <3>1, AheadTyped
  <2>3. ASSUME Ahead' < Ahead PROVE Onwards BY <2>1, <2>2, <2>3
  <2>4. ASSUME UNCHANGED <<step, handles>>, Ahead' <= Ahead PROVE Onwards BY <2>1, <2>4
  <2>5. Counted /\ Counted' BY Counts, PTL
  <2> HIDE DEF Onwards
  <2>6. CASE SetUp
    <3>1. CASE step = "configure" /\ UNCHANGED <<step, handles>>
      BY <2>2, <2>4, <2>5, <3>1 DEF Counted
    <3>2. CASE step \in SetupStep /\ step' = "release"
      BY <2>3, <2>5, <3>2 DEF Counted, SetupStep
    <3>3. CASE <<step, step'>> \in
              {<<"connect", "roundtrip">>, <<"roundtrip", "surface">>, <<"surface", "configure">>,
               <<"configure", "native">>, <<"native", "initialize">>, <<"initialize", "choose">>,
               <<"choose", "context">>, <<"context", "esurface">>, <<"esurface", "current">>,
               <<"current", "procs">>, <<"procs", "vs">>, <<"vs", "fs">>, <<"fs", "program">>,
               <<"program", "objects">>, <<"objects", "loop">>}
      <4>1. Ahead' < Ahead BY <2>5, <3>3 DEF Counted
      <4> QED BY <2>3, <4>1
    <3> QED BY <2>6, <3>1, <3>2, <3>3, SetUpGoesOn
  <2>7. CASE Loop
    <3>1. Ahead' < Ahead
      <4>1. CASE step \in LoopStep \ {"swap"} /\ step' = "release"
        BY <2>5, <4>1 DEF Counted, LoopStep
      <4>2. CASE step = "loop" /\ running /\ ~ShouldClose /\ step' = "recv"
        BY <2>5, <4>2 DEF Counted
      <4>3. CASE step = "dispatch" /\ step' = "loop" /\ ~(err /\ lang = "cpp") /\ ~ShouldClose'
        <5>1. ~running' BY <4>3, AskedStays DEF Asked
        <5> QED BY <2>5, <4>3, <5>1 DEF Counted
      <4>4. CASE <<step, step'>> \in
              {<<"recv", "draw">>, <<"draw", "swap">>, <<"swap", "ack">>, <<"ack", "dispatch">>}
        BY <2>5, <4>4 DEF Counted
      <4> QED BY <2>7, <4>1, <4>2, <4>3, <4>4, LoopGoesOn
    <3> QED BY <2>3, <3>1
  <2>8. CASE TearDown
    <3>1. CASE Exit
      <4>1. Ahead' < Ahead BY <2>5, <3>1 DEF Exit, Counted
      <4> QED BY <2>3, <4>1
    <3>2. CASE Release
      <4>1. step = "release" /\ step' = step /\ \E h \in todo : todo' = todo \ {h}
        BY <3>2 DEF Release
      <4>2. Ahead' = Ahead BY <2>5, <4>1 DEF Counted
      <4> QED BY <2>1, <2>2, <4>1, <4>2 DEF Onwards
    <3> QED BY <2>8, <3>1, <3>2 DEF TearDown
  <2>9. CASE (\E e \in Event : CompositorSends(e)) \/ CompositorDies \/ Interrupt \/ UNCHANGED vars
    <3>1. UNCHANGED <<step, handles>>
      BY <2>9 DEF CompositorSends, CompositorDies, Interrupt, vars
    <3>2. step = "loop" => Ahead' <= Ahead
      BY <2>2, <2>5, <3>1, AskedStays DEF Counted
    <3>3. step # "loop" => Ahead' = Ahead
      BY <2>5, <3>1 DEF Counted, IInv, TypeOK, SetupStep, LoopStep
    <3> QED BY <2>2, <2>4, <3>1, <3>2, <3>3
  <2> QED BY <2>6, <2>7, <2>8, <2>9 DEF Next, Subscriber, AtRest
<1> QED BY <1>1, Inductive, InitCloseStage, NextCloseStage, InitErrRight, AskedStays, PTL DEF Spec, EndsOneWay
=============================================================================
