-------------------------------- MODULE Shell --------------------------------
(***************************************************************************)
(* The three platform shells around the engine, and the application they   *)
(* start: a SurfaceView under Android, a ViewController under iOS and an   *)
(* XComponent under HarmonyOS, which tell a bridge of surfaces, sizes,     *)
(* safe areas, frames and fingers; and ui_application.cpp, which lays the  *)
(* application out in what they told.  Everything here is on the UI        *)
(* thread.                                                                 *)
(*                                                                         *)
(* The system may do in any order what the platform allows, a start of the *)
(* engine may fail, and fingers may stay on the screen over a restart.     *)
(* One axis of the screen stands for both.                                 *)
(***************************************************************************)
EXTENDS ShellState, FiniteSets, FiniteSetsExt

CONSTANTS
  Sizes,    \* of a surface, greater than 0
  Areas,    \* safe areas: [before, after : Nat]
  Finger

\* What the constants may be; an instance states it as its assumption.
ShellAssumption ==
  /\ Sizes \subseteq Nat \ {0} /\ Areas \subseteq [before : Nat, after : Nat]
  /\ IsFiniteSet(Finger)

systemVars == <<insets, reader, visible, foreground, mainWindow>>
fingerVars == <<touching, ids, told>>
vars == shellVars

Nowhere == [at |-> 0, size |-> -1]
NoArea == [before |-> 0, after |-> 0]
Place == [at : Nat, size : Nat] \cup {Nowhere}
Ids == 1 .. Cardinality(Finger)

TypeOK ==
  /\ shell \in {"android", "ios", "harmony"}
  /\ surface \in Sizes \cup {0}
  /\ insets \in Areas \cup {NoArea}
  /\ reader \in BOOLEAN /\ visible \in BOOLEAN /\ foreground \in BOOLEAN
  /\ display \in BOOLEAN /\ listening \in BOOLEAN /\ loaded \in BOOLEAN
  /\ mainWindow \in {"none", "asked", "here"}
  /\ engine \in [compositor : Sizes \cup {0}, frameFunc : BOOLEAN, pending : BOOLEAN,
                 appStarted : BOOLEAN, invoker : BOOLEAN, class : BOOLEAN,
                 stored : BOOLEAN, handler : BOOLEAN, enabled : BOOLEAN,
                 mounted : BOOLEAN, bounds : Place, viewport : Sizes \cup {0},
                 safe : Areas \cup {NoArea}, tracked : SUBSET Ids]
  /\ shown \in Place
  /\ touching \subseteq Finger /\ told \subseteq touching /\ ids \in [Finger -> Ids \cup {0}]

Init ==
  /\ shell \in {"android", "ios", "harmony"}
  /\ surface = 0 /\ insets = NoArea /\ reader \in BOOLEAN
  /\ visible = FALSE /\ foreground = TRUE /\ display = FALSE /\ listening = FALSE
  /\ loaded = FALSE /\ mainWindow = "none"
  /\ engine = [compositor |-> 0, frameFunc |-> FALSE, pending |-> FALSE,
               appStarted |-> FALSE, invoker |-> shell = "ios", class |-> FALSE,
               stored |-> FALSE, handler |-> FALSE, enabled |-> FALSE,
               mounted |-> FALSE, bounds |-> Nowhere, viewport |-> 0,
               safe |-> NoArea, tracked |-> {}]
  /\ shown = Nowhere
  /\ touching = {} /\ ids = [f \in Finger |-> 0] /\ told = {}

-----------------------------------------------------------------------------
(* The application and the frame scheduler *)

RequestRender(e) == [e EXCEPT !.pending = TRUE]

ApplyLayout(e) ==
  IF ~e.mounted \/ e.bounds = Wanted(e) THEN e
  ELSE RequestRender([e EXCEPT !.bounds = Wanted(e)])

SetViewportSize(e, size) == ApplyLayout([e EXCEPT !.viewport = size])

\* Slip: the new area waits for the next size.
SafeAreaNoted(e, area) == [e EXCEPT !.safe = area]

SetSafeAreaInsets(e, area) == ApplyLayout([e EXCEPT !.safe = area])

ShutdownApp(e) ==
  RequestRender([e EXCEPT !.tracked = {}, !.mounted = FALSE, !.bounds = Nowhere])

\* The handler of a11y/enabled is there from the first application on.
RunApp(e) == ApplyLayout([ShutdownApp(e) EXCEPT !.mounted = TRUE, !.handler = TRUE])
CreateUi(e) == IF e.mounted THEN e ELSE RunApp(e)

PushEnabled(e, on) == IF e.handler THEN [e EXCEPT !.enabled = on] ELSE e

-----------------------------------------------------------------------------
(* The bridge, the same for the three but for the invoker *)

EngineReady(e) ==
  IF e.appStarted THEN e ELSE CreateUi([e EXCEPT !.appStarted = TRUE])

\* Slip: the application counts as started when the engine is not.
StartedAnyway(e, size, starts) ==
  IF e.compositor # 0 THEN e
  ELSE IF ~starts THEN [e EXCEPT !.appStarted = TRUE]
  ELSE RequestRender(EngineReady(SetViewportSize(
         [e EXCEPT !.compositor = size, !.frameFunc = TRUE], size)))

\* nativeInit, evkIosInit and OnSurfaceCreatedCB: all or nothing.
Started(e, size, starts) ==
  IF e.compositor # 0 \/ ~starts THEN e
  ELSE RequestRender(EngineReady(SetViewportSize(
         [e EXCEPT !.compositor = size, !.frameFunc = TRUE], size)))

Resized(e, size) ==
  RequestRender([SetViewportSize(e, size) EXCEPT
                   !.compositor = IF @ = 0 THEN 0 ELSE size])

\* Slip: the next engine does not start the application.
DestroyedButStarted(e) ==
  [ShutdownApp(e) EXCEPT !.pending = FALSE, !.frameFunc = FALSE, !.compositor = 0]

Destroyed(e) ==
  [ShutdownApp(e) EXCEPT !.pending = FALSE, !.frameFunc = FALSE, !.appStarted = FALSE,
                         !.compositor = 0]

\* Android: the invoker comes with the global reference to the class.
WithInvoker(e) == IF e.class THEN e ELSE [e EXCEPT !.class = TRUE, !.invoker = TRUE]

\* Slip: the reference is kept.
WithoutInvokerButClass(e) == [e EXCEPT !.invoker = FALSE]

WithoutInvoker(e) == [e EXCEPT !.class = FALSE, !.invoker = FALSE]
Stored(e) == [e EXCEPT !.stored = TRUE]

\* beginFrame: what is pending is drawn if there is an engine.
BeginFrame ==
  /\ display
  /\ IF engine.frameFunc /\ engine.pending
       THEN engine' = [engine EXCEPT !.pending = FALSE] /\ shown' = engine.bounds
       ELSE UNCHANGED <<engine, shown>>
  /\ UNCHANGED <<shell, surface, systemVars, display, listening, loaded, fingerVars>>

-----------------------------------------------------------------------------
(* Android *)

AndroidCreated(size, starts) ==
  /\ shell = "android" /\ surface = 0
  /\ surface' = size
  /\ engine' = PushEnabled(Started(WithInvoker(Stored(engine)), size, starts), reader)
  /\ listening' = TRUE /\ display' = TRUE
  /\ UNCHANGED <<shell, systemVars, loaded, shown, fingerVars>>

AndroidDestroyed ==
  /\ shell = "android" /\ surface # 0
  /\ surface' = 0
  /\ engine' = WithoutInvoker(Destroyed(engine))
  /\ listening' = FALSE /\ display' = FALSE
  /\ shown' = Nowhere /\ told' = {}
  /\ UNCHANGED <<shell, systemVars, loaded, touching, ids>>

\* surfaceChanged, and OnSurfaceChangedCB under HarmonyOS.
SurfaceChanged(size) ==
  /\ shell \in {"android", "harmony"} /\ surface # 0
  /\ surface' = size
  /\ engine' = Resized(engine, size)
  /\ UNCHANGED <<shell, systemVars, display, listening, loaded, shown, fingerVars>>

-----------------------------------------------------------------------------
(* iOS *)

\* Slip: the state of VoiceOver is told before the application can hear.
StartEngineTellsFirst(inWindow, starts) ==
  IF listening \/ ~inWindow THEN UNCHANGED <<listening, display, engine>>
  ELSE /\ listening' = TRUE /\ display' = TRUE
       /\ engine' = Started(PushEnabled(Stored(engine), reader), surface, starts)

StartEngine(inWindow, starts) ==
  IF listening \/ ~inWindow THEN UNCHANGED <<listening, display, engine>>
  ELSE /\ listening' = TRUE /\ display' = TRUE
       /\ engine' = PushEnabled(Started(Stored(engine), surface, starts), reader)

StopEngine ==
  /\ listening' = FALSE /\ display' = FALSE
  /\ ids' = [f \in Finger |-> 0]
  /\ engine' = Destroyed(engine)
  /\ shown' = Nowhere /\ told' = {}

LayoutSubviews(size) ==
  /\ shell = "ios"
  /\ surface' = size
  /\ engine' = Resized(engine, size)
  /\ UNCHANGED <<shell, systemVars, display, listening, loaded, shown, fingerVars>>

ViewDidAppear(starts) ==
  /\ shell = "ios" /\ foreground /\ ~visible /\ surface # 0
  /\ visible' = TRUE
  /\ StartEngine(TRUE, starts)
  /\ UNCHANGED <<shell, surface, insets, reader, foreground, loaded, mainWindow, shown,
                 fingerVars>>

ViewWillDisappear ==
  /\ shell = "ios" /\ visible
  /\ visible' = FALSE
  /\ StopEngine
  /\ UNCHANGED <<shell, surface, insets, reader, foreground, loaded, mainWindow, touching>>

EnterBackground ==
  /\ shell = "ios" /\ foreground
  /\ foreground' = FALSE
  /\ StopEngine
  /\ UNCHANGED <<shell, surface, insets, reader, visible, loaded, mainWindow, touching>>

EnterForeground(starts) ==
  /\ shell = "ios" /\ ~foreground
  /\ foreground' = TRUE
  /\ StartEngine(visible, starts)
  /\ UNCHANGED <<shell, surface, insets, reader, visible, loaded, mainWindow, shown,
                 fingerVars>>

-----------------------------------------------------------------------------
(* HarmonyOS *)

\* reportSafeArea.
Reported(e, area, window, bridge) ==
  IF window = "here" /\ bridge THEN SetSafeAreaInsets(e, area) ELSE e

AboutToAppear ==
  /\ shell = "harmony" /\ ~visible /\ ~loaded
  /\ visible' = TRUE /\ mainWindow' = "asked"
  /\ UNCHANGED <<shell, surface, insets, reader, foreground, display, listening, loaded, engine,
                 shown, fingerVars>>

\* The promise of the main window is kept; one that a page which is gone still waits
\* for could only report the same again.
WindowIsHere ==
  /\ mainWindow = "asked"
  /\ mainWindow' = "here"
  /\ engine' = Reported(engine, insets, "here", loaded)
  /\ UNCHANGED <<shell, surface, insets, reader, visible, foreground, display, listening, loaded,
                 shown, fingerVars>>

\* Slip: the window may have been there before the bridge.
OnLoadReportsNothing ==
  /\ shell = "harmony" /\ visible /\ ~loaded
  /\ loaded' = TRUE /\ display' = TRUE
  /\ engine' = [Stored(engine) EXCEPT !.invoker = TRUE]
  /\ UNCHANGED <<shell, surface, systemVars, listening, shown, fingerVars>>

OnLoad ==
  /\ shell = "harmony" /\ visible /\ ~loaded
  /\ loaded' = TRUE /\ display' = TRUE
  /\ engine' = Reported([Stored(engine) EXCEPT !.invoker = TRUE], insets, mainWindow, TRUE)
  /\ UNCHANGED <<shell, surface, systemVars, listening, shown, fingerVars>>

HarmonyCreated(size, starts) ==
  /\ shell = "harmony" /\ loaded /\ surface = 0
  /\ surface' = size
  /\ engine' = Started(engine, size, starts)
  /\ UNCHANGED <<shell, systemVars, display, listening, loaded, shown, fingerVars>>

\* The frames go on.
HarmonyDestroyed ==
  /\ shell = "harmony" /\ surface # 0
  /\ surface' = 0
  /\ engine' = Destroyed(engine)
  /\ shown' = Nowhere /\ told' = {}
  /\ UNCHANGED <<shell, systemVars, display, listening, loaded, touching, ids>>

OnDestroy ==
  /\ shell = "harmony" /\ ~visible /\ loaded /\ surface = 0
  /\ loaded' = FALSE /\ display' = FALSE
  /\ UNCHANGED <<shell, surface, systemVars, listening, engine, shown, fingerVars>>

AboutToDisappear ==
  /\ shell = "harmony" /\ visible
  /\ visible' = FALSE /\ mainWindow' = "none" /\ display' = FALSE
  /\ UNCHANGED <<shell, surface, insets, reader, foreground, listening, loaded, engine, shown,
                 fingerVars>>

-----------------------------------------------------------------------------
(* What the system tells of *)

SafeAreaChanges(area) ==
  /\ insets' = area
  /\ engine' = IF shell = "harmony" THEN Reported(engine, area, mainWindow, loaded)
               ELSE SetSafeAreaInsets(engine, area)
  /\ UNCHANGED <<shell, surface, reader, visible, foreground, mainWindow, display, listening,
                 loaded, shown, fingerVars>>

\* Not told under HarmonyOS, nor while there is no engine.
ReaderSwitches ==
  /\ reader' = ~reader
  /\ engine' = IF listening THEN PushEnabled(engine, reader') ELSE engine
  /\ UNCHANGED <<shell, surface, insets, visible, foreground, mainWindow, display, listening,
                 loaded, shown, fingerVars>>

\* The least id that no finger has: MotionEvent's and touchPoints', and that of
\* allocSlotForTouch.
FreeId == Min({i \in Ids : \A f \in Finger : ids[f] # i})

\* The system tells only a view on the screen of new fingers.
TouchBegins(f) ==
  /\ f \notin touching /\ surface # 0 /\ (shell = "ios" => visible /\ foreground)
  /\ touching' = touching \cup {f}
  /\ ids' = [ids EXCEPT ![f] = FreeId]
  /\ engine' = [engine EXCEPT !.tracked = IF engine.mounted THEN @ \cup {FreeId}
                                          ELSE @ \ {FreeId}]
  /\ told' = IF engine.mounted THEN told \cup {f} ELSE told
  /\ UNCHANGED <<shell, surface, systemVars, display, listening, loaded, shown>>

\* Slip: a touch that is not in the table is taken for the first one.
IdForTouchOrFirst(f) == IF ids[f] = 0 THEN 1 ELSE ids[f]

\* idForTouch; 0 if the shell does not know the touch.
IdForTouch(f) == ids[f]

\* touchesEnded and touchesCancelled, ACTION_UP and ACTION_CANCEL.
TouchEnds(f) ==
  /\ f \in touching
  /\ touching' = touching \ {f} /\ told' = told \ {f}
  /\ ids' = [ids EXCEPT ![f] = 0]
  /\ engine' = [engine EXCEPT !.tracked = @ \ {IdForTouch(f)}]
  /\ UNCHANGED <<shell, surface, systemVars, display, listening, loaded, shown>>

-----------------------------------------------------------------------------

Next ==
  \/ BeginFrame
  \/ \E size \in Sizes : \E starts \in BOOLEAN :
       AndroidCreated(size, starts) \/ HarmonyCreated(size, starts)
  \/ \E size \in Sizes : SurfaceChanged(size) \/ LayoutSubviews(size)
  \/ AndroidDestroyed \/ HarmonyDestroyed
  \/ \E starts \in BOOLEAN : ViewDidAppear(starts) \/ EnterForeground(starts)
  \/ ViewWillDisappear \/ EnterBackground
  \/ AboutToAppear \/ WindowIsHere \/ OnLoad \/ OnDestroy \/ AboutToDisappear
  \/ \E area \in Areas : SafeAreaChanges(area)
  \/ ReaderSwitches
  \/ \E f \in Finger : TouchBegins(f) \/ TouchEnds(f)

\* The display calls back as long as it is asked to.
Spec == Init /\ [][Next]_vars /\ WF_vars(BeginFrame)

-----------------------------------------------------------------------------
(* Properties *)

\* A layout comes to be shown, unless the engine or its frames are stopped first.
LayoutIsShown ==
  engine.mounted /\ display /\ shown # engine.bounds
    ~> shown = engine.bounds \/ ~engine.mounted \/ ~display
=============================================================================
