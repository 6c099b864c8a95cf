------------------------------ MODULE ShellState -----------------------------
(***************************************************************************)
(* The state of a platform's shell, its bridge and the application they    *)
(* start, and what is promised of it.  Shell has the operations.           *)
(***************************************************************************)
EXTENDS Integers

VARIABLES
  shell,        \* which of the three it is
  surface,      \* the size of the surface or the drawable; 0 if there is none
  insets, reader,   \* the system's safe area, and whether its screen reader is on
  visible,      \* iOS: the view is in a window; HarmonyOS: the page is shown
  foreground,   \* iOS
  display,      \* callbacks of the display come
  listening,    \* iOS: engineAlive; Android: the listener of the reader is added
  loaded,       \* HarmonyOS: g_bridge is set
  mainWindow,   \* HarmonyOS: "none", "asked" or "here"
  engine,       \* the variables of the bridge and of ui_application.cpp
  shown,        \* the place the last frame showed the application at
  touching, ids,    \* fingers on the screen, and the ids the shell has for them; 0 for none
  told              \* fingers whose touch the mounted application was told of

shellVars == <<shell, surface, insets, reader, visible, foreground, mainWindow, display,
               listening, loaded, engine, shown, touching, ids, told>>

\* What the application is laid out in.
Wanted(e) ==
  LET size == e.viewport - e.safe.before - e.safe.after
  IN [at |-> e.safe.before, size |-> IF size > 0 THEN size ELSE 0]

\* Whatever the order the system tells of surfaces, sizes and safe areas in, and
\* however often the engine was started, a mounted application lies in the surface
\* less the system's own areas.
FillsTheWindow ==
  engine.mounted =>
    /\ engine.viewport = surface
    /\ (shell = "harmony" => mainWindow = "here" /\ loaded) => engine.safe = insets
    /\ engine.bounds = Wanted(engine)

\* The engine is there as a whole or not at all, so that the next start is a clean
\* one; the application it runs has its storage, can call the platform, and knows
\* whether a screen reader is on.
EngineIsWhole ==
  /\ engine.compositor \in {0, surface}
  /\ LET here == engine.compositor # 0
     IN engine.frameFunc = here /\ engine.appStarted = here /\ engine.mounted = here
  /\ engine.mounted =>
       engine.stored /\ engine.invoker /\ (shell # "harmony" => engine.enabled = reader)

\* The pointers the application follows are the fingers it was told of, each with an
\* id of its own, over restarts under fingers that stay on the screen too.
FollowsTheFingers ==
  /\ engine.tracked = {ids[f] : f \in told}
  /\ \A f, g \in told : ids[f] = ids[g] => f = g

\* What is not shown as it is laid out has a frame on its way.
StaleIsPending == engine.mounted /\ shown # engine.bounds => engine.pending

ShellIsInStep == FillsTheWindow /\ EngineIsWhole /\ FollowsTheFingers /\ StaleIsPending
==============================================================================
