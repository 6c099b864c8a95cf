------------------------------ MODULE MCThreads ------------------------------
(***************************************************************************)
(* Small instances of what threads hand to each other and the UI thread    *)
(* drives: frames to the raster thread (FramePipeline, with the two slots  *)
(* of the code), results of worker threads to the UI thread (WorkerPool,   *)
(* where task 2 has no onError), page transitions with callbacks that      *)
(* navigate (Navigation), and what the platforms tell the engine of their  *)
(* windows and fingers (Shell).                                            *)
(*                                                                         *)
(* They are checked side by side: "part", chosen once, says which of them  *)
(* runs, and the others rest in their initial states.                      *)
(***************************************************************************)
EXTENDS FramePipeline, WorkerPoolState, ShellState, NavigationState

CONSTANTS f1, f2

VARIABLES part, anims, ticks, pushed

MCFrame == {f1, f2}
MCBlank == f1

\* The larger window has room between the bars, the smaller one has none.
MCAreas == {[before |-> 1, after |-> 1], [before |-> 0, after |-> 3]}

Pool == INSTANCE WorkerPool WITH MaxPending <- 1, Handled <- {1}
Pages == INSTANCE Navigation WITH
  MaxPages <- 4, Steps <- 2, MaxCalls <- 2, MaxLate <- 1,
  CallsFrom <- {"entered", "popRestore", "undoEntered", "popEntered"},
  running <- ticks, made <- pushed
Platform == INSTANCE Shell WITH
  Sizes <- {2, 5}, Areas <- MCAreas, Finger <- {"left", "right"}

ASSUME MCPoolAssumption == Pool!PoolAssumption
ASSUME MCNavigationAssumption == Pages!NavigationAssumption
ASSUME MCShellAssumption == Platform!ShellAssumption

pagesVars == <<nav, routes, anims, ticks, calls, life, pushed, spoiled>>
suiteVars == <<part, pipelineVars, workerPoolVars, pagesVars, shellVars>>

InPipeline == part = "pipeline" /\ UNCHANGED <<part, workerPoolVars, pagesVars, shellVars>>
InPool == part = "pool" /\ UNCHANGED <<part, pipelineVars, pagesVars, shellVars>>
InPages == part = "pages" /\ UNCHANGED <<part, pipelineVars, workerPoolVars, shellVars>>
InShell == part = "shell" /\ UNCHANGED <<part, pipelineVars, workerPoolVars, pagesVars>>

SuiteInit ==
  /\ part \in {"pipeline", "pool", "pages", "shell"}
  /\ Init /\ Pool!Init /\ Pages!Init /\ Platform!Init
  /\ part # "shell" => shell = "android" /\ ~reader

\* Pages may rest for good; the threads may not, except where their own Next
\* lets them.
PagesRest == InPages /\ UNCHANGED pagesVars

SuiteNext ==
  \/ InPipeline /\ Next
  \/ InPool /\ Pool!Next
  \/ InPages /\ Pages!Next
  \/ PagesRest
  \/ InShell /\ Platform!Next

\* The fairness of FramePipeline, WorkerPool, Navigation and Shell.
SuiteSpec ==
  /\ SuiteInit /\ [][SuiteNext]_suiteVars
  /\ WF_suiteVars(InPipeline /\ UiReturns)
  /\ WF_suiteVars(InPipeline /\ RasterReturns)
  /\ WF_suiteVars(InPool /\ Pool!DrainUiTasks)
  /\ WF_suiteVars(InPool /\ Pool!UiCallReturns)
  /\ \A w \in Worker : WF_suiteVars(InPool /\ Pool!WorkerReturns(w))
  /\ WF_suiteVars(InPages /\ Pages!CallbackReturns)
  /\ WF_suiteVars(InPages /\ Pages!NextFrame)
  /\ WF_suiteVars(InPages /\ Pages!RunTick)
  /\ WF_suiteVars(InShell /\ Platform!BeginFrame)

\* The types of the four.
Types == TypeOK /\ Pool!TypeOK /\ Pages!TypeOK /\ Platform!TypeOK

\* What was begun ends: a task whose handle is held is answered, the destructor
\* of the pool returns (worker_pool.h, compute; worker_pool.cpp, stop), a
\* transition is over some frames later (navigation_stack.cpp, animate), and a layout
\* comes to be shown while the display calls back (ui_application.cpp, applyLayout).
WhatBeginsEnds ==
  /\ Pool!EveryTaskAnswered /\ Pool!DestructorReturns
  /\ Pages!TransitionEnds
  /\ Platform!LayoutIsShown
=============================================================================
