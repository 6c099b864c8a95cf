----------------------------- MODULE MCGestures -----------------------------
(***************************************************************************)
(* Small instances of the components that react to fingers: a list that    *)
(* scrolls with a picture to zoom and a row to tap (PointerInput), the     *)
(* motion of a scrolling view (ScrollControl) and a button (ButtonPress).  *)
(*                                                                         *)
(* They are checked side by side: "part", chosen once, says which of them  *)
(* runs, and the others rest in one initial state.                         *)
(***************************************************************************)
EXTENDS PointerInput, ScrollState, ButtonState

VARIABLE part

MCParent == [v \in View |-> IF v = "list" THEN NoView ELSE "list"]
Size(w, h) == [a \in {"x", "y"} |-> IF a = "x" THEN w ELSE h]

\* A page that scrolls one way, or two that scroll further.
Scroll == INSTANCE ScrollControl WITH
  Contents <- {Size(1, 2), Size(1, 3)},
  Viewports <- {Size(1, 1), Size(1, 2)}, Step <- 1, Speed <- 1, MaxTouches <- 2,
  MaxAnimations <- 2, MaxRaw <- 1
Button == INSTANCE ButtonPress WITH MaxClicks <- 2

ASSUME MCScrollAssumption == Scroll!ScrollAssumption

suiteVars == <<part, vars, scrollVars, buttonVars>>

InArena == part = "arena" /\ UNCHANGED <<part, scrollVars, buttonVars>>
InScroll == part = "scroll" /\ UNCHANGED <<part, vars, buttonVars>>
InButton == part = "button" /\ UNCHANGED <<part, vars, scrollVars>>

SuiteInit ==
  /\ part \in {"arena", "scroll", "button"}
  /\ Init /\ Scroll!Init /\ Button!Init
  /\ part # "scroll" => content = Size(1, 2) /\ viewport = Size(1, 1)
  /\ part # "button" => enabled /\ ~longPress

SuiteNext ==
  \/ InArena /\ Next
  \/ InScroll /\ Scroll!Next
  \/ InButton /\ Button!Next

\* The fairness of PointerInput and of ScrollControl.
SuiteSpec ==
  /\ SuiteInit /\ [][SuiteNext]_suiteVars
  /\ WF_suiteVars(InArena /\ HandlerGoesOn)
  /\ SF_suiteVars(InArena /\ TimePasses) /\ SF_suiteVars(InArena /\ Tick)
  /\ WF_suiteVars(InScroll /\ Scroll!Tick)

\* The types of the three, and no finger, tap or session that refers to a view
\* that is gone.
Types == TypeOK /\ Scroll!TypeOK /\ Button!TypeOK

\* Gesture timers and scroll animations do what they wait for and end: a page
\* nobody touches comes to ask for no more frames (pointer_input.cpp,
\* gestureTimerTick; scroll_control.cpp, tickScrollAnimation).
TimersAndAnimationsEnd == TimersFire /\ Scroll!AnimationsEnd
=============================================================================
