---------------------------- MODULE ScrollControl ---------------------------
(***************************************************************************)
(* A scrolling view, core/src/ui/view/scroll_control.cpp, with the         *)
(* animations it gives to core/src/ui/animation_scheduler.cpp.             *)
(*                                                                         *)
(* Offsets are integers, one tick of a fling moves by its velocity, and a  *)
(* rebound takes three ticks.  The view's callback onScroll may change the *)
(* content or set the offset while the tick that called it is under way.   *)
(***************************************************************************)
EXTENDS ScrollState

CONSTANTS
  Contents,      \* sizes the content may have, [Axis -> Nat]
  Viewports,     \* sizes the view may have, [Axis -> Nat]
  Step,          \* how far one move of a finger goes
  Speed,         \* the largest velocity of a fling
  MaxTouches,    \* bound on the fingers
  MaxAnimations, \* bound on the animations that wait for the next frame
  MaxRaw         \* bound on how far a finger drags

view == <<raw, offset, content, viewport, panAxis, animating>>
vars == scrollVars

\* What the constants may be; an instance states it as its assumption.
ScrollAssumption ==
  /\ Contents \subseteq [Axis -> Nat] /\ Viewports \subseteq [Axis -> Nat]
  /\ None \notin Axis
  /\ Step \in Nat /\ Speed \in Nat /\ MaxTouches \in Nat

Velocity == [Axis -> -Speed .. Speed]
Zero == [a \in Axis |-> 0]
Ticks == [view : {"spring"}, from : [Axis -> Int], to : [Axis -> Int], age : 0 .. 2]
           \cup [view : {"fling"}, velocity : Velocity, started : BOOLEAN]

TypeOK ==
  /\ raw \in [Axis -> Int] /\ offset \in [Axis -> Int]
  /\ content \in Contents /\ viewport \in Viewports
  /\ panAxis \in Axis \cup {None}
  /\ animating \in BOOLEAN /\ dragged \in BOOLEAN /\ cut \in BOOLEAN
  /\ touching \in 0 .. MaxTouches
  /\ \A i \in DOMAIN animations : animations[i] \in Ticks
  /\ \A i \in DOMAIN running : running[i] \in Ticks
  /\ inCallback \in {"fling", "arrived", None}

-----------------------------------------------------------------------------
(* Geometry *)

\* The rubber band: what is out of range shows by half, the code's 0.45.
DampedOffset(position) ==
  [a \in Axis |->
     LET over == position[a] - Clamp(position[a], maxOffset[a])
     IN Clamp(position[a], maxOffset[a])
          + IF over < 0 THEN -((1 - over) \div 2) ELSE (1 + over) \div 2]

RawOverscrolled(position) == ~Within(position)

-----------------------------------------------------------------------------

Init ==
  /\ raw = Zero /\ offset = Zero
  /\ content \in Contents /\ viewport \in Viewports
  /\ panAxis = None /\ animating = FALSE
  /\ touching = 0 /\ dragged = FALSE
  /\ animations = << >> /\ running = << >>
  /\ inCallback = None
  /\ cut = FALSE

-----------------------------------------------------------------------------
(* Fingers *)

\* Down on the view itself: stops what moves, and takes the shown position
\* for its own unless a finger already drags it.
Down ==
  /\ BetweenTicks
  /\ touching < MaxTouches
  /\ touching' = touching + 1
  /\ animating' = FALSE
  /\ IF dragged
     THEN UNCHANGED <<raw, panAxis>>
     ELSE raw' = offset /\ panAxis' = None
  /\ cut' = (cut \/ (animating /\ ~dragged))
  /\ UNCHANGED <<offset, content, viewport, dragged, animations, running, inCallback>>

\* Down on a view in it, which takes the press.
DownOnChild ==
  /\ BetweenTicks
  /\ touching < MaxTouches
  /\ touching' = touching + 1
  /\ UNCHANGED <<view, dragged, animations, running, inCallback, cut>>

\* A finger that does not drag goes up or is cancelled: nothing is told.
UpWithoutPan ==
  /\ BetweenTicks
  /\ touching > IF dragged THEN 1 ELSE 0
  /\ touching' = touching - 1
  /\ UNCHANGED <<view, dragged, animations, running, inCallback, cut>>

Moves == {d \in [Axis -> -Step .. Step] : d # Zero}
Distance(d, a) == IF d[a] < 0 THEN -d[a] ELSE d[a]

\* handlePan Begin: locks the axis of the larger distance that can scroll.
LockedAxis(d) ==
  LET can == {a \in Axis : maxOffset[a] > 0}
      main == {a \in can : \A b \in can \ {a} :
                 Distance(d, a) > Distance(d, b) \/ (a = "y" /\ Distance(d, a) = Distance(d, b))}
  IN IF main = {} THEN panAxis ELSE CHOOSE a \in main : TRUE

Along(axis, d) == [a \in Axis |-> IF a = axis THEN d[a] ELSE 0]
Minus(p, d) == [a \in Axis |-> p[a] - d[a]]
Near(position) == \A a \in Axis : position[a] \in -MaxRaw .. maxOffset[a] + MaxRaw

\* Slip: a drag that does not stop the animation.
PanBeginRunsOn(d) ==
  /\ BetweenTicks
  /\ touching > 0 /\ ~dragged
  /\ dragged' = TRUE
  /\ panAxis' = LockedAxis(d)
  /\ raw' = Minus(offset, Along(LockedAxis(d), d))
  /\ Near(raw')
  /\ offset' = DampedOffset(raw')
  /\ cut' = FALSE
  /\ UNCHANGED <<content, viewport, touching, animating, animations, running, inCallback>>

PanBegin(d) ==
  /\ BetweenTicks
  /\ touching > 0 /\ ~dragged
  /\ dragged' = TRUE
  /\ animating' = FALSE
  /\ panAxis' = LockedAxis(d)
  /\ raw' = Minus(offset, Along(LockedAxis(d), d))
  /\ Near(raw')
  /\ offset' = DampedOffset(raw')
  /\ cut' = FALSE
  /\ UNCHANGED <<content, viewport, touching, animations, running, inCallback>>

PanUpdate(d) ==
  /\ BetweenTicks
  /\ dragged
  /\ raw' = Minus(raw, Along(panAxis, d))
  /\ Near(raw')
  /\ offset' = DampedOffset(raw')
  /\ UNCHANGED <<content, viewport, panAxis, animating, touching, dragged, animations,
                 running, inCallback, cut>>

\* enterSpring, from the position shown to the nearest in range.
Spring(shown, position) ==
  [view |-> "spring", from |-> shown, to |-> Clamped(position, maxOffset), age |-> 0]
Fling(v) == [view |-> "fling", velocity |-> v, started |-> FALSE]

StartAnimation(tick) ==
  /\ Len(animations) < MaxAnimations
  /\ animations' = Append(animations, tick)
  /\ animating' = TRUE

\* Slip: a cancelled drag ends as if it had not left the range.
PanEndStays(cancelled, v) ==
  /\ BetweenTicks
  /\ dragged /\ dragged' = FALSE
  /\ touching' = touching - 1
  /\ panAxis' = None
  /\ IF RawOverscrolled(raw) /\ ~cancelled
     THEN /\ StartAnimation(Spring(offset, raw))
          /\ raw' = Clamped(raw, maxOffset)
     ELSE /\ IF ~cancelled /\ Along(panAxis, v) # Zero
             THEN StartAnimation(Fling(Along(panAxis, v)))
             ELSE UNCHANGED <<animations, animating>>
          /\ UNCHANGED raw
  /\ cut' = (animations # << >> /\ animating')
  /\ UNCHANGED <<offset, content, viewport, running, inCallback>>

\* handlePan End, with the speed of the finger, or Cancel.
PanEnd(cancelled, v) ==
  /\ BetweenTicks
  /\ dragged /\ dragged' = FALSE
  /\ touching' = touching - 1
  /\ panAxis' = None
  /\ IF RawOverscrolled(raw)
     THEN /\ StartAnimation(Spring(offset, raw))
          /\ raw' = Clamped(raw, maxOffset)
     ELSE /\ IF ~cancelled /\ Along(panAxis, v) # Zero
             THEN StartAnimation(Fling(Along(panAxis, v)))
             ELSE UNCHANGED <<animations, animating>>
          /\ UNCHANGED raw
  /\ cut' = (animations # << >> /\ animating')
  /\ UNCHANGED <<offset, content, viewport, running, inCallback>>

-----------------------------------------------------------------------------
(* A frame *)

\* tickAnimations takes the list; what goes on is put on a new one.
TickAnimations ==
  /\ BetweenTicks
  /\ animations # << >>
  /\ running' = animations
  /\ animations' = << >>
  /\ UNCHANGED <<view, touching, dragged, inCallback, cut>>

Ticking(kind) == inCallback = None /\ running # << >> /\ Head(running).view = kind
Now == Head(running)

\* tickScrollAnimation of a view that has been stopped.
TickStopped ==
  /\ inCallback = None /\ running # << >>
  /\ ~animating
  /\ running' = Tail(running)
  /\ UNCHANGED <<view, touching, dragged, animations, inCallback, cut>>

\* Three ticks, at t = 0, in between and at the end, where 7/8 is easeOutCubic(1/2).
Eased(age) == CASE age = 0 -> 0 [] age = 1 -> 7 [] age = 2 -> 8

\* Slip: the time of the first tick is taken at every tick.
TickSpringAnew ==
  /\ Ticking("spring") /\ animating
  /\ offset' = Now.from
  /\ animations' = Append(animations, Now)
  /\ running' = Tail(running)
  /\ UNCHANGED <<raw, content, viewport, panAxis, animating, touching, dragged, inCallback, cut>>

TickSpring ==
  /\ Ticking("spring") /\ animating
  /\ offset' = [a \in Axis |-> Now.from[a] + ((Now.to[a] - Now.from[a]) * Eased(Now.age)) \div 8]
  /\ IF Now.age = 2
     THEN inCallback' = "arrived" /\ UNCHANGED <<animations, running>>
     ELSE /\ animations' = Append(animations, [Now EXCEPT !.age = @ + 1])
          /\ running' = Tail(running)
          /\ UNCHANGED inCallback
  /\ UNCHANGED <<raw, content, viewport, panAxis, animating, touching, dragged, cut>>

Arrived ==
  /\ inCallback = "arrived" /\ inCallback' = None
  /\ animating' = FALSE
  /\ running' = Tail(running)
  /\ UNCHANGED <<raw, offset, content, viewport, panAxis, touching, dragged, animations, cut>>

\* The first tick of a fling only takes the time.
FlingStarts ==
  /\ Ticking("fling") /\ animating
  /\ ~Now.started
  /\ animations' = Append(animations, [Now EXCEPT !.started = TRUE])
  /\ running' = Tail(running)
  /\ UNCHANGED <<view, touching, dragged, inCallback, cut>>

FlingMoves ==
  /\ Ticking("fling") /\ animating
  /\ Now.started
  /\ raw' = [a \in Axis |-> raw[a] + Now.velocity[a]]
  /\ offset' = DampedOffset(raw')
  /\ inCallback' = "fling"
  /\ UNCHANGED <<content, viewport, panAxis, animating, touching, dragged, animations,
                 running, cut>>

DecayVelocity(v) == [a \in Axis |-> IF v[a] > 0 THEN v[a] - 1 ELSE Least(0, v[a] + 1)]

\* Slip: out of range, the fling goes on.
FlingGoesOnAndOn ==
  /\ inCallback = "fling" /\ inCallback' = None
  /\ running' = Tail(running)
  /\ LET slower == DecayVelocity(Now.velocity)
     IN IF slower = Zero
        THEN animating' = FALSE /\ UNCHANGED animations
        ELSE /\ animations' = Append(animations, [Now EXCEPT !.velocity = slower])
             /\ UNCHANGED animating
  /\ UNCHANGED <<raw, offset, content, viewport, panAxis, touching, dragged, cut>>

\* The rest of the tick, after onScroll: into a rebound out of range, else slower.
FlingGoesOn ==
  /\ inCallback = "fling" /\ inCallback' = None
  /\ running' = Tail(running)
  /\ IF RawOverscrolled(raw)
     THEN /\ animations' = Append(animations, Spring(offset, raw))
          /\ raw' = Clamped(raw, maxOffset)
          /\ UNCHANGED animating
     ELSE /\ LET slower == DecayVelocity(Now.velocity)
             IN IF slower = Zero
                THEN animating' = FALSE /\ UNCHANGED animations
                ELSE /\ animations' = Append(animations, [Now EXCEPT !.velocity = slower])
                     /\ UNCHANGED animating
          /\ UNCHANGED raw
  /\ UNCHANGED <<offset, content, viewport, panAxis, touching, dragged, cut>>

-----------------------------------------------------------------------------
(* The application, between events or in onScroll, and the parent's layout *)

AppRuns == running = << >> \/ inCallback # None

\* snapOffset
SnapOffset(position, top) ==
  /\ animating' = FALSE
  /\ raw' = Clamped(position, top)
  /\ offset' = raw'
  /\ cut' = FALSE

\* Slip: a new size of the content leaves the offset to the layout.
UpdateOnlySize(size) ==
  /\ AppRuns
  /\ content' = size
  /\ UNCHANGED <<raw, offset, animating, cut, viewport, panAxis, touching, dragged,
                 animations, running, inCallback>>

\* updateScrollView: a rebuild with the same size leaves everything alone.
UpdateScrollView(size) ==
  /\ AppRuns
  /\ size # content
  /\ content' = size
  /\ SnapOffset(raw, MaxOffset(size, viewport))
  /\ UNCHANGED <<viewport, panAxis, touching, dragged, animations, running, inCallback>>

SetScrollOffset(position) ==
  /\ AppRuns
  /\ SnapOffset(position, maxOffset)
  /\ UNCHANGED <<content, viewport, panAxis, touching, dragged, animations, running, inCallback>>

\* performLayout with another size of the view; the same size changes nothing.
PerformLayout(size) ==
  /\ BetweenTicks
  /\ size # viewport
  /\ viewport' = size
  /\ animating' = FALSE
  /\ raw' = Clamped(raw, MaxOffset(content, size))
  /\ offset' = raw'
  /\ cut' = FALSE
  /\ UNCHANGED <<content, panAxis, touching, dragged, animations, running, inCallback>>

\* performSemanticsAction: a page along the axis that can scroll, y first.
PerformSemanticsAction(direction) ==
  /\ BetweenTicks
  /\ \E a \in Axis :
       /\ maxOffset[a] > 0 /\ (a = "y" \/ maxOffset["y"] = 0)
       /\ LET target == [offset EXCEPT ![a] = Clamp(@ + direction * viewport[a], maxOffset[a])]
          IN target # offset /\ raw' = target /\ offset' = target
  /\ UNCHANGED <<content, viewport, panAxis, animating, touching, dragged, animations,
                 running, inCallback, cut>>

-----------------------------------------------------------------------------

Tick ==
  \/ TickAnimations \/ TickStopped \/ TickSpring \/ Arrived
  \/ FlingStarts \/ FlingMoves \/ FlingGoesOn

Next ==
  \/ Down \/ DownOnChild \/ UpWithoutPan
  \/ \E d \in Moves : PanBegin(d) \/ PanUpdate(d)
  \/ \E cancelled \in BOOLEAN, v \in Velocity : PanEnd(cancelled, v)
  \/ Tick
  \/ \E size \in Contents : UpdateScrollView(size)
  \/ \E position \in [Axis -> 0 .. 1] : SetScrollOffset(position)
  \/ \E size \in Viewports : PerformLayout(size)
  \/ \E direction \in {-1, 1} : PerformSemanticsAction(direction)

\* The platform asks for frames as long as there are animations.
Spec == Init /\ [][Next]_vars /\ WF_vars(Tick)

-----------------------------------------------------------------------------
(* Properties *)

\* scroll_control.cpp:47: when let go out of range the view rebounds.
RestsInRangeAlways == AtRest => Within(offset)

\* Every animation ends, by itself or because the view was stopped: frames are
\* not asked for for ever.
AnimationsEnd == []<>((animations = << >> /\ BetweenTicks) \/ touching > 0)
=============================================================================
