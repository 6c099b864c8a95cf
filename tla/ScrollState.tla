----------------------------- MODULE ScrollState -----------------------------
(***************************************************************************)
(* The state of a scrolling view, core/src/ui/view/scroll_control.cpp, the *)
(* range of its offset, and what is promised of it.  ScrollControl has the *)
(* operations.                                                             *)
(***************************************************************************)
EXTENDS Integers, Sequences

CONSTANT Axis          \* {"x", "y"}

None == "none"

VARIABLES
  raw, offset,         \* rawX, rawY and offsetX, offsetY
  content, viewport,   \* contentWidth, contentHeight and the size of the view
  panAxis, animating,
  touching,            \* fingers on the view or on a view in it
  dragged,             \* one of them drags the view: isPanGestureActive
  animations,          \* g_animations
  running,             \* what tickAnimations has taken from there and not called yet
  inCallback,          \* the tick under way has called onScroll: "fling", "arrived", "none"
  cut                  \* a press stopped the view and nothing has moved it since, or
                       \* an animation began while a stopped one waited for its frame

scrollVars == <<raw, offset, content, viewport, panAxis, animating, touching, dragged,
                animations, running, inCallback, cut>>

-----------------------------------------------------------------------------
(* Geometry *)

Least(m, n) == IF m < n THEN m ELSE n
Greatest(m, n) == IF m > n THEN m ELSE n
Clamp(n, top) == Greatest(0, Least(n, top))

MaxOffset(size, port) == [a \in Axis |-> Greatest(0, size[a] - port[a])]
maxOffset == MaxOffset(content, viewport)
Clamped(position, top) == [a \in Axis |-> Clamp(position[a], top[a])]
Within(position) == position = Clamped(position, maxOffset)

-----------------------------------------------------------------------------
(* Properties *)

\* The UI thread is in no tick and at none of its callbacks.
BetweenTicks == running = << >> /\ inCallback = None

AtRest == touching = 0 /\ ~animating /\ BetweenTicks

\* A view no finger is on and nothing moves shows its content, not the void
\* beyond it, whatever drags, flings, rebounds and new sizes it went through
\* (handlePan, tickScrollAnimation, snapOffset).  Two cases apart: a press that
\* stopped it and was let go, and a stopped animation that a new one, begun
\* before the next frame, has brought back to life.
RestsInRange == AtRest /\ ~cut => Within(offset)

\* The view a finger drags follows that finger: no animation that still waits
\* for a frame moves it (handlePan Begin, tickScrollAnimation).
FollowsTheFinger ==
  [][dragged /\ running # << >> /\ inCallback = None => UNCHANGED <<raw, offset>>]_scrollVars
=============================================================================
