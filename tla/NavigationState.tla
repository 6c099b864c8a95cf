--------------------------- MODULE NavigationState ---------------------------
(***************************************************************************)
(* The stack of pages (core/src/ui/navigation/navigation_stack.cpp), the   *)
(* callbacks its calls stand in and what is promised of both.  Navigation  *)
(* has the operations.                                                     *)
(***************************************************************************)
EXTENDS Integers, Sequences

VARIABLES
  nav,          \* NavigationView's fields, and the place of each page view
  routes,       \* Impl::routes
  calls,        \* the calls of the navigator under way, innermost first
  life,         \* the last route event each page got
  spoiled       \* history: a tick ran after its transition was over

-----------------------------------------------------------------------------
(* Callbacks *)

\* Where a call stands, and the event its callback is handling.
EventAt ==
  [leave |-> "WillLeave", enter |-> "WillEnter", restore |-> "DidEnter",
   left |-> "DidLeave", entered |-> "DidEnter",
   popLeave |-> "WillLeave", popEnter |-> "WillEnter", popRestore |-> "DidEnter",
   undoLeft |-> "DidLeave", undoEntered |-> "DidEnter",
   popLeft |-> "DidLeave", popEntered |-> "DidEnter"]

Event(c) == EventAt[c.at]

\* A call works on the page that moves and on the one below it.
Target(c) ==
  IF c.at \in {"leave", "restore", "left", "popEnter", "undoLeft", "popEntered"}
  THEN c.below ELSE c.page

-----------------------------------------------------------------------------
(* Properties *)

\* Nothing is moving and no callback is running.
Settled == calls = << >> /\ ~nav.transitioning

\* The page on top is in its place and visible, those below are hidden.
TopIsShown ==
  \A i \in DOMAIN nav.pages :
    LET p == nav.pages[i]
    IN  /\ nav.visible[p] = (i = Len(nav.pages))
        /\ i = Len(nav.pages) => nav.x[p] = 0

\* The page on top got its DidEnter last, those below their DidLeave.
WillsAnswered ==
  \A i \in DOMAIN nav.pages :
    life[nav.pages[i]] = IF i = Len(nav.pages) THEN "DidEnter" ELSE "DidLeave"

\* Once a push, a pop, a veto or a forced landing is over, what the user sees
\* is the top of the stack (unless a tick ran on after its transition, which is
\* the subject of runs of its own).
ScreenShowsTop == Settled /\ ~spoiled => TopIsShown

\* ... and route events come in pairs: every WillEnter or WillLeave that was not
\* vetoed has been answered, and a page is told that it entered or left only when
\* a Will announced a change to it, so a landing that comes twice does not repeat
\* its callbacks.
WillsArePaired ==
  /\ [](Settled /\ ~spoiled => WillsAnswered)
  /\ [][(calls' # calls /\ Len(calls') >= Len(calls)
           /\ Event(Head(calls')) \in {"DidEnter", "DidLeave"})
          => life[Target(Head(calls'))] \in {"WillEnter", "WillLeave"}]_calls

\* The stack of views and the routing table name the same pages: no view in
\* the stack without its element, no element that is never unmounted.
RoutesArePages == calls = << >> => nav.pages = routes

\* What is on the screen and what the routing table says agree on the stack of
\* pages once the navigator rests.
PagesAreShownAndRouted == ScreenShowsTop /\ RoutesArePages
=============================================================================
