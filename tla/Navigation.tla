----------------------------- MODULE Navigation -----------------------------
(***************************************************************************)
(* evk::ui::Navigator and its NavigationView (core/src/ui/navigation/      *)
(* navigation_stack.cpp) with the animation scheduler that drives their    *)
(* transitions (core/src/ui/animation_scheduler.cpp).  All of it runs on   *)
(* the UI thread; what interleaves are pushes, pops, frames and layouts,   *)
(* and the application code in the route callbacks, which can veto, can    *)
(* rebuild (a layout of the whole tree) and can navigate again.            *)
(*                                                                         *)
(* A call of the navigator is a frame on the stack "calls"; a frame stands *)
(* in one callback, and a step returns from that callback and runs on to   *)
(* the next.  An offset is counted in animation steps, Steps of them from  *)
(* the home position to the right edge; the page left behind by a push     *)
(* goes to the left (a fraction of the width in the code).                 *)
(***************************************************************************)
EXTENDS Integers, Sequences, SequencesExt, NavigationState

CONSTANTS
  MaxPages,     \* bound on the calls of push
  Steps,        \* progress of a transition is counted 0 .. Steps
  MaxCalls,     \* bound on calls nested in callbacks
  MaxLate,      \* bound on the ticks that outlive their transition at a time
  CallsFrom     \* the callbacks that push or pop in their turn

\* What the constants may be; an instance states it as its assumption.
NavigationAssumption ==
  /\ MaxPages \in Nat /\ Steps \in Nat \ {0} /\ MaxCalls \in Nat \ {0} /\ MaxLate \in Nat
  /\ CallsFrom \subseteq {"restore", "left", "entered", "popRestore",
                           "undoLeft", "undoEntered", "popLeft", "popEntered"}

Page == 1 .. MaxPages
NoPage == 0
NotStarted == -1

VARIABLES
  anims,        \* g_animations: kind and time of each transition's tick
  running,      \* the ticks of this frame that have not run yet
  made          \* pages pushed so far

vars == <<nav, routes, anims, running, calls, life, made, spoiled>>

Init ==
  /\ nav = [pages |-> << >>, transitioning |-> FALSE, transitionKind |-> "None",
            popLifecycleActive |-> FALSE, progress |-> 0,
            x |-> [p \in Page |-> 0], visible |-> [p \in Page |-> TRUE]]
  /\ routes = << >> /\ anims = << >> /\ running = << >> /\ calls = << >>
  /\ life = [p \in Page |-> "new"]
  /\ made = 0
  /\ spoiled = FALSE

Top(n) == Last(n.pages)
Below(n) == n.pages[Len(n.pages) - 1]
Place(n, p, offset) == [n EXCEPT !.x[p] = offset]
Show(n, p) == [n EXCEPT !.visible[p] = TRUE]
Hide(n, p) == [n EXCEPT !.visible[p] = FALSE]
\* The views of these pages are destroyed.
Destroy(n, ps) ==
  [n EXCEPT !.x = [p \in Page |-> IF p \in ps THEN 0 ELSE @[p]],
            !.visible = [p \in Page |-> p \in ps \/ @[p]]]
AtRest(n) == [n EXCEPT !.transitioning = FALSE, !.transitionKind = "None"]

-----------------------------------------------------------------------------
(* What the view does to itself: functions of its state *)

ApplyPush(n, p) ==
  IF Len(n.pages) < 2 THEN n
  ELSE [Place(Place(Show(n, Below(n)), Below(n), -p), Top(n), Steps - p)
          EXCEPT !.progress = p]

ApplyPop(n, p) ==
  IF Len(n.pages) < 2 THEN n
  ELSE [Place(Place(Show(n, Below(n)), Below(n), p - Steps), Top(n), p)
          EXCEPT !.progress = p]

Apply(n, kind, p) == IF kind = "Push" THEN ApplyPush(n, p) ELSE ApplyPop(n, p)

\* A layout at the same size replays the offsets of a running transition.
Relayout(n) ==
  IF n.transitioning THEN Apply(n, n.transitionKind, n.progress) ELSE n

\* Slip: the pages are put in place, the transition goes on.
LandPushStillMoving(n) ==
  LET homed == Place(n, Top(n), 0)
  IN  IF Len(n.pages) > 1 THEN Hide(Place(homed, Below(n), 0), Below(n)) ELSE homed

LandPush(n) ==
  LET homed == Place(AtRest(n), Top(n), 0)
  IN  IF Len(n.pages) > 1 THEN Hide(Place(homed, Below(n), 0), Below(n)) ELSE homed

UndoPop(n) == Hide(Place(Place(AtRest(n), Top(n), 0), Below(n), 0), Below(n))

\* Slip: the flags are reset after the callbacks (the regression of a16c83e).
LandPopStillMoving(n) ==
  [Show(Place(n, Below(n), 0), Below(n)) EXCEPT !.pages = Front(n.pages)]

LandPop(n) ==
  [Show(Place(AtRest(n), Below(n), 0), Below(n)) EXCEPT !.pages = Front(n.pages)]

Start(n, kind) ==
  [n EXCEPT !.transitioning = TRUE, !.transitionKind = kind, !.progress = 0]

NewTick(kind) == [kind |-> kind, time |-> NotStarted, stale |-> FALSE]

-----------------------------------------------------------------------------
(* Callbacks *)

NewCall(at, page, below, animated) ==
  [at |-> at, page |-> page, below |-> below, animated |-> animated, was |-> "new"]

\* dispatchRouteEvent: the callback of c starts, above the calls in rest.
Dispatch(c, rest) ==
  /\ calls' = <<[c EXCEPT !.was =
                    IF Event(c) \in {"WillEnter", "WillLeave"} THEN life[Target(c)] ELSE "new"]>>
              \o rest
  /\ life' = [life EXCEPT ![Target(c)] = Event(c)]

GoOn(at) == Dispatch([Head(calls) EXCEPT !.at = at], Tail(calls))

Idle == calls = << >> /\ running = << >>

InApplication ==
  \/ Idle
  \/ /\ calls # << >>
     /\ Head(calls).at \in CallsFrom /\ Len(calls) < MaxCalls

-----------------------------------------------------------------------------
(* push *)

\* Refused in a transition: the page is mounted, and unmounted, which is a layout.
RefusePush ==
  /\ InApplication
  /\ made < MaxPages
  /\ nav.transitioning
  /\ made' = made + 1
  /\ life' = [life EXCEPT ![made'] = "gone"]
  /\ nav' = Relayout(nav)
  /\ UNCHANGED <<routes, anims, running, calls, spoiled>>

Push(animated) ==
  /\ InApplication
  /\ made < MaxPages
  /\ ~nav.transitioning
  /\ made' = made + 1
  /\ routes' = Append(routes, made')
  /\ IF nav.pages = << >>
     THEN Dispatch(NewCall("enter", made', NoPage, animated), calls)
     ELSE Dispatch(NewCall("leave", made', Top(nav), animated), calls)
  /\ UNCHANGED <<nav, anims, running, spoiled>>

\* The veto of the page that would leave, or of the new one on an empty stack.
\* Navigator::push takes back the last route.
PushFails(c, lives) ==
  /\ life' = [lives EXCEPT ![Last(routes)] = "gone"]
  /\ routes' = Front(routes)
  /\ nav' = Destroy(Relayout(nav), {Last(routes)})
  /\ calls' = Tail(calls)

VetoPushLeave ==
  /\ calls # << >> /\ Head(calls).at = "leave"
  /\ PushFails(Head(calls), [life EXCEPT ![Head(calls).below] = Head(calls).was])
  /\ UNCHANGED <<anims, running, made, spoiled>>

\* Slip: the page below is not told that it stays.
VetoPushEnterForgets ==
  /\ calls # << >> /\ Head(calls).at = "enter"
  /\ PushFails(Head(calls), life)
  /\ UNCHANGED <<anims, running, made, spoiled>>

VetoPushEnter ==
  /\ calls # << >> /\ Head(calls).at = "enter"
  /\ IF Head(calls).below = NoPage
     THEN PushFails(Head(calls), life)
     ELSE GoOn("restore") /\ UNCHANGED <<nav, routes>>
  /\ UNCHANGED <<anims, running, made, spoiled>>

PushRestored ==
  /\ calls # << >> /\ Head(calls).at = "restore"
  /\ PushFails(Head(calls), life)
  /\ UNCHANGED <<anims, running, made, spoiled>>

PushMayLeave ==
  /\ calls # << >> /\ Head(calls).at = "leave"
  /\ GoOn("enter")
  /\ UNCHANGED <<nav, routes, anims, running, made, spoiled>>

\* Both agreed: the page enters the stack, at once or from the right edge.
Enters(c, slides) ==
  Place(Show([nav EXCEPT !.pages = Append(@, c.page)], c.page),
        c.page, IF slides THEN Steps ELSE 0)

PushAgreed ==
  /\ calls # << >> /\ Head(calls).at = "enter"
  /\ LET c == Head(calls)
         slides == c.below # NoPage /\ c.animated
         entered == Enters(c, slides)
     IN  \/ /\ slides
            /\ nav' = Start(entered, "Push")
            /\ anims' = Append(anims, NewTick("Push"))
            /\ calls' = Tail(calls)
            /\ UNCHANGED life
         \/ /\ c.below = NoPage
            /\ nav' = entered
            /\ GoOn("entered")
            /\ UNCHANGED anims
         \/ /\ c.below # NoPage /\ ~c.animated
            /\ nav' = Hide(Place(entered, c.below, 0), c.below)
            /\ GoOn("left")
            /\ UNCHANGED anims
  /\ UNCHANGED <<routes, running, made, spoiled>>

-----------------------------------------------------------------------------
(* pop *)

Pop(animated) ==
  /\ InApplication
  /\ animated \/ Idle     \* destroying the page of a running callback is the caller's error
  /\ ~nav.transitioning /\ Len(nav.pages) > 1 /\ ~nav.popLifecycleActive
  /\ Dispatch(NewCall("popLeave", Top(nav), Below(nav), animated), calls)
  /\ UNCHANGED <<nav, routes, anims, running, made, spoiled>>

VetoPopLeave ==
  /\ calls # << >> /\ Head(calls).at = "popLeave"
  /\ life' = [life EXCEPT ![Head(calls).page] = Head(calls).was]
  /\ calls' = Tail(calls)
  /\ UNCHANGED <<nav, routes, anims, running, made, spoiled>>

PopMayLeave ==
  /\ calls # << >> /\ Head(calls).at = "popLeave"
  /\ GoOn("popEnter")
  /\ UNCHANGED <<nav, routes, anims, running, made, spoiled>>

VetoPopEnter ==
  /\ calls # << >> /\ Head(calls).at = "popEnter"
  /\ LET c == Head(calls)
         again == [c EXCEPT !.at = "popRestore", !.was = "new"]
     IN  /\ calls' = <<again>> \o Tail(calls)
         /\ life' = [life EXCEPT ![c.below] = c.was, ![c.page] = "DidEnter"]
  /\ UNCHANGED <<nav, routes, anims, running, made, spoiled>>

PopRestored ==
  /\ calls # << >> /\ Head(calls).at = "popRestore"
  /\ calls' = Tail(calls)
  /\ UNCHANGED <<nav, routes, anims, running, life, made, spoiled>>

PopAgreed ==
  /\ calls # << >> /\ Head(calls).at = "popEnter"
  /\ LET c == Head(calls)
         begun == Show([nav EXCEPT !.popLifecycleActive = TRUE], c.below)
     IN  \/ /\ c.animated
            /\ nav' = Start(begun, "Pop")
            /\ anims' = Append(anims, NewTick("Pop"))
            /\ calls' = Tail(calls)
            /\ UNCHANGED life
         \/ /\ ~c.animated
            /\ nav' = LandPop(begun)
            /\ GoOn("popLeft")
            /\ UNCHANGED anims
  /\ UNCHANGED <<routes, running, made, spoiled>>

-----------------------------------------------------------------------------
(* Landing: finishPush and finishPop, reached from a tick or from a layout.  *)
(* They are given the view state n they start from, and lands is what the    *)
(* code does to it before the first callback.                                *)

LandsAt(n, at, page, below) ==
  /\ nav' = n
  /\ Dispatch(NewCall(at, page, below, TRUE), calls)

\* Slip: finishPush trusts that its transition is the one under way.
FinishPushTwice(n) ==
  IF n.pages = << >>
  THEN nav' = n /\ UNCHANGED <<calls, life>>
  ELSE IF Len(n.pages) > 1 THEN LandsAt(LandPush(n), "left", Top(n), Below(n))
  ELSE LandsAt(LandPush(n), "entered", Top(n), NoPage)

FinishPush(n) ==
  IF n.pages = << >> \/ n.transitionKind # "Push"
  THEN nav' = n /\ UNCHANGED <<calls, life>>
  ELSE IF Len(n.pages) > 1 THEN LandsAt(LandPush(n), "left", Top(n), Below(n))
  ELSE LandsAt(LandPush(n), "entered", Top(n), NoPage)

FinishPop(n, completed) ==
  IF Len(n.pages) < 2 \/ ~n.popLifecycleActive
  THEN nav' = AtRest(n) /\ UNCHANGED <<calls, life>>
  ELSE IF completed THEN LandsAt(LandPop(n), "popLeft", Top(n), Below(n))
  ELSE LandsAt(UndoPop(n), "undoLeft", Top(n), Below(n))

\* The callbacks a landing, or a push or pop without animation, ends with.
NextCallback ==
  [left |-> "entered", popLeft |-> "popEntered", undoLeft |-> "undoEntered"]

LeftReturns ==
  /\ calls # << >> /\ Head(calls).at \in DOMAIN NextCallback
  /\ GoOn(NextCallback[Head(calls).at])
  /\ UNCHANGED <<nav, routes, anims, running, made, spoiled>>

EnteredReturns ==
  /\ calls # << >> /\ Head(calls).at = "entered"
  /\ calls' = Tail(calls)
  /\ UNCHANGED <<nav, routes, anims, running, life, made, spoiled>>

UndoReturns ==
  /\ calls # << >> /\ Head(calls).at = "undoEntered"
  /\ calls' = Tail(calls)
  /\ nav' = [nav EXCEPT !.popLifecycleActive = FALSE]
  /\ UNCHANGED <<routes, anims, running, life, made, spoiled>>

\* Slip: the route of an unmounted page stays.
PopReturnsRouted ==
  /\ calls # << >> /\ Head(calls).at = "popEntered"
  /\ calls' = Tail(calls)
  /\ nav' = Destroy([Relayout(nav) EXCEPT !.popLifecycleActive = FALSE], {Head(calls).page})
  /\ life' = [life EXCEPT ![Head(calls).page] = "gone"]
  /\ UNCHANGED <<routes, anims, running, made, spoiled>>

\* popped: the page is unmounted, which is a layout, and its route removed.
PopReturns ==
  /\ calls # << >> /\ Head(calls).at = "popEntered"
  /\ calls' = Tail(calls)
  /\ nav' = Destroy([Relayout(nav) EXCEPT !.popLifecycleActive = FALSE], {Head(calls).page})
  /\ life' = [life EXCEPT ![Head(calls).page] = "gone"]
  /\ routes' = RemoveFirst(routes, Head(calls).page)
  /\ UNCHANGED <<anims, running, made, spoiled>>

-----------------------------------------------------------------------------
(* clear, layouts and frames *)

\* A transition that ends otherwise leaves its tick in g_animations.
Orphaned(ticks) == [i \in DOMAIN ticks |-> [ticks[i] EXCEPT !.stale = TRUE]]

\* The bound on them: some tick of these would be one too many.
OneTooMany(ticks) == nav.transitioning /\ Len(ticks) > MaxLate

Clear ==
  /\ Idle
  /\ nav.pages # << >> /\ ~OneTooMany(anims)
  /\ nav' = Destroy([AtRest(nav) EXCEPT !.pages = << >>, !.popLifecycleActive = FALSE],
                    ToSet(routes))
  /\ life' = [p \in Page |-> IF Contains(routes, p) THEN "gone" ELSE life[p]]
  /\ routes' = << >>
  /\ anims' = Orphaned(anims)
  /\ UNCHANGED <<running, calls, made, spoiled>>

\* A child of the tree was rebuilt: the whole tree is laid out, same size.
Rebuild ==
  /\ Idle \/ calls # << >>
  /\ nav' = Relayout(nav)
  /\ UNCHANGED <<routes, anims, running, calls, life, made, spoiled>>

\* The window turned: a transition is landed at once.
Resize ==
  /\ Idle /\ ~OneTooMany(anims)
  /\ \/ /\ nav.transitioning /\ nav.transitionKind = "Push"
        /\ FinishPush(nav)
     \/ /\ nav.transitioning /\ nav.transitionKind = "Pop"
        /\ FinishPop(nav, FALSE)
     \/ /\ ~nav.transitioning
        /\ nav' = [nav EXCEPT !.x = [p \in Page |-> IF Contains(nav.pages, p) THEN 0 ELSE @[p]]]
        /\ UNCHANGED <<calls, life>>
  /\ anims' = Orphaned(anims)
  /\ UNCHANGED <<routes, running, made, spoiled>>

\* Slip: the last frame runs past the end of the transition.
NextFrameOvershoots ==
  /\ Idle
  /\ anims # << >>
  /\ \E d \in 1 .. Steps :
       running' = [i \in DOMAIN anims |->
         [anims[i] EXCEPT !.time = IF @ = NotStarted THEN 0 ELSE @ + d]]
  /\ anims' = << >>
  /\ UNCHANGED <<nav, routes, calls, life, made, spoiled>>

\* tickAnimations swaps the list out; a tick starts its clock when it first runs.
NextFrame ==
  /\ Idle
  /\ anims # << >>
  /\ \E d \in 1 .. Steps :
       running' = [i \in DOMAIN anims |->
         [anims[i] EXCEPT !.time =
            IF @ = NotStarted THEN 0 ELSE IF @ + d > Steps THEN Steps ELSE @ + d]]
  /\ anims' = << >>
  /\ UNCHANGED <<nav, routes, calls, life, made, spoiled>>

\* A tick moves the pages whatever the state of the view, and then may finish.
RunTick ==
  /\ calls = << >> /\ running # << >>
  /\ LET tick == Head(running)
         moved == Apply(nav, tick.kind, tick.time)
     IN  /\ spoiled' = (spoiled \/ tick.stale)
         /\ IF tick.time < Steps
            THEN /\ nav' = moved
                 /\ anims' = Append(anims, tick)
                 /\ UNCHANGED <<calls, life>>
            ELSE /\ IF tick.kind = "Push" THEN FinishPush(moved) ELSE FinishPop(moved, TRUE)
                 /\ UNCHANGED anims
  /\ running' = Tail(running)
  /\ UNCHANGED <<routes, made>>

-----------------------------------------------------------------------------
CallbackReturns ==
  \/ VetoPushLeave \/ VetoPushEnter \/ PushRestored \/ PushMayLeave \/ PushAgreed
  \/ VetoPopLeave \/ VetoPopEnter \/ PopRestored \/ PopMayLeave \/ PopAgreed
  \/ LeftReturns \/ EnteredReturns \/ UndoReturns \/ PopReturns

Next ==
  \/ \E animated \in BOOLEAN : Push(animated) \/ Pop(animated)
  \/ RefusePush \/ CallbackReturns
  \/ Clear \/ Rebuild \/ Resize \/ NextFrame \/ RunTick

\* Callbacks return, and beginFrame runs the ticks at every vsync.
Spec ==
  /\ Init /\ [][Next]_vars
  /\ WF_vars(CallbackReturns) /\ WF_vars(NextFrame) /\ WF_vars(RunTick)

-----------------------------------------------------------------------------
(* Properties *)

TypeOK ==
  /\ nav.pages \in Seq(Page) /\ routes \in Seq(Page)
  /\ nav.transitioning \in BOOLEAN /\ nav.popLifecycleActive \in BOOLEAN
  /\ nav.transitionKind \in {"None", "Push", "Pop"}
  /\ nav.progress \in 0 .. Steps
  /\ nav.x \in [Page -> -Steps .. Steps] /\ nav.visible \in [Page -> BOOLEAN]
  /\ \A i \in DOMAIN calls : calls[i].at \in DOMAIN EventAt
  /\ made \in 0 .. MaxPages /\ spoiled \in BOOLEAN
  /\ life \in [Page -> {"new", "WillEnter", "DidEnter", "WillLeave", "DidLeave", "gone"}]

\* The same whatever ticks ran on, as the comments of RouteEvent and of the
\* navigation stack promise: "every Will is paired with exactly one Did".
WillsAlwaysPaired == Settled => WillsAnswered

\* A transition always ends.
TransitionEnds == nav.transitioning ~> ~nav.transitioning
=============================================================================
