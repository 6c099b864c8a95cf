---------------------------- MODULE PointerInput ----------------------------
(***************************************************************************)
(* The gesture arena of core/src/ui/pointer_input.cpp: the table of the    *)
(* fingers on the screen, the tap that waits for a second one, the         *)
(* sessions of two fingers, and the timer of long presses and double taps. *)
(*                                                                         *)
(* All of it runs on the UI thread.  What interleaves is application code: *)
(* nearly every step calls back into a view, and a callback may remove     *)
(* views, which cancels gestures in its turn.  What a handler has still to *)
(* do when a callback returns is the sequence todo; calling says that the  *)
(* application has its turn.  Positions are left out: a move that matters  *)
(* is one beyond the slop, an Up is inside its view or not, a second tap   *)
(* near the first or not.                                                  *)
(***************************************************************************)
EXTENDS Integers, Sequences, FiniteSetsExt, SequencesExt

CONSTANTS
  Finger,                            \* pointer ids
  View, Parent,                      \* the page; Parent[v] is NoView for a root
  Taps, DoubleTaps, LongPresses,     \* views with onClick, onDoubleTap, onLongPress
  Receivers,                         \* acceptsPointerInput: they get no onClick
  Pans, Scales,                      \* acceptsPanInput, acceptsScaleInput
  DoubleTapTimeout, LongPressTimeout,\* in steps of time
  MaxRemovals,                       \* bound on the removals within one event
  MaxIds                             \* bound on the ids a session has heard of

NoView == "none"

ASSUME PointerAssumption ==
  /\ IsFiniteSet(Finger) /\ NoView \notin View /\ Parent \in [View -> View \cup {NoView}]
  /\ Taps \cup DoubleTaps \cup LongPresses \cup Receivers \cup Pans \cup Scales \subseteq View
  /\ DoubleTapTimeout \in Nat \ {0} /\ LongPressTimeout \in Nat \ {0}
  /\ MaxRemovals \in Nat /\ MaxIds \in Nat

VARIABLES
  alive,        \* the views there are
  fingers,      \* g_pointers: the state of each finger that is down
  pending,      \* g_pendingTap, or NoTap
  sessions,     \* g_scaleSessions
  timer,        \* g_gestureTimerRunning: its tick is in the animation list
  todo, calling,
  panning,      \* history: <<finger, view>> whose Begin had no End or Cancel yet
  scaling       \* history: the same for handleScale

viewVars == <<alive, fingers, pending, sessions, timer>>
historyVars == <<panning, scaling>>
vars == <<viewVars, todo, calling, historyVars>>

NoTap == [view |-> NoView, age |-> 0]

Init ==
  /\ alive = View
  /\ fingers = << >>
  /\ pending = NoTap
  /\ sessions = << >>
  /\ timer = FALSE
  /\ todo = << >> /\ calling = FALSE
  /\ panning = {} /\ scaling = {}

-----------------------------------------------------------------------------
(* Views and fingers *)

\* A view and its parents, innermost first.
Chain[v \in View] == IF Parent[v] = NoView THEN <<v>> ELSE <<v>> \o Chain[Parent[v]]

\* nearestInputTarget, nearestPanTarget, nearestScaleTarget.
Nearest(hit, accepting) ==
  IF hit = NoView \/ Range(Chain[hit]) \cap accepting = {} THEN NoView
  ELSE SelectSeq(Chain[hit], LAMBDA v : v \in accepting)[1]

\* isDescendantOf; NoView stands for everything.
Under(root) == {v \in View : root = NoView \/ root \in Range(Chain[v])}

Down == DOMAIN fingers

Erased(f) == [g \in Down \ {f} |-> fingers[g]]

NewFinger(c) ==
  [target |-> c.target, pan |-> c.pan, scale |-> c.scale, second |-> c.second,
   dragging |-> FALSE, tapDead |-> FALSE, inScale |-> FALSE, age |-> 0,
   did |-> {}]

\* The members of a session that is over.
Released(ids) ==
  [g \in Down |-> IF g \in ids
                  THEN [fingers[g] EXCEPT !.inScale = FALSE, !.tapDead = TRUE]
                  ELSE fingers[g]]

\* The finger waits for its long press.
Armed(f) ==
  /\ f \in Down
  /\ ~fingers[f].tapDead /\ ~fingers[f].dragging /\ ~fingers[f].inScale
  /\ fingers[f].target \in alive \cap LongPresses

-----------------------------------------------------------------------------
(* Control *)

\* A view is called back, and rest remains to be done after it.
CallBack(rest) == todo' = rest /\ calling' = (rest # << >>)
GoOn(rest) == todo' = rest /\ calling' = FALSE

\* The callback happens if its view is there.
Call(view, rest) == IF view \in alive THEN CallBack(rest) ELSE GoOn(rest)

At(op) == todo # << >> /\ Head(todo).op = op
Now == Head(todo)
Rest == Tail(todo)

\* Events come when nothing is under way.
Idle == todo = << >>

\* The code goes on with a bare pointer or an iterator that a callback made invalid:
\* what the program does from here on is undefined, and what it had to do stays undone.
Undefined == At("undefined")
GoWrong == GoOn(<<[op |-> "undefined"]>> \o todo)

\* An End or Cancel no one waits for shows as <<finger, NoView>>.
PanEnded(f, view) ==
  panning' = IF view \notin alive \/ <<f, view>> \in panning THEN panning \ {<<f, view>>}
             ELSE panning \cup {<<f, NoView>>}
ScaleEnded(view) ==
  scaling' = IF view \notin alive \/ view \in scaling THEN scaling \ {view}
             ELSE scaling \cup {NoView}

-----------------------------------------------------------------------------
(* finishPointer and resolvePendingTap, as parts of handlers *)

Finish(f, notify, rest) ==
  LET s == fingers[f]
      end == IF s.dragging THEN <<[op |-> "endPan", f |-> f, view |-> s.pan]>> ELSE << >>
  IN  /\ fingers' = Erased(f)
      /\ IF notify THEN Call(s.target, end \o rest) ELSE GoOn(end \o rest)

EndPan ==
  /\ At("endPan")
  /\ PanEnded(Now.f, Now.view)
  /\ Call(Now.view, Rest)
  /\ UNCHANGED <<viewVars, scaling>>

Resolve(rest) ==
  /\ pending' = NoTap
  /\ IF pending.view \in Taps \ Receivers THEN Call(pending.view, rest) ELSE GoOn(rest)

-----------------------------------------------------------------------------
(* Down *)

\* Where the finger hits; near says that it is close to the pending tap.
Hit(f, hit, near, rest) ==
  LET target == Nearest(hit, Receivers \cup Taps \cup DoubleTaps \cup LongPresses)
      second == /\ pending # NoTap /\ pending.view = target
                /\ pending.age <= DoubleTapTimeout /\ near
      add == [op |-> "add", f |-> f, target |-> target, pan |-> Nearest(hit, Pans),
              scale |-> Nearest(hit, Scales), second |-> second]
  IN  IF {add.target, add.pan, add.scale} = {NoView} THEN Resolve(rest)
      ELSE IF second THEN pending' = NoTap /\ GoOn(<<add>> \o rest)
      ELSE Resolve(<<add>> \o rest)

TouchDown(f) ==
  /\ Idle /\ \A i \in DOMAIN sessions : Len(sessions[i].ids) < MaxIds
  /\ IF f \in Down     \* the platform uses the id again: the old sequence is cancelled
     THEN Finish(f, TRUE, <<[op |-> "hit", f |-> f]>>) /\ UNCHANGED pending
     ELSE /\ \E hit \in alive \cup {NoView}, near \in BOOLEAN : Hit(f, hit, near, << >>)
          /\ UNCHANGED fingers
  /\ UNCHANGED <<alive, sessions, timer, historyVars>>

HitAgain ==
  /\ At("hit")
  /\ \E hit \in alive \cup {NoView}, near \in BOOLEAN : Hit(Now.f, hit, near, Rest)
  /\ UNCHANGED <<alive, fingers, sessions, timer, historyVars>>

AddFinger ==
  /\ At("add")
  /\ IF {Now.target, Now.pan, Now.scale} \subseteq alive \cup {NoView}
     THEN /\ fingers' = [f \in Down \cup {Now.f} |->
                           IF f = Now.f THEN NewFinger(Now) ELSE fingers[f]]
          /\ Call(Now.target, <<[op |-> "gather", f |-> Now.f]>> \o Rest)
     ELSE GoWrong /\ UNCHANGED fingers
  /\ UNCHANGED <<alive, pending, sessions, timer, panning, scaling>>

Stop(f) == <<[op |-> "stop", f |-> f], [op |-> "drop", f |-> f]>>

SessionsOf(view) == {i \in DOMAIN sessions : view # NoView /\ sessions[i].view = view}

\* After the Down was delivered: the timer, and the session the finger makes
\* complete or joins.
Gather ==
  /\ At("gather")
  /\ IF Now.f \notin Down THEN GoOn(Rest) /\ UNCHANGED <<timer, sessions>>
     ELSE LET view == fingers[Now.f].scale
              partners == {g \in Down \ {Now.f} : view # NoView /\ ~fingers[g].inScale
                                                  /\ fingers[g].scale = view}
          IN  /\ timer' = (timer \/ fingers[Now.f].target \in LongPresses)
              /\ IF SessionsOf(view) # {}
                 THEN LET i == CHOOSE i \in SessionsOf(view) : TRUE
                      IN  /\ sessions' = [sessions EXCEPT ![i].ids = Append(@, Now.f)]
                          /\ GoOn(Stop(Now.f) \o Rest)
                 ELSE /\ UNCHANGED sessions
                      /\ \/ partners = {} /\ GoOn(Rest)
                         \/ \E g \in partners :
                              GoOn(Stop(g) \o Stop(Now.f)
                                   \o <<[op |-> "open", view |-> view, ids |-> <<g, Now.f>>]>>
                                   \o Rest)
  /\ UNCHANGED <<alive, fingers, pending, historyVars>>

\* A member of the new session loses its tap ...
StopTap ==
  /\ At("stop")
  /\ IF Now.f \in Down
     THEN /\ fingers' = [fingers EXCEPT ![Now.f].tapDead = TRUE, ![Now.f].inScale = TRUE,
                                   ![Now.f].did = @ \cup {"scale"}]
          /\ Call(fingers[Now.f].target, Rest)
     ELSE GoOn(Rest) /\ UNCHANGED fingers
  /\ UNCHANGED <<alive, pending, sessions, timer, panning, scaling>>

\* Slip: the pan of the member is forgotten without a Cancel.
DropPanSilently ==
  /\ At("drop")
  /\ IF Now.f \in Down
     THEN fingers' = [fingers EXCEPT ![Now.f].target = NoView, ![Now.f].dragging = FALSE]
     ELSE UNCHANGED fingers
  /\ GoOn(Rest)
  /\ UNCHANGED <<alive, pending, sessions, timer, historyVars>>

\* ... and its pan.
DropPan ==
  /\ At("drop")
  /\ IF Now.f \in Down
     THEN /\ fingers' = [fingers EXCEPT ![Now.f].target = NoView, ![Now.f].dragging = FALSE]
          /\ IF fingers[Now.f].dragging
             THEN PanEnded(Now.f, fingers[Now.f].pan) /\ Call(fingers[Now.f].pan, Rest)
             ELSE GoOn(Rest) /\ UNCHANGED panning
     ELSE GoOn(Rest) /\ UNCHANGED <<fingers, panning>>
  /\ UNCHANGED <<alive, pending, sessions, timer, scaling>>

OpenSession ==
  /\ At("open")
  /\ IF Now.view \in alive
     THEN /\ sessions' = Append(sessions, [view |-> Now.view, ids |-> Now.ids])
          /\ scaling' = scaling \cup {Now.view}
          /\ CallBack(Rest)
     ELSE GoWrong /\ UNCHANGED <<sessions, scaling>>
  /\ UNCHANGED <<alive, fingers, pending, timer, panning>>

-----------------------------------------------------------------------------
(* Move, Up and Cancel *)

\* panClaimedByOther.
Claimed(f) ==
  \E g \in Down \ {f} : fingers[g].dragging /\ fingers[g].pan = fingers[f].pan

\* Moves that change something: beyond the slop, by a finger that is not dragging.
Move(f) ==
  /\ Idle /\ f \in Down
  /\ ~fingers[f].inScale /\ ~fingers[f].dragging
  /\ fingers' = [fingers EXCEPT ![f].tapDead = TRUE]
  /\ LET claim == <<[op |-> "claim", f |-> f]>>
     IN  IF fingers[f].tapDead THEN GoOn(claim) ELSE Call(fingers[f].target, claim)
  /\ UNCHANGED <<alive, pending, sessions, timer, historyVars>>

ClaimPan ==
  /\ At("claim")
  /\ IF Now.f \notin Down THEN GoOn(Rest) /\ UNCHANGED <<fingers, panning>>
     ELSE LET s == [fingers[Now.f] EXCEPT !.target = NoView]
          IN  IF s.pan = NoView \/ Claimed(Now.f)
              THEN /\ fingers' = [fingers EXCEPT ![Now.f] = s]
                   /\ GoOn(Rest) /\ UNCHANGED panning
              ELSE /\ fingers' = [fingers EXCEPT ![Now.f] = [s EXCEPT !.dragging = TRUE,
                                                                !.did = @ \cup {"pan"}]]
                   /\ panning' = panning \cup {<<Now.f, s.pan>>}
                   /\ Call(s.pan, Rest)
  /\ UNCHANGED <<alive, pending, sessions, timer, scaling>>

\* leaveScaleSession and the end of the sequence, for a member of a session.
Leave(f) ==
  LET mine == {i \in DOMAIN sessions : f \in Range(sessions[i].ids)}
      i == Min(mine)
      ids == RemoveFirst(sessions[i].ids, f)
      remaining == {n \in DOMAIN ids : ids[n] \in Down \ {f} /\ fingers[ids[n]].inScale}
  IN  IF mine = {}
      THEN fingers' = Erased(f) /\ GoOn(<< >>) /\ UNCHANGED <<sessions, scaling>>
      ELSE IF Cardinality(remaining) >= 2
      THEN /\ sessions' = [sessions EXCEPT ![i].ids = ids]
           /\ fingers' = Erased(f)
           /\ GoOn(<< >>) /\ UNCHANGED scaling
      ELSE /\ sessions' = RemoveAt(sessions, i)
           /\ fingers' = Released(Range(ids) \cup {f})
           /\ ScaleEnded(sessions[i].view)
           /\ Call(sessions[i].view, <<[op |-> "erase", f |-> f]>>)

EraseFinger ==
  /\ At("erase")
  /\ fingers' = Erased(Now.f)
  /\ GoOn(Rest)
  /\ UNCHANGED <<alive, pending, sessions, timer, historyVars>>

Up(f) ==
  /\ Idle /\ f \in Down
  /\ IF fingers[f].inScale THEN Leave(f)
     ELSE /\ IF fingers[f].dragging THEN Finish(f, FALSE, << >>)
             ELSE /\ fingers' = Erased(f)
                  /\ IF fingers[f].tapDead THEN GoOn(<< >>)
                     ELSE Call(fingers[f].target,
                               <<[op |-> "tap", f |-> f, view |-> fingers[f].target,
                                  second |-> fingers[f].second, did |-> fingers[f].did]>>)
          /\ UNCHANGED <<sessions, scaling>>
  /\ UNCHANGED <<alive, pending, timer, panning>>

\* After the Up was delivered: a double tap, a tap that waits, or a tap.
Tap ==
  /\ At("tap")
  /\ \/ /\ Now.second /\ Now.view \in alive \cap DoubleTaps
        /\ CallBack(Rest) /\ UNCHANGED <<pending, timer>>
     \/ /\ ~Now.second /\ Now.view \in alive \cap (Taps \ Receivers)
        /\ IF Now.view \in DoubleTaps
           THEN pending' = [view |-> Now.view, age |-> 0] /\ timer' = TRUE /\ GoOn(Rest)
           ELSE CallBack(Rest) /\ UNCHANGED <<pending, timer>>
     \/ /\ ~(Now.second /\ Now.view \in alive \cap DoubleTaps)   \* nothing to call, or outside
        /\ GoOn(Rest) /\ UNCHANGED <<pending, timer>>
  /\ UNCHANGED <<alive, fingers, sessions, panning, scaling>>

Cancel(f) ==
  /\ Idle /\ f \in Down
  /\ IF fingers[f].inScale THEN Leave(f)
     ELSE Finish(f, TRUE, << >>) /\ UNCHANGED <<sessions, scaling>>
  /\ UNCHANGED <<alive, pending, timer, panning>>

-----------------------------------------------------------------------------
(* Time and the tick of the timer *)

Older(age, limit) == IF age < limit THEN age + 1 ELSE age

TimePasses ==
  /\ Idle
  /\ fingers' = [f \in Down |-> [fingers[f] EXCEPT !.age = Older(@, LongPressTimeout)]]
  /\ pending' = IF pending = NoTap THEN NoTap
                ELSE [pending EXCEPT !.age = Older(@, DoubleTapTimeout + 1)]
  /\ <<fingers', pending'>> # <<fingers, pending>>
  /\ UNCHANGED <<alive, sessions, timer, todo, calling, historyVars>>

\* tickGestureTimer marks what is due, then calls back.
Tick ==
  /\ Idle /\ timer
  /\ LET due == {f \in Finger : Armed(f) /\ fingers[f].age >= LongPressTimeout}
         fire == [n \in 1 .. Cardinality(due) |->
                   [op |-> "fire", view |-> fingers[SetToSeq(due)[n]].target]]
     IN  /\ fingers' = [f \in Down |->
              IF f \in due THEN [fingers[f] EXCEPT !.tapDead = TRUE, !.target = NoView,
                                                   !.did = @ \cup {"long"}]
              ELSE fingers[f]]
         /\ GoOn(fire \o <<[op |-> "settle"], [op |-> "needed"]>>)
  /\ UNCHANGED <<alive, pending, sessions, timer, panning, scaling>>

FireLongPress ==
  /\ At("fire")
  /\ Call(Now.view, Rest)
  /\ UNCHANGED <<viewVars, historyVars>>

Settle ==
  /\ At("settle")
  /\ IF pending # NoTap /\ pending.age >= DoubleTapTimeout THEN Resolve(Rest)
     ELSE GoOn(Rest) /\ UNCHANGED pending
  /\ UNCHANGED <<alive, fingers, sessions, timer, historyVars>>

\* Slip: the timer stops without looking at the fingers that are down.
NeededForTaps ==
  /\ At("needed")
  /\ timer' = (pending # NoTap)
  /\ GoOn(Rest)
  /\ UNCHANGED <<alive, fingers, pending, sessions, historyVars>>

Needed ==
  /\ At("needed")
  /\ timer' = (pending # NoTap \/ \E f \in Down : Armed(f))
  /\ GoOn(Rest)
  /\ UNCHANGED <<alive, fingers, pending, sessions, historyVars>>

-----------------------------------------------------------------------------
(* Views come and go *)

\* The removals since the last event.
Removals == {n \in DOMAIN todo : todo[n].op = "removed"}

\* removeChild and the end of the view, or setVisible(FALSE): cancelPointerForView and
\* then the rest, from application code or from a callback; also for a view that an
\* outer call is about to hide or to remove.
RemoveView(v, forGood) ==
  /\ Idle \/ calling
  /\ v \in alive /\ Cardinality(Removals) < MaxRemovals
  /\ pending' = IF pending.view \in Under(v) THEN NoTap ELSE pending
  /\ GoOn(<<[op |-> "sessions", view |-> v], [op |-> "collect", view |-> v],
            [op |-> IF forGood THEN "destroy" ELSE "hide", view |-> v]>>
          \o <<[op |-> "resume"]>> \o todo \o <<[op |-> "removed"]>>)
  /\ UNCHANGED <<alive, fingers, sessions, timer, historyVars>>

\* A scan further out keeps its iterator over the callbacks it makes.
Scanning == \E n \in DOMAIN Rest : Rest[n].op = "sessions"

\* endSessionsForView, one session after the other.
EndSessions ==
  /\ At("sessions")
  /\ LET ending == {i \in DOMAIN sessions :
                      sessions[i].view \in Under(Now.view) \/ Now.view = NoView}
         i == Min(ending)
     IN  IF ending = {} THEN GoOn(Rest) /\ UNCHANGED <<fingers, sessions, scaling>>
         ELSE \/ /\ fingers' = Released(Range(sessions[i].ids))
                 /\ sessions' = RemoveAt(sessions, i)
                 /\ ScaleEnded(sessions[i].view)
                 /\ Call(sessions[i].view, todo)
              \/ Scanning /\ GoWrong /\ UNCHANGED <<fingers, sessions, scaling>>
  /\ UNCHANGED <<alive, pending, timer, panning>>

\* Slip: a finger is forgotten only with the view it taps.
TouchingTarget(v) == {f \in Down : v = NoView \/ fingers[f].target \in Under(v)}

Touching(v) ==
  {f \in Down : v = NoView \/ {fingers[f].target, fingers[f].pan, fingers[f].scale}
                              \cap Under(v) # {}}

CollectFingers ==
  /\ At("collect")
  /\ LET ids == SetToSeq(Touching(Now.view))
     IN  GoOn([n \in DOMAIN ids |-> [op |-> "cancel", f |-> ids[n]]] \o Rest)
  /\ UNCHANGED <<viewVars, historyVars>>

CancelFinger ==
  /\ At("cancel")
  /\ IF Now.f \in Down THEN Finish(Now.f, TRUE, Rest) ELSE GoOn(Rest) /\ UNCHANGED fingers
  /\ UNCHANGED <<alive, pending, sessions, timer, historyVars>>

\* setVisible goes on with this, removeChild with this and its iterator of children.
Hide ==
  /\ At("hide")
  /\ IF Now.view \in alive THEN GoOn(Rest) ELSE GoWrong
  /\ UNCHANGED <<viewVars, historyVars>>

\* An outer removal of a sibling keeps an iterator that this one may make invalid.
SiblingWaits ==
  \E n \in DOMAIN Rest : LET v == Rest[n].view IN
    Rest[n].op = "destroy" /\ v # Now.view /\ Parent[v] = Parent[Now.view] /\ Parent[v] # NoView

LostInCallbacks ==
  /\ At("destroy")
  /\ Now.view \notin alive \/ SiblingWaits
  /\ GoWrong
  /\ UNCHANGED <<viewVars, historyVars>>

\* ~View: discardPointerForView, silently.
Destroy ==
  /\ At("destroy") /\ Now.view \in alive
  /\ LET gone == Under(Now.view)
         ended == {i \in DOMAIN sessions : sessions[i].view \in gone}
         released == Released(UNION {Range(sessions[i].ids) : i \in ended})
     IN  /\ alive' = alive \ gone
         /\ pending' = IF pending.view \in gone THEN NoTap ELSE pending
         /\ sessions' = IF ended = {} THEN sessions
                         ELSE SelectSeq(sessions, LAMBDA s : s.view \notin gone)
         /\ fingers' = [f \in Down \ Touching(Now.view) |-> released[f]]
         /\ panning' = {e \in panning : e[2] \notin gone}
         /\ scaling' = scaling \ gone
  /\ GoOn(Rest)
  /\ UNCHANGED timer

\* The removal returns to the application.
Resume ==
  /\ At("resume")
  /\ CallBack(Rest)
  /\ UNCHANGED <<viewVars, historyVars>>

\* The event is over, and the removals within it are counted anew.
Removed ==
  /\ At("removed")
  /\ GoOn(Rest)
  /\ UNCHANGED <<viewVars, historyVars>>

\* The page mounts a new view in the place of one that is gone.
Mount(v) ==
  /\ Idle
  /\ v \notin alive /\ Parent[v] \in alive \cup {NoView}
  /\ alive' = alive \cup {v}
  /\ UNCHANGED <<fingers, pending, sessions, timer, todo, calling, historyVars>>

\* cancelAllPointerEvents, with stopAllAnimations, before the engine goes.
CancelAll ==
  /\ Idle
  /\ pending' = NoTap
  /\ GoOn(<<[op |-> "sessions", view |-> NoView], [op |-> "collect", view |-> NoView],
            [op |-> "stopTimer"]>>)
  /\ UNCHANGED <<alive, fingers, sessions, timer, historyVars>>

StopTimer ==
  /\ At("stopTimer")
  /\ timer' = FALSE
  /\ GoOn(Rest)
  /\ UNCHANGED <<alive, fingers, pending, sessions, historyVars>>

-----------------------------------------------------------------------------
HandlerGoesOn ==
  \/ EndPan \/ HitAgain \/ AddFinger \/ Gather \/ StopTap \/ DropPan \/ OpenSession
  \/ ClaimPan \/ EraseFinger \/ Tap \/ FireLongPress \/ Settle \/ Needed
  \/ EndSessions \/ CollectFingers \/ CancelFinger \/ Hide \/ LostInCallbacks \/ Destroy
  \/ Resume \/ Removed \/ StopTimer

Next ==
  \/ \E f \in Finger : TouchDown(f) \/ Move(f) \/ Up(f) \/ Cancel(f)
  \/ HandlerGoesOn
  \/ TimePasses \/ Tick
  \/ \E v \in View : Mount(v) \/ \E forGood \in BOOLEAN : RemoveView(v, forGood)
  \/ CancelAll

(***************************************************************************)
(* Handlers and callbacks return; time passes and beginFrame runs the tick *)
(* at every VSync, however many events come between.                       *)
(***************************************************************************)
Spec ==
  /\ Init /\ [][Next]_vars
  /\ WF_vars(HandlerGoesOn) /\ SF_vars(TimePasses) /\ SF_vars(Tick)

-----------------------------------------------------------------------------
(* Properties *)

\* Types; and no finger, tap or session refers to a view that is gone
\* (discardPointerForView of the destructor).
TypeOK ==
  /\ alive \subseteq View
  /\ Down \subseteq Finger
  /\ \A f \in Down : {fingers[f].target, fingers[f].pan, fingers[f].scale}
                       \subseteq alive \cup {NoView}
  /\ pending.view \in alive \cup {NoView} /\ pending.age \in 0 .. DoubleTapTimeout + 1
  /\ \A i \in DOMAIN sessions : sessions[i].view \in alive /\ Range(sessions[i].ids) \subseteq Finger

\* The arena (pointer_input.cpp line 11: "the first to claim wins, the losers get
\* Cancel"): a view hears one pan and one scale at a time, every Begin it hears is
\* followed by one End or Cancel, and a finger that panned, scaled or pressed long
\* does not tap any more, whichever way it goes: lifted, cancelled, taken into a
\* session, its id used again, or views removed from a callback.
ArenaIsFair ==
  /\ Idle => /\ panning = {<<f, fingers[f].pan>> : f \in {g \in Down : fingers[g].dragging}}
             /\ scaling = {sessions[i].view : i \in DOMAIN sessions}
  /\ \A f, g \in Down : fingers[f].dragging /\ fingers[g].dragging
                          /\ fingers[f].pan = fingers[g].pan => f = g
  /\ \A i, j \in DOMAIN sessions : sessions[i].view = sessions[j].view => i = j
  /\ At("tap") => Now.did = {}

\* A tap that waits is settled, and a finger held still gets its long press, at
\* the latest when the time is up: the timer runs as long as it is needed.
TimersFire ==
  /\ pending # NoTap ~> pending = NoTap \/ Undefined
  /\ \A f \in Finger : Armed(f) ~> ~Armed(f) \/ Undefined
=============================================================================
