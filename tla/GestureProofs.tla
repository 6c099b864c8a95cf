--------------------------- MODULE GestureProofs ----------------------------
(***************************************************************************)
(* Proofs about what reacts to fingers.                                    *)
(*                                                                         *)
(* First PointerInput: the arena is fair, however the callbacks of the     *)
(* application interleave with the handlers.                               *)
(*                                                                         *)
(* Most of the invariant is about todo, what the handlers on the stack     *)
(* have still to do.  Callbacks put whole removals in front of it, so it   *)
(* always is removals first and then the rest of one event; a view is      *)
(* destroyed only after its sessions and its fingers have been swept.      *)
(*                                                                         *)
(* Then ScrollControl, for every view with any number of axes, sizes,      *)
(* fingers, speeds and animations, and ButtonPress, for any set of         *)
(* fingers.                                                                *)
(***************************************************************************)
EXTENDS PointerInput, ScrollState, ButtonState,
        SequenceTheorems, FiniteSetTheorems, WellFoundedInduction, TLAPS

CONSTANTS Contents, Viewports, Step, Speed, MaxTouches, MaxAnimations, MaxRaw, MaxClicks

Scroll == INSTANCE ScrollControl
Button == INSTANCE ButtonPress

-----------------------------------------------------------------------------
(* What there is to do *)

\* Parts of removals and of the ends of fingers, and what is left undone; and parts
\* of an event after which there is nothing left of it.
Sweeping ==
  {"sessions", "collect", "cancel", "destroy", "hide", "resume", "endPan", "undefined"}
Single == {"hit", "add", "gather", "open", "claim", "erase", "tap"}

Found == {Nearest(hit, accepting) : hit \in View \cup {NoView}, accepting \in SUBSET View}

Item ==
  [op : {"hit", "gather", "stop", "drop", "claim", "erase", "cancel"}, f : Finger]
    \cup [op : {"sessions", "collect", "destroy", "hide", "fire"}, view : View \cup {NoView}]
    \cup [op : {"endPan"}, f : Finger, view : View \cup {NoView}]
    \cup [op : {"open"}, view : View \cup {NoView}, ids : Seq(Finger)]
    \cup [op : {"add"}, f : Finger, target : Found, pan : Found, scale : Found,
          second : BOOLEAN]
    \cup [op : {"tap"}, f : Finger, view : View \cup {NoView}, second : BOOLEAN, did : {{}}]
    \cup [op : {"resume", "removed", "settle", "needed", "stopTimer", "undefined"}]

FingerState ==
  [target : View \cup {NoView}, pan : View \cup {NoView}, scale : View \cup {NoView},
   second : BOOLEAN, dragging : BOOLEAN, tapDead : BOOLEAN, inScale : BOOLEAN,
   age : 0 .. LongPressTimeout, did : SUBSET {"scale", "pan", "long"}]

\* The table of the fingers that are down.
TouchTable(fs) == DOMAIN fs \subseteq Finger /\ fs \in [DOMAIN fs -> FingerState]

Session == [view : View, ids : Seq(Finger)]

Typed ==
  /\ TouchTable(fingers)
  /\ sessions \in Seq(Session)
  /\ todo \in Seq(Item)
  /\ pending \in [view : View \cup {NoView}, age : 0 .. DoubleTapTimeout + 1]
  /\ alive \subseteq View

\* What may stand before what.
Before(a, b) ==
  /\ a \notin Sweeping => b \notin Sweeping
  /\ a \in Single => b = "removed"
  /\ b = "claim" => a \in Sweeping

Ordered(q) == \A n, m \in 1 .. Len(q) : n < m => Before(q[n].op, q[m].op)

\* A finger whose tap is stopped for a session loses its pan afterwards.
StopsDrop(q) ==
  \A n \in 1 .. Len(q) : q[n].op = "stop" =>
    \E m \in 1 .. Len(q) : m > n /\ q[m].op = "drop" /\ q[m].f = q[n].f

\* A finger ends one pan at a time.
EndsDiffer(q) ==
  \A n, m \in 1 .. Len(q) :
    q[n].op = "endPan" /\ q[m].op = "endPan" /\ q[n].f = q[m].f => n = m

\* Before a view is destroyed its sessions are ended and its fingers cancelled.
\* In what follows q stands for todo, fs for fingers, V for the views with a session.
SessionsSwept(q, V) ==
  \A n \in 1 .. Len(q) : q[n].op = "destroy" =>
    \/ \E m \in 1 .. Len(q) : m < n /\ q[m].op = "sessions" /\ q[m].view = q[n].view
    \/ V \cap Under(q[n].view) = {}

TouchingIn(fs, v) ==
  {f \in DOMAIN fs : v = NoView \/ {fs[f].target, fs[f].pan, fs[f].scale} \cap Under(v) # {}}
Canceling(f, n, q) == \E m \in 1 .. Len(q) : m < n /\ q[m].op = "cancel" /\ q[m].f = f
FingersSwept(q, fs) ==
  \A n \in 1 .. Len(q) : q[n].op = "destroy" =>
    \/ \E m \in 1 .. Len(q) : m < n /\ q[m].op = "collect" /\ q[m].view = q[n].view
    \/ \A f \in TouchingIn(fs, q[n].view) : Canceling(f, n, q)

\* What waits is still right when its turn comes.
Fits(e, fs, V) ==
  /\ e.op \in {"endPan", "hit", "add"} => e.f \notin DOMAIN fs
  /\ e.op = "claim" /\ e.f \in DOMAIN fs => fs[e.f].tapDead = TRUE /\ fs[e.f].inScale = FALSE
  /\ e.op = "erase" /\ e.f \in DOMAIN fs => fs[e.f].dragging = FALSE
  /\ e.op = "open" => e.view \notin V
ItemsFit(q, fs, V) == \A n \in 1 .. Len(q) : Fits(q[n], fs, V)

\* Fingers refer to views that are there; a finger that did more than tap does
\* not tap; and one that drags into a session is about to lose its pan.
FingersFit(fs, there) ==
  \A f \in DOMAIN fs :
    /\ {fs[f].target, fs[f].pan, fs[f].scale} \subseteq there \cup {NoView}
    /\ fs[f].dragging = TRUE => fs[f].pan # NoView
    /\ fs[f].did # {} => fs[f].tapDead = TRUE
Dropping(f, q) == \E n \in 1 .. Len(q) : q[n].op = "drop" /\ q[n].f = f
DragsEnd(q, fs) ==
  \A f \in DOMAIN fs : fs[f].dragging = TRUE /\ fs[f].inScale = TRUE => Dropping(f, q)
OneDrags(fs) ==
  \A f, g \in DOMAIN fs : fs[f].dragging = TRUE /\ fs[g].dragging = TRUE
                            /\ fs[f].pan = fs[g].pan => f = g

Arena(q, fs, V, there) ==
  /\ Ordered(q) /\ StopsDrop(q) /\ EndsDiffer(q)
  /\ SessionsSwept(q, V) /\ FingersSwept(q, fs) /\ ItemsFit(q, fs, V)
  /\ FingersFit(fs, there) /\ DragsEnd(q, fs) /\ OneDrags(fs)

\* The views of the sessions, each once.
Zoomed(ss) == {ss[i].view : i \in 1 .. Len(ss)}
Apart(ss) == \A i, j \in 1 .. Len(ss) : ss[i].view = ss[j].view => i = j
SessionsFit ==
  /\ Zoomed(sessions) \subseteq alive /\ Apart(sessions)
  /\ scaling = Zoomed(sessions)

\* The pans that go on, and those whose end is still to be told.
Dragged(fs) == {<<f, fs[f].pan>> : f \in {g \in DOMAIN fs : fs[g].dragging = TRUE}}
Ending(q) ==
  {e \in Finger \X View : \E n \in 1 .. Len(q) :
                            q[n].op = "endPan" /\ q[n].f = e[1] /\ q[n].view = e[2]}
PansFit == panning = Dragged(fingers) \cup {e \in Ending(todo) : e[2] \in alive}

PendingFits == pending.view \in alive \cup {NoView}

IInv ==
  /\ Typed /\ Arena(todo, fingers, Zoomed(sessions), alive)
  /\ SessionsFit /\ PansFit /\ PendingFits

-----------------------------------------------------------------------------
(* Items and what they carry *)

LEMMA FingerItems ==
  \A e \in Item : e.op \in {"hit", "gather", "stop", "drop", "claim", "erase", "cancel", "endPan",
                            "add", "tap"} => e.f \in Finger
BY DEF Item

LEMMA ViewItems ==
  \A e \in Item : e.op \in {"sessions", "collect", "destroy", "hide", "fire", "endPan", "open",
                            "tap"} => e.view \in View \cup {NoView}
BY DEF Item

LEMMA OtherItems ==
  \A e \in Item : /\ e.op = "open" => e.ids \in Seq(Finger)
                  /\ e.op = "add" => e.second \in BOOLEAN
                  /\ e.op = "tap" => e.did = {}
BY DEF Item

LEMMA ItemsOfFingers ==
  \A f \in Finger : \A op \in {"hit", "gather", "stop", "drop", "claim", "erase", "cancel"} :
    [op |-> op, f |-> f] \in Item
BY DEF Item

LEMMA ItemsOfViews ==
  \A v \in View \cup {NoView} : \A op \in {"sessions", "collect", "destroy", "hide", "fire"} :
    [op |-> op, view |-> v] \in Item
BY DEF Item

LEMMA EndPanItem ==
  \A f \in Finger, v \in View \cup {NoView} : [op |-> "endPan", f |-> f, view |-> v] \in Item
BY DEF Item

LEMMA BareItems ==
  \A op \in {"resume", "removed", "settle", "needed", "stopTimer", "undefined"} :
    [op |-> op] \in Item
BY DEF Item

LEMMA OpenItem ==
  \A v \in View \cup {NoView}, ids \in Seq(Finger) :
    [op |-> "open", view |-> v, ids |-> ids] \in Item
BY DEF Item

LEMMA AddItem ==
  \A f \in Finger, t, p, s \in Found, second \in BOOLEAN :
    [op |-> "add", f |-> f, target |-> t, pan |-> p, scale |-> s, second |-> second] \in Item
BY DEF Item

LEMMA TapItem ==
  \A f \in Finger, v \in View \cup {NoView}, second \in BOOLEAN :
    [op |-> "tap", f |-> f, view |-> v, second |-> second, did |-> {}] \in Item
BY DEF Item

-----------------------------------------------------------------------------
(* Sequences of items *)

\* The first item is done.
LEMMA RestOf ==
  ASSUME NEW q \in Seq(Item), q # << >>
  PROVE  /\ Tail(q) \in Seq(Item) /\ Len(Tail(q)) \in Nat /\ Len(q) = Len(Tail(q)) + 1
         /\ Head(q) = q[1] /\ q[1] \in Item
         /\ \A n \in 1 .. Len(Tail(q)) : Tail(q)[n] = q[n + 1] /\ Tail(q)[n] \in Item
<1>1. Len(q) \in Nat \ {0} /\ q \in [1 .. Len(q) -> Item]
  BY EmptySeq, LenProperties
<1>2. /\ Tail(q) \in Seq(Item) /\ Len(Tail(q)) = Len(q) - 1
      /\ \A n \in 1 .. Len(Tail(q)) : Tail(q)[n] = q[n + 1]
  BY HeadTailProperties
<1> QED
  BY <1>1, <1>2

LEMMA RestKeepsOrder ==
  ASSUME NEW q \in Seq(Item), q # << >>
  PROVE  /\ Ordered(q) => Ordered(Tail(q))
         /\ StopsDrop(q) => StopsDrop(Tail(q))
         /\ EndsDiffer(q) => EndsDiffer(Tail(q))
<1>1. /\ Len(Tail(q)) \in Nat /\ Len(q) = Len(Tail(q)) + 1
      /\ \A n \in 1 .. Len(Tail(q)) : Tail(q)[n] = q[n + 1]
  BY RestOf
<1>2. \A n \in 1 .. Len(Tail(q)) : n + 1 \in 1 .. Len(q)
  BY <1>1
<1>3. Ordered(q) => Ordered(Tail(q))
  BY <1>1, <1>2 DEF Ordered
<1>4. ASSUME StopsDrop(q) PROVE StopsDrop(Tail(q))
  <2> SUFFICES ASSUME NEW n \in 1 .. Len(Tail(q)), Tail(q)[n].op = "stop"
               PROVE  \E m \in 1 .. Len(Tail(q)) : m > n /\ Tail(q)[m].op = "drop"
                                                     /\ Tail(q)[m].f = Tail(q)[n].f
    BY DEF StopsDrop
  <2>1. PICK m \in 1 .. Len(q) : m > n + 1 /\ q[m].op = "drop" /\ q[m].f = q[n + 1].f
    BY <1>1, <1>2, <1>4 DEF StopsDrop
  <2>2. m - 1 \in 1 .. Len(Tail(q)) /\ m - 1 > n /\ (m - 1) + 1 = m
    BY <1>1, <2>1
  <2> QED
    BY <1>1, <2>1, <2>2
<1>5. EndsDiffer(q) => EndsDiffer(Tail(q))
  BY <1>1, <1>2 DEF EndsDiffer
<1> QED
  BY <1>3, <1>4, <1>5

\* Something is put in front.
LEMMA BothOf ==
  ASSUME NEW p \in Seq(Item), NEW r \in Seq(Item)
  PROVE  /\ p \o r \in Seq(Item) /\ Len(p) \in Nat /\ Len(r) \in Nat
         /\ Len(p \o r) = Len(p) + Len(r)
         /\ \A n \in 1 .. Len(p) : (p \o r)[n] = p[n] /\ p[n] \in Item /\ n \in 1 .. Len(p \o r)
         /\ \A n \in 1 .. Len(r) : /\ (p \o r)[Len(p) + n] = r[n] /\ r[n] \in Item
                                   /\ Len(p) + n \in 1 .. Len(p \o r)
         /\ \A n \in 1 .. Len(p \o r) : n \in 1 .. Len(p) \/ n - Len(p) \in 1 .. Len(r)
<1>1. /\ Len(p) \in Nat /\ Len(r) \in Nat /\ p \in [1 .. Len(p) -> Item]
      /\ r \in [1 .. Len(r) -> Item]
  BY LenProperties
<1>2. /\ p \o r \in Seq(Item) /\ Len(p \o r) = Len(p) + Len(r)
      /\ \A n \in 1 .. Len(p) + Len(r) :
           (p \o r)[n] = IF n <= Len(p) THEN p[n] ELSE r[n - Len(p)]
  BY ConcatProperties
<1>3. \A n \in 1 .. Len(p) : (p \o r)[n] = p[n] /\ p[n] \in Item /\ n \in 1 .. Len(p \o r)
  BY <1>1, <1>2
<1>4. \A n \in 1 .. Len(r) : /\ (p \o r)[Len(p) + n] = r[n] /\ r[n] \in Item
                             /\ Len(p) + n \in 1 .. Len(p \o r)
  BY <1>1, <1>2
<1>5. \A n \in 1 .. Len(p \o r) : n \in 1 .. Len(p) \/ n - Len(p) \in 1 .. Len(r)
  BY <1>1, <1>2
<1> QED
  BY <1>1, <1>2, <1>3, <1>4, <1>5

\* Where every item is in p or in r, what holds of each holds of both.
LEMMA FrontKeepsOrder ==
  ASSUME NEW p \in Seq(Item), NEW r \in Seq(Item), Ordered(p), Ordered(r),
         \A n \in 1 .. Len(p), m \in 1 .. Len(r) : Before(p[n].op, r[m].op)
  PROVE  Ordered(p \o r)
<1> SUFFICES ASSUME NEW n \in 1 .. Len(p \o r), NEW m \in 1 .. Len(p \o r), n < m
             PROVE  Before((p \o r)[n].op, (p \o r)[m].op)
  BY DEF Ordered
<1>1. CASE m \in 1 .. Len(p)
  <2>1. n \in 1 .. Len(p)
    BY <1>1, BothOf
  <2> QED
    BY <1>1, <2>1, BothOf DEF Ordered
<1>2. CASE m - Len(p) \in 1 .. Len(r) /\ n \in 1 .. Len(p)
  <2>1. Len(p) + (m - Len(p)) = m
    BY BothOf
  <2> QED
    BY <1>2, <2>1, BothOf
<1>3. CASE m - Len(p) \in 1 .. Len(r) /\ n - Len(p) \in 1 .. Len(r)
  <2>1. Len(p) + (m - Len(p)) = m /\ Len(p) + (n - Len(p)) = n /\ n - Len(p) < m - Len(p)
    BY BothOf
  <2>2. (p \o r)[m] = r[m - Len(p)] /\ (p \o r)[n] = r[n - Len(p)]
    BY <1>3, <2>1, BothOf
  <2> QED
    BY <1>3, <2>1, <2>2 DEF Ordered
<1> QED
  BY <1>1, <1>2, <1>3, BothOf

LEMMA FrontKeepsStops ==
  ASSUME NEW p \in Seq(Item), NEW r \in Seq(Item), StopsDrop(p), StopsDrop(r)
  PROVE  StopsDrop(p \o r)
<1> SUFFICES ASSUME NEW n \in 1 .. Len(p \o r), (p \o r)[n].op = "stop"
             PROVE  \E m \in 1 .. Len(p \o r) : /\ m > n /\ (p \o r)[m].op = "drop"
                                                /\ (p \o r)[m].f = (p \o r)[n].f
  BY DEF StopsDrop
<1>1. CASE n \in 1 .. Len(p)
  <2>1. PICK m \in 1 .. Len(p) : m > n /\ p[m].op = "drop" /\ p[m].f = p[n].f
    BY <1>1, BothOf DEF StopsDrop
  <2> QED
    BY <1>1, <2>1, BothOf
<1>2. CASE n - Len(p) \in 1 .. Len(r)
  <2>1. Len(p) + (n - Len(p)) = n /\ Len(p) \in Nat
    BY BothOf
  <2>2. (p \o r)[n] = r[n - Len(p)]
    BY <1>2, <2>1, BothOf
  <2>3. PICK m \in 1 .. Len(r) : m > n - Len(p) /\ r[m].op = "drop" /\ r[m].f = r[n - Len(p)].f
    BY <1>2, <2>2 DEF StopsDrop
  <2>4. (p \o r)[Len(p) + m] = r[m] /\ Len(p) + m \in 1 .. Len(p \o r)
    BY BothOf
  <2>5. Len(p) + m > n
    BY <2>1, <2>3, BothOf
  <2> QED
    BY <2>2, <2>3, <2>4, <2>5
<1> QED
  BY <1>1, <1>2, BothOf

LEMMA FrontKeepsEnds ==
  ASSUME NEW p \in Seq(Item), NEW r \in Seq(Item), EndsDiffer(p), EndsDiffer(r),
         \A n \in 1 .. Len(p), m \in 1 .. Len(r) :
           p[n].op = "endPan" /\ r[m].op = "endPan" => p[n].f # r[m].f
  PROVE  EndsDiffer(p \o r)
<1> SUFFICES ASSUME NEW n \in 1 .. Len(p \o r), NEW m \in 1 .. Len(p \o r),
                    (p \o r)[n].op = "endPan", (p \o r)[m].op = "endPan",
                    (p \o r)[n].f = (p \o r)[m].f
             PROVE  n = m
  BY DEF EndsDiffer
<1>0. /\ Len(p) \in Nat /\ Len(p) + (m - Len(p)) = m /\ Len(p) + (n - Len(p)) = n
      /\ m - Len(p) = n - Len(p) => n = m
  BY BothOf
<1>1. n \in 1 .. Len(p) => (p \o r)[n] = p[n]
  BY BothOf
<1>2. m \in 1 .. Len(p) => (p \o r)[m] = p[m]
  BY BothOf
<1>3. n - Len(p) \in 1 .. Len(r) => (p \o r)[n] = r[n - Len(p)]
  BY <1>0, BothOf
<1>4. m - Len(p) \in 1 .. Len(r) => (p \o r)[m] = r[m - Len(p)]
  BY <1>0, BothOf
<1>5. /\ n \in 1 .. Len(p) \/ n - Len(p) \in 1 .. Len(r)
      /\ m \in 1 .. Len(p) \/ m - Len(p) \in 1 .. Len(r)
  BY BothOf
<1>6. ~(n \in 1 .. Len(p) /\ m - Len(p) \in 1 .. Len(r))
  BY <1>1, <1>4
<1>7. ~(m \in 1 .. Len(p) /\ n - Len(p) \in 1 .. Len(r))
  BY <1>2, <1>3
<1>8. n \in 1 .. Len(p) /\ m \in 1 .. Len(p) => n = m
  BY <1>1, <1>2 DEF EndsDiffer
<1>9. n - Len(p) \in 1 .. Len(r) /\ m - Len(p) \in 1 .. Len(r) => n = m
  BY <1>0, <1>3, <1>4 DEF EndsDiffer
<1> QED
  BY <1>5, <1>6, <1>7, <1>8, <1>9

LEMMA FrontKeepsSessions ==
  ASSUME NEW p \in Seq(Item), NEW r \in Seq(Item), NEW V, SessionsSwept(p, V), SessionsSwept(r, V)
  PROVE  SessionsSwept(p \o r, V)
<1> SUFFICES ASSUME NEW n \in 1 .. Len(p \o r), (p \o r)[n].op = "destroy",
                    V \cap Under((p \o r)[n].view) # {}
             PROVE  \E m \in 1 .. Len(p \o r) : m < n /\ (p \o r)[m].op = "sessions"
                                                /\ (p \o r)[m].view = (p \o r)[n].view
  BY DEF SessionsSwept
<1>1. CASE n \in 1 .. Len(p)
  <2>1. /\ (p \o r)[n] = p[n]
        /\ \A m \in 1 .. Len(p) : (p \o r)[m] = p[m] /\ m \in 1 .. Len(p \o r)
    BY <1>1, BothOf
  <2>2. PICK m \in 1 .. Len(p) : m < n /\ p[m].op = "sessions" /\ p[m].view = p[n].view
    BY <1>1, <2>1 DEF SessionsSwept
  <2> QED
    BY <2>1, <2>2
<1>2. CASE n - Len(p) \in 1 .. Len(r)
  <2>1. Len(p) + (n - Len(p)) = n /\ Len(p) \in Nat
    BY BothOf
  <2>2. (p \o r)[n] = r[n - Len(p)]
    BY <1>2, <2>1, BothOf
  <2>3. PICK m \in 1 .. Len(r) : /\ m < n - Len(p) /\ r[m].op = "sessions"
                                 /\ r[m].view = r[n - Len(p)].view
    BY <1>2, <2>2 DEF SessionsSwept
  <2>4. (p \o r)[Len(p) + m] = r[m] /\ Len(p) + m \in 1 .. Len(p \o r) /\ Len(p) + m < n
    BY <2>1, <2>3, BothOf
  <2> QED
    BY <2>2, <2>3, <2>4
<1> QED
  BY <1>1, <1>2, BothOf

\* The fingers that r has to destroy with their views are cancelled in r or in p.
SweptAfter(p, r, fs) ==
  \A n \in 1 .. Len(r) : r[n].op = "destroy" =>
    \/ \E m \in 1 .. Len(r) : m < n /\ r[m].op = "collect" /\ r[m].view = r[n].view
    \/ \A f \in TouchingIn(fs, r[n].view) :
         Canceling(f, n, r) \/ \E m \in 1 .. Len(p) : p[m].op = "cancel" /\ p[m].f = f

LEMMA FrontKeepsFingers ==
  ASSUME NEW p \in Seq(Item), NEW r \in Seq(Item), NEW fs,
         FingersSwept(p, fs), SweptAfter(p, r, fs)
  PROVE  FingersSwept(p \o r, fs)
<1> SUFFICES ASSUME NEW n \in 1 .. Len(p \o r), (p \o r)[n].op = "destroy",
                    ~ \E m \in 1 .. Len(p \o r) : m < n /\ (p \o r)[m].op = "collect"
                                                  /\ (p \o r)[m].view = (p \o r)[n].view,
                    NEW f \in TouchingIn(fs, (p \o r)[n].view)
             PROVE  \E m \in 1 .. Len(p \o r) : m < n /\ (p \o r)[m].op = "cancel"
                                                /\ (p \o r)[m].f = f
  BY DEF FingersSwept, Canceling
<1>0. /\ Len(p) \in Nat /\ Len(r) \in Nat
      /\ \A m \in 1 .. Len(p) : (p \o r)[m] = p[m] /\ m \in 1 .. Len(p \o r)
      /\ \A m \in 1 .. Len(r) : (p \o r)[Len(p) + m] = r[m] /\ Len(p) + m \in 1 .. Len(p \o r)
  BY BothOf
<1>1. CASE n \in 1 .. Len(p)
  <2>1. PICK m \in 1 .. Len(p) : m < n /\ p[m].op = "cancel" /\ p[m].f = f
    <3>1. ~ \E m \in 1 .. Len(p) : m < n /\ p[m].op = "collect" /\ p[m].view = p[n].view
      BY <1>0, <1>1
    <3>2. (p \o r)[n] = p[n]
      BY <1>0, <1>1
    <3> QED
      BY <1>1, <3>1, <3>2, ZenonT(60) DEF FingersSwept, Canceling
  <2> QED
    BY <1>0, <1>1, <2>1
<1>2. CASE n - Len(p) \in 1 .. Len(r)
  <2>1. Len(p) + (n - Len(p)) = n
    BY <1>0
  <2>2. (p \o r)[n] = r[n - Len(p)]
    BY <1>0, <1>2, <2>1
  <2>3. ~ \E m \in 1 .. Len(r) : /\ m < n - Len(p) /\ r[m].op = "collect"
                                 /\ r[m].view = r[n - Len(p)].view
    <3> SUFFICES ASSUME NEW m \in 1 .. Len(r), m < n - Len(p), r[m].op = "collect",
                        r[m].view = r[n - Len(p)].view
                 PROVE  FALSE
      OBVIOUS
    <3>1. Len(p) + m < n
      BY <1>0
    <3> QED
      BY <1>0, <2>2, <3>1
  <2>4. Canceling(f, n - Len(p), r) \/ \E m \in 1 .. Len(p) : p[m].op = "cancel" /\ p[m].f = f
    BY <1>2, <2>2, <2>3 DEF SweptAfter
  <2>5. CASE Canceling(f, n - Len(p), r)
    <3>1. PICK m \in 1 .. Len(r) : m < n - Len(p) /\ r[m].op = "cancel" /\ r[m].f = f
      BY <2>5 DEF Canceling
    <3>2. Len(p) + m < n
      BY <1>0, <3>1
    <3> QED
      BY <1>0, <3>1, <3>2
  <2>6. CASE \E m \in 1 .. Len(p) : p[m].op = "cancel" /\ p[m].f = f
    <3>1. PICK m \in 1 .. Len(p) : p[m].op = "cancel" /\ p[m].f = f
      BY <2>6
    <3>2. m < n
      BY <1>0, <1>2
    <3> QED
      BY <1>0, <3>1, <3>2
  <2> QED
    BY <2>4, <2>5, <2>6
<1> QED
  BY <1>1, <1>2, BothOf

LEMMA FrontKeepsItems ==
  ASSUME NEW p \in Seq(Item), NEW r \in Seq(Item), NEW fs, NEW V,
         ItemsFit(p, fs, V), ItemsFit(r, fs, V)
  PROVE  ItemsFit(p \o r, fs, V)
<1> SUFFICES ASSUME NEW n \in 1 .. Len(p \o r) PROVE Fits((p \o r)[n], fs, V)
  BY DEF ItemsFit
<1>1. n \in 1 .. Len(p) => (p \o r)[n] = p[n]
  BY BothOf
<1>2. n - Len(p) \in 1 .. Len(r) => (p \o r)[n] = r[n - Len(p)]
  <2>1. Len(p) + (n - Len(p)) = n
    BY BothOf
  <2> QED
    BY <2>1, BothOf
<1> QED
  BY <1>1, <1>2, BothOf DEF ItemsFit

LEMMA FrontKeepsDrops ==
  ASSUME NEW p \in Seq(Item), NEW r \in Seq(Item), NEW f, Dropping(f, r) \/ Dropping(f, p)
  PROVE  Dropping(f, p \o r)
<1>1. /\ \A m \in 1 .. Len(p) : (p \o r)[m] = p[m] /\ m \in 1 .. Len(p \o r)
      /\ \A m \in 1 .. Len(r) : (p \o r)[Len(p) + m] = r[m] /\ Len(p) + m \in 1 .. Len(p \o r)
  BY BothOf
<1>2. CASE Dropping(f, r)
  BY <1>1, <1>2 DEF Dropping
<1>3. CASE Dropping(f, p)
  BY <1>1, <1>3 DEF Dropping
<1> QED
  BY <1>2, <1>3

LEMMA FrontEnding ==
  ASSUME NEW p \in Seq(Item), NEW r \in Seq(Item)
  PROVE  Ending(p \o r) = Ending(p) \cup Ending(r)
<1>1. /\ \A m \in 1 .. Len(p) : (p \o r)[m] = p[m] /\ m \in 1 .. Len(p \o r)
      /\ \A m \in 1 .. Len(r) : (p \o r)[Len(p) + m] = r[m] /\ Len(p) + m \in 1 .. Len(p \o r)
  BY BothOf
<1>2. ASSUME NEW n \in 1 .. Len(p \o r)
      PROVE  \/ n \in 1 .. Len(p) /\ (p \o r)[n] = p[n]
             \/ n - Len(p) \in 1 .. Len(r) /\ (p \o r)[n] = r[n - Len(p)]
  <2>1. Len(p) + (n - Len(p)) = n
    BY BothOf
  <2> QED
    BY <1>1, <2>1, BothOf
<1>3. ASSUME NEW e \in Ending(p) \cup Ending(r) PROVE e \in Ending(p \o r)
  BY <1>1, <1>3, SMTT(30) DEF Ending
<1>4. ASSUME NEW e \in Ending(p \o r) PROVE e \in Ending(p) \cup Ending(r)
  BY <1>2, <1>4 DEF Ending
<1> QED
  BY <1>3, <1>4

-----------------------------------------------------------------------------
(* The arena *)

\* The first item is done, and did what those behind it rely on.
LEMMA RestIsSteady ==
  ASSUME NEW q \in Seq(Item), q # << >>, NEW fs, NEW V, NEW there, Arena(q, fs, V, there),
         Head(q).op = "sessions" => V \cap Under(Head(q).view) = {},
         Head(q).op = "drop" /\ Head(q).f \in DOMAIN fs => fs[Head(q).f].dragging # TRUE
  PROVE  /\ Ordered(Tail(q)) /\ StopsDrop(Tail(q)) /\ EndsDiffer(Tail(q))
         /\ SessionsSwept(Tail(q), V) /\ ItemsFit(Tail(q), fs, V)
         /\ FingersFit(fs, there) /\ DragsEnd(Tail(q), fs) /\ OneDrags(fs)
<1>1. /\ Len(Tail(q)) \in Nat /\ Len(q) = Len(Tail(q)) + 1 /\ Head(q) = q[1]
      /\ \A n \in 1 .. Len(Tail(q)) : Tail(q)[n] = q[n + 1] /\ n + 1 \in 1 .. Len(q)
      /\ \A n \in 1 .. Len(q) : n = 1 \/ (n - 1 \in 1 .. Len(Tail(q)) /\ q[n] = Tail(q)[n - 1])
  <2>1. /\ Len(Tail(q)) \in Nat /\ Len(q) = Len(Tail(q)) + 1 /\ Head(q) = q[1]
        /\ \A n \in 1 .. Len(Tail(q)) : Tail(q)[n] = q[n + 1]
    BY RestOf
  <2>2. ASSUME NEW n \in 1 .. Len(q), n # 1
        PROVE  n - 1 \in 1 .. Len(Tail(q)) /\ q[n] = Tail(q)[n - 1]
    <3>1. n - 1 \in 1 .. Len(Tail(q)) /\ (n - 1) + 1 = n
      BY <2>1, <2>2
    <3> QED
      BY <2>1, <3>1
  <2> QED
    BY <2>1, <2>2
<1>2. Ordered(Tail(q)) /\ StopsDrop(Tail(q)) /\ EndsDiffer(Tail(q))
  BY RestKeepsOrder DEF Arena
<1>3. SessionsSwept(Tail(q), V)
  <2> SUFFICES ASSUME NEW n \in 1 .. Len(Tail(q)), Tail(q)[n].op = "destroy",
                      V \cap Under(Tail(q)[n].view) # {}
               PROVE  \E m \in 1 .. Len(Tail(q)) : /\ m < n /\ Tail(q)[m].op = "sessions"
                                                   /\ Tail(q)[m].view = Tail(q)[n].view
    BY DEF SessionsSwept
  <2>1. PICK m \in 1 .. Len(q) : m < n + 1 /\ q[m].op = "sessions" /\ q[m].view = q[n + 1].view
    BY <1>1 DEF SessionsSwept, Arena
  <2>2. m # 1
    BY <1>1, <2>1
  <2>3. m - 1 < n
    BY <2>1
  <2> QED
    BY <1>1, <2>1, <2>2, <2>3
<1>4. ItemsFit(Tail(q), fs, V)
  BY <1>1 DEF ItemsFit, Arena
<1>5. DragsEnd(Tail(q), fs)
  <2> SUFFICES ASSUME NEW f \in DOMAIN fs, fs[f].dragging = TRUE, fs[f].inScale = TRUE
               PROVE  Dropping(f, Tail(q))
    BY DEF DragsEnd
  <2>1. PICK n \in 1 .. Len(q) : q[n].op = "drop" /\ q[n].f = f
    BY DEF DragsEnd, Arena, Dropping
  <2>2. n # 1
    BY <1>1, <2>1
  <2> QED
    BY <1>1, <2>1, <2>2 DEF Dropping
<1> QED
  BY <1>2, <1>3, <1>4, <1>5 DEF Arena

LEMMA RestIsArena ==
  ASSUME NEW q \in Seq(Item), q # << >>, NEW fs, NEW V, NEW there, Arena(q, fs, V, there),
         Head(q).op # "collect",
         Head(q).op = "sessions" => V \cap Under(Head(q).view) = {},
         Head(q).op = "cancel" => Head(q).f \notin DOMAIN fs,
         Head(q).op = "drop" /\ Head(q).f \in DOMAIN fs => fs[Head(q).f].dragging # TRUE
  PROVE  Arena(Tail(q), fs, V, there)
<1>1. /\ Len(Tail(q)) \in Nat /\ Len(q) = Len(Tail(q)) + 1 /\ Head(q) = q[1]
      /\ \A n \in 1 .. Len(Tail(q)) : Tail(q)[n] = q[n + 1] /\ n + 1 \in 1 .. Len(q)
      /\ \A n \in 1 .. Len(q) : n = 1 \/ (n - 1 \in 1 .. Len(Tail(q)) /\ q[n] = Tail(q)[n - 1])
  <2>1. /\ Len(Tail(q)) \in Nat /\ Len(q) = Len(Tail(q)) + 1 /\ Head(q) = q[1]
        /\ \A n \in 1 .. Len(Tail(q)) : Tail(q)[n] = q[n + 1]
    BY RestOf
  <2>2. ASSUME NEW n \in 1 .. Len(q), n # 1
        PROVE  n - 1 \in 1 .. Len(Tail(q)) /\ q[n] = Tail(q)[n - 1]
    <3>1. n - 1 \in 1 .. Len(Tail(q)) /\ (n - 1) + 1 = n
      BY <2>1, <2>2
    <3> QED
      BY <2>1, <3>1
  <2> QED
    BY <2>1, <2>2
<1>2. FingersSwept(Tail(q), fs)
  <2> SUFFICES ASSUME NEW n \in 1 .. Len(Tail(q)), Tail(q)[n].op = "destroy",
                      ~ \E m \in 1 .. Len(Tail(q)) : /\ m < n /\ Tail(q)[m].op = "collect"
                                                     /\ Tail(q)[m].view = Tail(q)[n].view,
                      NEW f \in TouchingIn(fs, Tail(q)[n].view)
               PROVE  \E m \in 1 .. Len(Tail(q)) : /\ m < n /\ Tail(q)[m].op = "cancel"
                                                   /\ Tail(q)[m].f = f
    BY DEF FingersSwept, Canceling
  <2>1. ~ \E m \in 1 .. Len(q) : m < n + 1 /\ q[m].op = "collect" /\ q[m].view = q[n + 1].view
    <3> SUFFICES ASSUME NEW m \in 1 .. Len(q), m < n + 1, q[m].op = "collect",
                        q[m].view = q[n + 1].view
                 PROVE  FALSE
      OBVIOUS
    <3>1. m # 1 /\ m - 1 < n
      BY <1>1
    <3> QED
      BY <1>1, <3>1
  <2>2. PICK m \in 1 .. Len(q) : m < n + 1 /\ q[m].op = "cancel" /\ q[m].f = f
    BY <1>1, <2>1 DEF FingersSwept, Arena, Canceling
  <2>3. m # 1
    BY <1>1, <2>2 DEF TouchingIn
  <2>4. m - 1 < n
    BY <2>2
  <2> QED
    BY <1>1, <2>2, <2>3, <2>4
<1> QED
  BY <1>2, RestIsSteady DEF Arena

\* Something fit is put in front of what is left.
LEMMA FrontIsArena ==
  ASSUME NEW p \in Seq(Item), NEW r \in Seq(Item), NEW fs, NEW V, NEW there,
         Arena(r, fs, V, there), Ordered(p), StopsDrop(p), EndsDiffer(p),
         SessionsSwept(p, V), FingersSwept(p, fs), ItemsFit(p, fs, V),
         \A n \in 1 .. Len(p), m \in 1 .. Len(r) :
           /\ Before(p[n].op, r[m].op)
           /\ p[n].op = "endPan" /\ r[m].op = "endPan" => p[n].f # r[m].f
  PROVE  Arena(p \o r, fs, V, there)
<1>1. SweptAfter(p, r, fs)
  BY DEF SweptAfter, FingersSwept, Arena
<1>2. /\ Ordered(p \o r) /\ StopsDrop(p \o r) /\ EndsDiffer(p \o r)
      /\ SessionsSwept(p \o r, V) /\ FingersSwept(p \o r, fs) /\ ItemsFit(p \o r, fs, V)
  BY <1>1, FrontKeepsOrder, FrontKeepsStops, FrontKeepsEnds, FrontKeepsSessions,
     FrontKeepsFingers, FrontKeepsItems DEF Arena
<1>3. DragsEnd(p \o r, fs)
  BY FrontKeepsDrops DEF DragsEnd, Arena
<1> QED
  BY <1>2, <1>3 DEF Arena

\* Fingers are lifted, and those that stay do less than before.
Calmer(fs, old) ==
  /\ DOMAIN fs \subseteq DOMAIN old
  /\ \A f \in DOMAIN fs :
       /\ fs[f].target \in {old[f].target, NoView}
       /\ fs[f].pan = old[f].pan /\ fs[f].scale = old[f].scale
       /\ fs[f].dragging = TRUE => old[f].dragging = TRUE
       /\ old[f].tapDead = TRUE => fs[f].tapDead = TRUE
       /\ fs[f].inScale = TRUE => old[f].inScale = TRUE
       /\ fs[f].did # {} => old[f].did # {} \/ fs[f].tapDead = TRUE

LEMMA CalmIsArena ==
  ASSUME PointerAssumption, NEW q \in Seq(Item), NEW fs, NEW old, NEW V, NEW W, NEW there,
         Arena(q, old, W, there), TouchTable(fs), TouchTable(old), Calmer(fs, old), V \subseteq W
  PROVE  Arena(q, fs, V, there)
<1>0. \A f \in DOMAIN fs : f \in DOMAIN old /\ fs[f] \in FingerState /\ old[f] \in FingerState
  BY DEF TouchTable, Calmer
<1>1. SessionsSwept(q, V)
  BY DEF Arena, SessionsSwept
<1>2. FingersSwept(q, fs)
  <2>1. \A v : TouchingIn(fs, v) \subseteq TouchingIn(old, v)
    <3>1. \A v : NoView \notin Under(v)
      BY DEF Under, PointerAssumption
    <3> QED
      BY <3>1 DEF TouchingIn, Calmer
  <2> QED
    BY <2>1 DEF FingersSwept, Arena
<1>3. ItemsFit(q, fs, V)
  <2> SUFFICES ASSUME NEW n \in 1 .. Len(q) PROVE Fits(q[n], fs, V)
    BY DEF ItemsFit
  <2>1. Fits(q[n], old, W)
    BY DEF ItemsFit, Arena
  <2> QED
    BY <1>0, <2>1 DEF Fits, Calmer, FingerState
<1>4. FingersFit(fs, there)
  <2> SUFFICES ASSUME NEW f \in DOMAIN fs
               PROVE  /\ {fs[f].target, fs[f].pan, fs[f].scale} \subseteq there \cup {NoView}
                      /\ fs[f].dragging = TRUE => fs[f].pan # NoView
                      /\ fs[f].did # {} => fs[f].tapDead = TRUE
    BY DEF FingersFit
  <2> QED
    BY <1>0 DEF FingersFit, Arena, Calmer
<1>5. DragsEnd(q, fs)
  BY <1>0 DEF DragsEnd, Arena, Calmer
<1>6. OneDrags(fs)
  BY <1>0 DEF OneDrags, Arena, Calmer
<1> QED
  BY <1>1, <1>2, <1>3, <1>4, <1>5, <1>6 DEF Arena

-----------------------------------------------------------------------------
(* Sessions, and sets as sequences *)

LEMMA LeastIsIn ==
  ASSUME NEW S \in SUBSET Nat, S # {}
  PROVE  Min(S) \in S
<1> DEFINE R == OpToRel(<, Nat)
<1>1. IsWellFoundedOn(R, Nat)
  BY NatLessThanWellFounded
<1>2. \A x, y \in Nat : y < x => <<y, x>> \in R
  BY SMT DEF OpToRel
<1> HIDE DEF R
<1>3. PICK x \in S : \A y \in S : ~(<<y, x>> \in R)
  BY <1>1, WFMin
<1>4. \A y \in S : x <= y
  <2> SUFFICES ASSUME NEW y \in S, ~(x <= y) PROVE FALSE
    OBVIOUS
  <2>1. x \in Nat /\ y \in Nat /\ y < x
    OBVIOUS
  <2> QED
    BY <1>2, <1>3, <2>1
<1> QED
  BY <1>3, <1>4 DEF Min

LEMMA WithoutOne ==
  ASSUME NEW S, NEW s \in Seq(S), NEW i \in 1 .. Len(s)
  PROVE  /\ RemoveAt(s, i) \in Seq(S) /\ Len(RemoveAt(s, i)) = Len(s) - 1
         /\ \A n \in 1 .. Len(s) - 1 : RemoveAt(s, i)[n] = IF n < i THEN s[n] ELSE s[n + 1]
<1>1. Len(s) \in Nat /\ \A n \in 1 .. Len(s) : s[n] \in S
  BY LenProperties, ElementOfSeq
<1> DEFINE a == SubSeq(s, 1, i - 1)
<1> DEFINE b == SubSeq(s, i + 1, Len(s))
<1>2. /\ a \in Seq(S) /\ Len(a) = i - 1
      /\ \A n \in 1 .. i - 1 : a[n] = s[n]
  <2>1. /\ 1 \in Int /\ i - 1 \in Int /\ \A n \in 1 .. i - 1 : s[n] \in S
    BY <1>1
  <2>2. /\ a \in Seq(S) /\ Len(a) = IF 1 <= i - 1 THEN (i - 1) - 1 + 1 ELSE 0
        /\ \A n \in 1 .. (i - 1) - 1 + 1 : a[n] = s[1 + n - 1]
    BY <2>1, SubSeqProperties
  <2> HIDE DEF a
  <2> QED
    BY <2>2
<1>3. /\ b \in Seq(S) /\ Len(b) = Len(s) - i
      /\ \A n \in 1 .. Len(s) - i : b[n] = s[i + n]
  <2>1. /\ i + 1 \in Int /\ Len(s) \in Int /\ \A n \in i + 1 .. Len(s) : s[n] \in S
    BY <1>1
  <2>2. /\ b \in Seq(S) /\ Len(b) = IF i + 1 <= Len(s) THEN Len(s) - (i + 1) + 1 ELSE 0
        /\ \A n \in 1 .. Len(s) - (i + 1) + 1 : b[n] = s[(i + 1) + n - 1]
    BY <2>1, SubSeqProperties
  <2> HIDE DEF b
  <2>3. \A n \in 1 .. Len(s) - i : n \in 1 .. Len(s) - (i + 1) + 1 /\ (i + 1) + n - 1 = i + n
    BY <1>1
  <2> QED
    BY <1>1, <2>2, <2>3
<1>4. RemoveAt(s, i) = a \o b
  BY DEF RemoveAt
<1> HIDE DEF a, b
<1>5. /\ a \o b \in Seq(S) /\ Len(a \o b) = Len(a) + Len(b)
      /\ \A n \in 1 .. Len(a) + Len(b) :
           (a \o b)[n] = IF n <= Len(a) THEN a[n] ELSE b[n - Len(a)]
  BY <1>2, <1>3, ConcatProperties
<1>6. ASSUME NEW n \in 1 .. Len(s) - 1
      PROVE  (a \o b)[n] = IF n < i THEN s[n] ELSE s[n + 1]
  <2>1. CASE n < i
    BY <1>1, <1>2, <1>3, <1>5, <2>1
  <2>2. CASE ~(n < i)
    <3>1. n - (i - 1) \in 1 .. Len(s) - i /\ i + (n - (i - 1)) = n + 1 /\ ~(n <= i - 1)
      BY <1>1, <2>2
    <3>2. b[n - (i - 1)] = s[n + 1]
      BY <1>3, <3>1
    <3>3. n \in 1 .. Len(a) + Len(b) /\ Len(a) = i - 1
      BY <1>1, <1>2, <1>3
    <3>4. (a \o b)[n] = b[n - (i - 1)]
      BY <1>5, <3>1, <3>3
    <3> QED
      BY <2>2, <3>2, <3>4
  <2> QED
    BY <2>1, <2>2
<1> QED
  BY <1>1, <1>2, <1>3, <1>4, <1>5, <1>6

LEMMA SessionEnded ==
  ASSUME NEW ss \in Seq(Session), NEW i \in 1 .. Len(ss), Apart(ss)
  PROVE  /\ RemoveAt(ss, i) \in Seq(Session) /\ Apart(RemoveAt(ss, i))
         /\ Zoomed(RemoveAt(ss, i)) = Zoomed(ss) \ {ss[i].view}
<1> DEFINE r == RemoveAt(ss, i)
<1>1. /\ Len(ss) \in Nat /\ r \in Seq(Session) /\ Len(r) = Len(ss) - 1
      /\ \A n \in 1 .. Len(ss) - 1 : r[n] = IF n < i THEN ss[n] ELSE ss[n + 1]
  BY WithoutOne, LenProperties
<1> DEFINE was(n) == IF n < i THEN n ELSE n + 1
<1> HIDE DEF r
<1>a. ASSUME NEW n \in 1 .. Len(r)
      PROVE  was(n) \in 1 .. Len(ss) /\ was(n) # i /\ r[n] = ss[was(n)]
  BY <1>1
<1>b. \A n, m \in 1 .. Len(r) : was(n) = was(m) => n = m
  BY <1>1
<1> HIDE DEF was
<1>2. Apart(r)
  BY <1>a, <1>b DEF Apart
<1>3. ASSUME NEW n \in 1 .. Len(r) PROVE r[n].view \in Zoomed(ss) \ {ss[i].view}
  <2>1. ss[was(n)].view # ss[i].view
    BY <1>a DEF Apart
  <2> QED
    BY <1>a, <2>1 DEF Zoomed
<1>4. ASSUME NEW n \in 1 .. Len(ss), n # i PROVE ss[n].view \in Zoomed(r)
  <2>1. CASE n < i
    <3>1. n \in 1 .. Len(r) /\ r[n] = ss[n]
      BY <1>1, <2>1
    <3> QED
      BY <3>1 DEF Zoomed
  <2>2. CASE n > i
    <3>1. n - 1 \in 1 .. Len(r) /\ (n - 1) + 1 = n /\ ~(n - 1 < i)
      BY <1>1, <2>2
    <3>2. r[n - 1] = ss[n]
      BY <1>1, <3>1
    <3> QED
      BY <3>1, <3>2 DEF Zoomed
  <2> QED
    BY <1>1, <1>4, <2>1, <2>2
<1>5. Zoomed(r) = Zoomed(ss) \ {ss[i].view}
  BY <1>3, <1>4 DEF Zoomed
<1> QED
  BY <1>1, <1>2, <1>5 DEF r

LEMMA SessionOpened ==
  ASSUME NEW ss \in Seq(Session), NEW s \in Session, Apart(ss), s.view \notin Zoomed(ss)
  PROVE  /\ Append(ss, s) \in Seq(Session) /\ Apart(Append(ss, s))
         /\ Zoomed(Append(ss, s)) = Zoomed(ss) \cup {s.view}
<1>1. /\ Len(ss) \in Nat /\ Append(ss, s) \in Seq(Session)
      /\ Len(Append(ss, s)) = Len(ss) + 1
      /\ \A n \in 1 .. Len(ss) : Append(ss, s)[n] = ss[n]
      /\ Append(ss, s)[Len(ss) + 1] = s
  BY AppendProperties, LenProperties
<1>2. \A n \in 1 .. Len(Append(ss, s)) : n \in 1 .. Len(ss) \/ n = Len(ss) + 1
  BY <1>1
<1>3. Apart(Append(ss, s))
  BY <1>1, <1>2 DEF Apart, Zoomed
<1>4. Zoomed(Append(ss, s)) \subseteq Zoomed(ss) \cup {s.view}
  BY <1>1, <1>2 DEF Zoomed
<1>5. Zoomed(ss) \cup {s.view} \subseteq Zoomed(Append(ss, s))
  <2>1. \A n \in 1 .. Len(ss) : n \in 1 .. Len(Append(ss, s))
    BY <1>1
  <2>2. Len(ss) + 1 \in 1 .. Len(Append(ss, s))
    BY <1>1
  <2> QED
    BY <1>1, <2>1, <2>2 DEF Zoomed
<1> QED
  BY <1>1, <1>3, <1>4, <1>5

LEMMA SessionChanged ==
  ASSUME NEW ss \in Seq(Session), NEW i \in 1 .. Len(ss), NEW x \in Seq(Finger), Apart(ss)
  PROVE  LET r == [ss EXCEPT ![i].ids = x]
         IN  r \in Seq(Session) /\ Apart(r) /\ Zoomed(r) = Zoomed(ss)
<1> DEFINE r == [ss EXCEPT ![i].ids = x]
<1>1. ss[i] \in Session
  BY ElementOfSeq
<1> DEFINE e == [ss[i] EXCEPT !.ids = x]
<1>2. e \in Session /\ e.view = ss[i].view
  BY <1>1 DEF Session
<1>3. r = [ss EXCEPT ![i] = e]
  OBVIOUS
<1> HIDE DEF r, e
<1>4. /\ r \in Seq(Session) /\ Len(r) = Len(ss)
      /\ \A j \in 1 .. Len(ss) : r[j] = IF j = i THEN e ELSE ss[j]
  BY <1>2, <1>3, ExceptSeq
<1>5. \A j \in 1 .. Len(ss) : r[j].view = ss[j].view
  BY <1>2, <1>4
<1>6. Apart(r) /\ Zoomed(r) = Zoomed(ss)
  BY <1>4, <1>5 DEF Apart, Zoomed
<1> QED
  BY <1>4, <1>6 DEF r

LEMMA IdsRemoved ==
  ASSUME NEW ids \in Seq(Finger), NEW f
  PROVE  RemoveFirst(ids, f) \in Seq(Finger)
<1> DEFINE I == {i \in 1 .. Len(ids) : ids[i] = f}
<1>1. CASE \E i \in 1 .. Len(ids) : ids[i] = f
  <2>1. I \in SUBSET Nat /\ I # {}
    BY <1>1, LenProperties
  <2>2. Min(I) \in I
    BY <2>1, LeastIsIn
  <2>3. RemoveFirst(ids, f) = RemoveAt(ids, Min(I))
    BY <1>1, <2>1 DEF RemoveFirst, SelectInSeq
  <2> QED
    BY <2>2, <2>3, WithoutOne
<1>2. CASE ~ \E i \in 1 .. Len(ids) : ids[i] = f
  BY <1>2 DEF RemoveFirst
<1> QED
  BY <1>1, <1>2

LEMMA AllOf ==
  ASSUME NEW S, IsFiniteSet(S)
  PROVE  /\ Cardinality(S) \in Nat /\ SetToSeq(S) \in [1 .. Cardinality(S) -> S]
         /\ \A x \in S : \E n \in 1 .. Cardinality(S) : SetToSeq(S)[n] = x
<1> DEFINE c == Cardinality(S)
<1>1. c \in Nat /\ ExistsBijection(1 .. c, S)
  BY FS_CardinalityType
<1>2. \E f \in [1 .. c -> S] : IsInjective(f)
  BY <1>1 DEF ExistsBijection, Bijection, Injection
<1>3. SetToSeq(S) \in [1 .. c -> S] /\ IsInjective(SetToSeq(S))
  BY <1>2 DEF SetToSeq
<1>4. SetToSeq(S) \in Injection(1 .. c, S)
  BY <1>3 DEF Injection
<1>5. Cardinality(1 .. c) = c
  <2>1. Cardinality(1 .. c) = IF 1 > c THEN 0 ELSE c - 1 + 1
    BY <1>1, FS_Interval
  <2> HIDE DEF c
  <2> QED
    BY <1>1, <2>1
<1>6. SetToSeq(S) \in Surjection(1 .. c, S)
  BY <1>4, <1>5, FS_Injection
<1> QED
  BY <1>1, <1>3, <1>6 DEF Surjection

-----------------------------------------------------------------------------
(* Steps *)

LEMMA OneInFront ==
  ASSUME NEW e \in Item, NEW r \in Seq(Item), NEW fs, NEW V, NEW there,
         Arena(r, fs, V, there), e.op \notin {"stop", "destroy"}, Fits(e, fs, V),
         \A m \in 1 .. Len(r) : /\ Before(e.op, r[m].op)
                                /\ e.op = "endPan" /\ r[m].op = "endPan" => e.f # r[m].f
  PROVE  <<e>> \o r \in Seq(Item) /\ Arena(<<e>> \o r, fs, V, there)
<1> DEFINE p == <<e>>
<1>1. p \in Seq(Item) /\ Len(p) = 1 /\ p[1] = e
  OBVIOUS
<1> HIDE DEF p
<1>2. \A n \in 1 .. Len(p) : n = 1 /\ p[n] = e
  BY <1>1
<1>3. Ordered(p) /\ EndsDiffer(p)
  BY <1>2 DEF Ordered, EndsDiffer
<1>4. StopsDrop(p)
  BY <1>2 DEF StopsDrop
<1>5. SessionsSwept(p, V) /\ FingersSwept(p, fs)
  BY <1>2 DEF SessionsSwept, FingersSwept
<1>6. ItemsFit(p, fs, V)
  BY <1>2 DEF ItemsFit
<1>7. Arena(p \o r, fs, V, there)
  BY <1>1, <1>2, <1>3, <1>4, <1>5, <1>6, FrontIsArena
<1>8. p \o r \in Seq(Item)
  BY <1>1, BothOf
<1> QED
  BY <1>7, <1>8 DEF p

\* A step that removes no view.
LEMMA StepAmongViews ==
  ASSUME IInv, TouchTable(fingers'), todo' \in Seq(Item), UNCHANGED alive,
         sessions' \in Seq(Session), Apart(sessions'), scaling' = Zoomed(sessions'),
         Zoomed(sessions') \subseteq alive,
         Arena(todo', fingers', Zoomed(sessions'), alive),
         panning' = Dragged(fingers') \cup {e \in Ending(todo') : e[2] \in alive},
         pending' \in [view : alive \cup {NoView}, age : 0 .. DoubleTapTimeout + 1]
  PROVE  IInv'
<1>1. Typed'
  BY DEF IInv, Typed, TouchTable
<1>2. Arena(todo, fingers, Zoomed(sessions), alive)'
  BY DEF Zoomed
<1>3. SessionsFit'
  BY DEF IInv, SessionsFit, Zoomed, Apart
<1>4. PansFit'
  BY DEF PansFit
<1>5. PendingFits'
  BY DEF PendingFits
<1> QED
  BY <1>1, <1>2, <1>3, <1>4, <1>5 DEF IInv

\* A step that opens and ends no session either.
LEMMA StepInArena ==
  ASSUME IInv, TouchTable(fingers'), todo' \in Seq(Item),
         Arena(todo', fingers', Zoomed(sessions), alive),
         panning' = Dragged(fingers') \cup {e \in Ending(todo') : e[2] \in alive},
         UNCHANGED <<sessions, scaling, alive>>,
         pending' \in [view : alive \cup {NoView}, age : 0 .. DoubleTapTimeout + 1]
  PROVE  IInv'
<1>1. Zoomed(sessions') = Zoomed(sessions) /\ Apart(sessions') /\ scaling' = Zoomed(sessions')
  BY DEF Zoomed, Apart, IInv, SessionsFit
<1>2. sessions' \in Seq(Session) /\ Zoomed(sessions') \subseteq alive
  BY <1>1 DEF IInv, Typed, SessionsFit
<1> QED
  BY <1>1, <1>2, StepAmongViews

\* The rest of an event: the removals are over.
LEMMA MainRest ==
  ASSUME IInv, todo # << >>, Now.op \notin Sweeping
  PROVE  /\ Rest \in Seq(Item) /\ Now \in Item
         /\ Ending(Rest) = {} /\ panning = Dragged(fingers)
         /\ \A n \in 1 .. Len(Rest) : /\ Rest[n] \in Item /\ Before(Now.op, Rest[n].op)
                                      /\ Rest[n].op \notin Sweeping
<1>1. /\ Rest \in Seq(Item) /\ Now \in Item /\ Now = todo[1]
      /\ Len(Rest) \in Nat /\ Len(todo) = Len(Rest) + 1
      /\ \A n \in 1 .. Len(Rest) : Rest[n] = todo[n + 1] /\ Rest[n] \in Item
  BY RestOf DEF IInv, Typed, Rest, Now
<1>2. \A n \in 1 .. Len(Rest) : n + 1 \in 1 .. Len(todo) /\ 1 < n + 1 /\ 1 \in 1 .. Len(todo)
  BY <1>1
<1>3. \A n \in 1 .. Len(Rest) : Before(Now.op, Rest[n].op)
  BY <1>1, <1>2 DEF IInv, Arena, Ordered
<1>4. \A n \in 1 .. Len(Rest) : Rest[n].op \notin Sweeping
  BY <1>3 DEF Before
<1>5. Ending(Rest) = {}
  BY <1>4 DEF Ending, Sweeping
<1>6. \A n \in 1 .. Len(todo) : n = 1 \/ (n - 1 \in 1 .. Len(Rest) /\ todo[n] = Rest[n - 1])
  <2> SUFFICES ASSUME NEW n \in 1 .. Len(todo), n # 1
               PROVE  n - 1 \in 1 .. Len(Rest) /\ todo[n] = Rest[n - 1]
    OBVIOUS
  <2>1. n - 1 \in 1 .. Len(Rest) /\ (n - 1) + 1 = n
    BY <1>1
  <2> QED
    BY <1>1, <2>1
<1>7. Ending(todo) = {}
  BY <1>1, <1>4, <1>6 DEF Ending, Sweeping
<1>8. panning = Dragged(fingers)
  BY <1>7 DEF IInv, PansFit
<1> QED
  BY <1>1, <1>3, <1>4, <1>5, <1>8

\* Nothing is under way.
LEMMA Resting ==
  ASSUME IInv, Idle
  PROVE  /\ panning = Dragged(fingers) /\ Arena(<< >>, fingers, Zoomed(sessions), alive)
         /\ \A f \in Down : fingers[f].dragging = TRUE => fingers[f].inScale # TRUE
         /\ Ending(<< >>) = {}
<1>1. Ending(<< >>) = {}
  BY DEF Ending
<1>2. \A f \in Down : fingers[f].dragging = TRUE => fingers[f].inScale # TRUE
  <2>1. \A f : ~Dropping(f, << >>)
    BY DEF Dropping
  <2> QED
    BY <2>1 DEF IInv, Arena, DragsEnd, Idle, Down
<1> QED
  BY <1>1, <1>2 DEF IInv, PansFit, Idle

\* The end of an event, of which nothing but this item is left.
LEMMA LastOfEvent ==
  ASSUME IInv, todo # << >>, Now.op \in Single
  PROVE  /\ \A n \in 1 .. Len(Rest) : Rest[n].op = "removed"
         /\ Now.op \notin Sweeping /\ Now.op \notin {"collect", "sessions", "cancel", "drop"}
         /\ Arena(Rest, fingers, Zoomed(sessions), alive)
<1>1. Now.op \notin Sweeping /\ Now.op \notin {"collect", "sessions", "cancel", "drop"}
  BY DEF Single, Sweeping
<1>2. \A n \in 1 .. Len(Rest) : Rest[n].op = "removed"
  BY <1>1, MainRest DEF Before
<1>3. Arena(Rest, fingers, Zoomed(sessions), alive)
  BY <1>1, RestIsArena DEF IInv, Typed, Rest, Now
<1> QED
  BY <1>1, <1>2, <1>3

LEMMA TapsFit ==
  ASSUME PointerAssumption, IInv
  PROVE  /\ pending \in [view : alive \cup {NoView}, age : 0 .. DoubleTapTimeout + 1]
         /\ NoTap \in [view : alive \cup {NoView}, age : 0 .. DoubleTapTimeout + 1]
         /\ alive \subseteq View /\ NoView \notin View
BY DEF IInv, Typed, PendingFits, NoTap, PointerAssumption

\* A finger hits a view, and what it hits is left for AddFinger.
LEMMA HitFits ==
  ASSUME PointerAssumption, IInv, NEW f \in Finger \ Down, NEW hit \in alive \cup {NoView},
         NEW near \in BOOLEAN, NEW rest \in Seq(Item), Hit(f, hit, near, rest),
         Arena(rest, fingers, Zoomed(sessions), alive),
         \A n \in 1 .. Len(rest) : rest[n].op = "removed"
  PROVE  /\ todo' \in Seq(Item) /\ Arena(todo', fingers, Zoomed(sessions), alive)
         /\ Ending(todo') = {}
         /\ pending' \in [view : alive \cup {NoView}, age : 0 .. DoubleTapTimeout + 1]
<1> DEFINE target == Nearest(hit, Receivers \cup Taps \cup DoubleTaps \cup LongPresses)
           second == /\ pending # NoTap /\ pending.view = target
                     /\ pending.age <= DoubleTapTimeout /\ near
           add == [op |-> "add", f |-> f, target |-> target, pan |-> Nearest(hit, Pans),
                   scale |-> Nearest(hit, Scales), second |-> second]
<1>1. add \in Item /\ add.op = "add" /\ add.f = f
  <2>1. /\ Receivers \cup Taps \cup DoubleTaps \cup LongPresses \in SUBSET View
        /\ Pans \in SUBSET View /\ Scales \in SUBSET View /\ hit \in View \cup {NoView}
    BY TapsFit DEF PointerAssumption
  <2>2. /\ target \in Found /\ Nearest(hit, Pans) \in Found /\ Nearest(hit, Scales) \in Found
    <3>1. \A h \in View \cup {NoView} : \A S \in SUBSET View : Nearest(h, S) \in Found
      BY DEF Found
    <3> HIDE DEF Found
    <3> QED
      BY <2>1, <3>1
  <2>3. second \in BOOLEAN
    OBVIOUS
  <2> HIDE DEF target, second
  <2> QED
    BY <2>2, <2>3, AddItem
<1>2. todo' \in {rest, <<add>> \o rest} /\ pending' = NoTap
  BY DEF Hit, Resolve, Call, CallBack, GoOn
<1> HIDE DEF target, second, add
<1>3. Fits(add, fingers, Zoomed(sessions))
  BY <1>1 DEF Fits, Down
<1>4. <<add>> \o rest \in Seq(Item) /\ Arena(<<add>> \o rest, fingers, Zoomed(sessions), alive)
  <2>1. \A m \in 1 .. Len(rest) : /\ Before(add.op, rest[m].op)
                                  /\ add.op = "endPan" /\ rest[m].op = "endPan"
                                       => add.f # rest[m].f
    BY <1>1 DEF Before, Single, Sweeping
  <2> QED
    BY <1>1, <1>3, <2>1, OneInFront
<1>5. Ending(rest) = {} /\ Ending(<<add>> \o rest) = {}
  <2>1. Ending(rest) = {}
    BY DEF Ending
  <2>2. <<add>> \in Seq(Item) /\ Ending(<<add>>) = {}
    BY <1>1 DEF Ending
  <2> QED
    BY <2>1, <2>2, FrontEnding
<1> QED
  BY <1>2, <1>4, <1>5, TapsFit

\* The record of a finger goes, and a pan it had is to be ended.
LEMMA FinishFits ==
  ASSUME PointerAssumption, IInv, NEW f \in Down, NEW notify \in BOOLEAN, NEW rest \in Seq(Item),
         Finish(f, notify, rest), Arena(rest, Erased(f), Zoomed(sessions), alive),
         Ending(rest) = Ending(todo),
         \A n \in 1 .. Len(rest) : rest[n].op = "endPan" => rest[n].f # f,
         UNCHANGED panning
  PROVE  /\ TouchTable(fingers') /\ todo' \in Seq(Item)
         /\ Arena(todo', fingers', Zoomed(sessions), alive)
         /\ panning' = Dragged(fingers') \cup {e \in Ending(todo') : e[2] \in alive}
<1> DEFINE s == fingers[f]
           end == [op |-> "endPan", f |-> f, view |-> s.pan]
<1>1. /\ f \in Finger /\ s \in FingerState /\ s.pan \in alive \cup {NoView}
      /\ s.dragging = TRUE => s.pan \in alive /\ s.pan \in View
      /\ alive \subseteq View /\ TouchTable(fingers)
  BY TapsFit DEF IInv, Typed, TouchTable, Down, Arena, FingersFit
<1>2. fingers' = Erased(f) /\ todo' = (IF s.dragging THEN <<end>> ELSE << >>) \o rest
  BY DEF Finish, Call, CallBack, GoOn
<1>3. /\ TouchTable(Erased(f)) /\ DOMAIN Erased(f) = Down \ {f}
      /\ \A g \in Down \ {f} : Erased(f)[g] = fingers[g]
  BY <1>1 DEF Erased, TouchTable, Down
<1>4. CASE s.dragging = TRUE
  <2>1. end \in Item /\ end.op = "endPan" /\ end.f = f /\ end.view = s.pan
    BY <1>1, EndPanItem DEF FingerState
  <2>2. todo' = <<end>> \o rest
    BY <1>2, <1>4
  <2> HIDE DEF end
  <2>3. Fits(end, Erased(f), Zoomed(sessions))
    BY <1>3, <2>1 DEF Fits
  <2>4. todo' \in Seq(Item) /\ Arena(todo', Erased(f), Zoomed(sessions), alive)
    <3>1. \A m \in 1 .. Len(rest) : /\ Before(end.op, rest[m].op)
                                    /\ end.op = "endPan" /\ rest[m].op = "endPan"
                                         => end.f # rest[m].f
      BY <2>1 DEF Before, Single, Sweeping
    <3> QED
      BY <2>1, <2>2, <2>3, <3>1, OneInFront
  <2>5. <<end>> \in Seq(Item) /\ Ending(<<end>>) = {<<f, s.pan>>}
    <3>1. <<end>> \in Seq(Item) /\ Len(<<end>>) = 1 /\ <<end>>[1] = end
      BY <2>1
    <3>2. <<f, s.pan>> \in Finger \X View
      BY <1>1, <1>4
    <3>3. \A e \in Finger \X View : e = <<f, s.pan>> <=> (f = e[1] /\ s.pan = e[2])
      BY <1>1
    <3> HIDE DEF s
    <3> QED
      BY <2>1, <3>1, <3>2, <3>3 DEF Ending
  <2>6. Ending(todo') = Ending(todo) \cup {<<f, s.pan>>}
    BY <2>2, <2>5, FrontEnding
  <2>7. Dragged(fingers) = Dragged(Erased(f)) \cup {<<f, s.pan>>}
    BY <1>3, <1>4 DEF Dragged, Down
  <2>8. panning = Dragged(fingers) \cup {e \in Ending(todo) : e[2] \in alive}
    BY DEF IInv, PansFit
  <2>9. <<f, s.pan>>[2] \in alive
    BY <1>1, <1>4
  <2> HIDE DEF s
  <2> QED
    BY <1>2, <1>3, <2>4, <2>6, <2>7, <2>8, <2>9
<1>5. CASE s.dragging = FALSE
  <2>1. todo' = rest
    BY <1>2, <1>5, ConcatEmptySeq
  <2>2. Dragged(Erased(f)) = Dragged(fingers)
    BY <1>3, <1>5 DEF Dragged, Down
  <2>3. panning = Dragged(fingers) \cup {e \in Ending(todo) : e[2] \in alive}
    BY DEF IInv, PansFit
  <2> QED
    BY <1>2, <1>3, <2>1, <2>2, <2>3
<1> QED
  BY <1>1, <1>4, <1>5 DEF FingerState

LEMMA QuietEnds ==
  ASSUME NEW q, \A n \in 1 .. Len(q) : q[n].op \notin Sweeping
  PROVE  Ending(q) = {}
BY DEF Ending, Sweeping

\* Where only the count of the removals is left to be reset, the fingers alone matter.
LEMMA AfterLast ==
  ASSUME NEW q \in Seq(Item), \A n \in 1 .. Len(q) : q[n].op = "removed",
         NEW fs, NEW V, NEW there, FingersFit(fs, there), DragsEnd(q, fs), OneDrags(fs)
  PROVE  Arena(q, fs, V, there)
<1>1. Ordered(q) /\ StopsDrop(q) /\ EndsDiffer(q)
  BY DEF Ordered, Before, Sweeping, Single, StopsDrop, EndsDiffer
<1>2. SessionsSwept(q, V) /\ FingersSwept(q, fs) /\ ItemsFit(q, fs, V)
  BY DEF SessionsSwept, FingersSwept, ItemsFit, Fits
<1> QED
  BY <1>1, <1>2 DEF Arena

\* What is undefined stands in front of what is left undone.
LEMMA GoWrongKeeps ==
  ASSUME PointerAssumption, IInv, GoWrong,
         UNCHANGED <<alive, fingers, pending, sessions, panning, scaling>>
  PROVE  IInv'
<1> DEFINE u == [op |-> "undefined"]
<1>1. todo' = <<u>> \o todo
  BY DEF GoWrong, GoOn
<1>2. /\ todo \in Seq(Item) /\ TouchTable(fingers)
      /\ Arena(todo, fingers, Zoomed(sessions), alive)
      /\ panning = Dragged(fingers) \cup {e \in Ending(todo) : e[2] \in alive}
  BY DEF IInv, Typed, PansFit
<1>3. u \in Item /\ u.op = "undefined"
  BY BareItems
<1> HIDE DEF u
<1>4. /\ Fits(u, fingers, Zoomed(sessions))
      /\ \A m \in 1 .. Len(todo) : /\ Before(u.op, todo[m].op)
                                   /\ u.op = "endPan" /\ todo[m].op = "endPan"
                                        => u.f # todo[m].f
  BY <1>3 DEF Fits, Before, Sweeping, Single
<1>5. todo' \in Seq(Item) /\ Arena(todo', fingers, Zoomed(sessions), alive)
  BY <1>1, <1>2, <1>3, <1>4, OneInFront
<1>6. Ending(todo') = Ending(todo)
  <2>1. <<u>> \in Seq(Item) /\ Ending(<<u>>) = {}
    BY <1>3 DEF Ending
  <2>2. Ending(<<u>> \o todo) = Ending(<<u>>) \cup Ending(todo)
    BY <1>2, <2>1, FrontEnding
  <2> QED
    BY <1>1, <2>1, <2>2
<1> QED
  BY <1>2, <1>5, <1>6, StepInArena, TapsFit

LEMMA StopInFront ==
  ASSUME NEW f \in Finger, NEW r \in Seq(Item), NEW fs, NEW V, NEW there, Arena(r, fs, V, there),
         \A m \in 1 .. Len(r) : r[m].op \notin Sweeping \cup {"claim"}
  PROVE  /\ Stop(f) \o r \in Seq(Item) /\ Arena(Stop(f) \o r, fs, V, there)
         /\ \A m \in 1 .. Len(Stop(f) \o r) : (Stop(f) \o r)[m].op \notin Sweeping \cup {"claim"}
<1> DEFINE p == Stop(f)
<1>1. /\ p \in Seq(Item) /\ Len(p) = 2
      /\ p[1].op = "stop" /\ p[1].f = f /\ p[2].op = "drop" /\ p[2].f = f
  <2>1. [op |-> "stop", f |-> f] \in Item /\ [op |-> "drop", f |-> f] \in Item
    BY ItemsOfFingers
  <2> QED
    BY <2>1 DEF Stop
<1> HIDE DEF p
<1>2. \A n \in 1 .. Len(p) : n \in {1, 2} /\ p[n].op \in {"stop", "drop"} /\ p[n].f = f
  BY <1>1
<1>3. Ordered(p) /\ EndsDiffer(p)
  BY <1>2 DEF Ordered, Before, Sweeping, Single, EndsDiffer
<1>4. StopsDrop(p)
  BY <1>1, <1>2 DEF StopsDrop
<1>5. SessionsSwept(p, V) /\ FingersSwept(p, fs) /\ ItemsFit(p, fs, V)
  BY <1>2 DEF SessionsSwept, FingersSwept, ItemsFit, Fits
<1>6. \A n \in 1 .. Len(p), m \in 1 .. Len(r) :
        /\ Before(p[n].op, r[m].op)
        /\ p[n].op = "endPan" /\ r[m].op = "endPan" => p[n].f # r[m].f
  BY <1>2 DEF Before, Sweeping, Single
<1>7. Arena(p \o r, fs, V, there)
  BY <1>1, <1>3, <1>4, <1>5, <1>6, FrontIsArena
<1>8. \A m \in 1 .. Len(p \o r) : (p \o r)[m].op \notin Sweeping \cup {"claim"}
  <2> SUFFICES ASSUME NEW m \in 1 .. Len(p \o r)
               PROVE  (p \o r)[m].op \notin Sweeping \cup {"claim"}
    OBVIOUS
  <2>1. CASE m \in 1 .. Len(p)
    <3>1. (p \o r)[m] = p[m]
      BY <1>1, <2>1, BothOf
    <3> QED
      BY <1>2, <2>1, <3>1 DEF Sweeping
  <2>2. CASE m - Len(p) \in 1 .. Len(r)
    <3>1. Len(p) + (m - Len(p)) = m
      BY <1>1
    <3>2. \A k \in 1 .. Len(r) : (p \o r)[Len(p) + k] = r[k]
      BY <1>1, BothOf, ZenonT(60)
    <3>3. (p \o r)[m] = r[m - Len(p)]
      BY <2>2, <3>1, <3>2
    <3> QED
      BY <2>2, <3>3
  <2> QED
    BY <1>1, <2>1, <2>2, BothOf
<1> QED
  BY <1>1, <1>7, <1>8, BothOf DEF p

LEMMA ErasedIsCalm ==
  ASSUME IInv, NEW f
  PROVE  /\ Calmer(Erased(f), fingers) /\ TouchTable(Erased(f)) /\ TouchTable(fingers)
         /\ DOMAIN Erased(f) = Down \ {f} /\ \A g \in Down \ {f} : Erased(f)[g] = fingers[g]
<1>1. TouchTable(fingers)
  BY DEF IInv, Typed
<1> QED
  BY <1>1 DEF Calmer, Erased, TouchTable, Down

LEMMA NowFits ==
  ASSUME IInv, todo # << >>
  PROVE  /\ todo \in Seq(Item) /\ Now \in Item /\ Now = todo[1] /\ 1 \in 1 .. Len(todo)
         /\ Fits(Now, fingers, Zoomed(sessions))
         /\ TouchTable(fingers) /\ FingersFit(fingers, alive) /\ OneDrags(fingers)
         /\ DragsEnd(todo, fingers) /\ \A f \in Down : f \in Finger /\ fingers[f] \in FingerState
<1>1. todo \in Seq(Item) /\ TouchTable(fingers)
  BY DEF IInv, Typed
<1>2. Now \in Item /\ Now = todo[1] /\ 1 \in 1 .. Len(todo)
  BY <1>1, RestOf DEF Now
<1> QED
  BY <1>1, <1>2 DEF IInv, Arena, ItemsFit, TouchTable, Down

LEMMA TouchDownKeeps ==
  ASSUME PointerAssumption, IInv, NEW f \in Finger, TouchDown(f)
  PROVE  IInv'
<1>1. /\ panning = Dragged(fingers) /\ Arena(<< >>, fingers, Zoomed(sessions), alive)
      /\ Ending(<< >>) = {} /\ todo = << >> /\ UNCHANGED <<alive, sessions, panning, scaling>>
  BY Resting DEF TouchDown, Idle, historyVars
<1>2. << >> \in Seq(Item) /\ \A n \in 1 .. Len(<< >>) : FALSE
  BY EmptySeq
<1>3. CASE f \in Down
  <2> DEFINE hit == [op |-> "hit", f |-> f]
  <2>1. hit \in Item /\ hit.op = "hit" /\ hit.f = f
    BY ItemsOfFingers
  <2>2. Finish(f, TRUE, <<hit>>) /\ UNCHANGED pending
    BY <1>3 DEF TouchDown
  <2> HIDE DEF hit
  <2>3. Arena(<< >>, Erased(f), Zoomed(sessions), alive)
    BY <1>1, <1>2, ErasedIsCalm, CalmIsArena
  <2>4. <<hit>> \in Seq(Item) /\ <<hit>> \o << >> = <<hit>> /\ Len(<<hit>>) = 1 /\ <<hit>>[1] = hit
    BY <2>1, ConcatEmptySeq
  <2>5. Fits(hit, Erased(f), Zoomed(sessions))
    BY <2>1, ErasedIsCalm, ZenonT(60) DEF Fits
  <2>6. Arena(<<hit>>, Erased(f), Zoomed(sessions), alive)
    <3> DEFINE none == << >>
    <3>1. /\ none \in Seq(Item) /\ \A n \in 1 .. Len(none) : FALSE
          /\ Arena(none, Erased(f), Zoomed(sessions), alive) /\ <<hit>> \o none = <<hit>>
      BY <1>2, <2>3, <2>4
    <3> HIDE DEF none
    <3>2. hit.op \notin {"stop", "destroy"}
      BY <2>1
    <3>3. Arena(<<hit>> \o none, Erased(f), Zoomed(sessions), alive)
      BY <2>1, <2>5, <3>1, <3>2, OneInFront
    <3> QED
      BY <3>1, <3>3
  <2>7. Ending(<<hit>>) = {}
    BY <2>1, <2>4 DEF Ending
  <2>8. \A n \in 1 .. Len(<<hit>>) : <<hit>>[n].op = "endPan" => <<hit>>[n].f # f
    BY <2>1, <2>4
  <2>9. /\ TouchTable(fingers') /\ todo' \in Seq(Item)
        /\ Arena(todo', fingers', Zoomed(sessions), alive)
        /\ panning' = Dragged(fingers') \cup {e \in Ending(todo') : e[2] \in alive}
    BY <1>1, <1>3, <2>2, <2>4, <2>6, <2>7, <2>8, FinishFits
  <2> QED
    BY <1>1, <2>2, <2>9, StepInArena, TapsFit
<1>4. CASE f \notin Down
  <2>1. PICK hit \in alive \cup {NoView}, near \in BOOLEAN :
          Hit(f, hit, near, << >>) /\ UNCHANGED fingers
    BY <1>4 DEF TouchDown
  <2>2. /\ todo' \in Seq(Item) /\ Arena(todo', fingers, Zoomed(sessions), alive)
        /\ Ending(todo') = {}
        /\ pending' \in [view : alive \cup {NoView}, age : 0 .. DoubleTapTimeout + 1]
    <3> DEFINE none == << >>
    <3>1. /\ none \in Seq(Item) /\ \A n \in 1 .. Len(none) : none[n].op = "removed"
          /\ Arena(none, fingers, Zoomed(sessions), alive) /\ Hit(f, hit, near, none)
      BY <1>1, <1>2, <2>1
    <3> HIDE DEF none
    <3> QED
      BY <1>4, <3>1, HitFits
  <2>3. TouchTable(fingers)
    BY DEF IInv, Typed
  <2> QED
    BY <1>1, <2>1, <2>2, <2>3, StepInArena
<1> QED
  BY <1>3, <1>4

LEMMA HitAgainKeeps ==
  ASSUME PointerAssumption, IInv, HitAgain
  PROVE  IInv'
<1>1. todo # << >> /\ Now.op = "hit" /\ UNCHANGED <<alive, fingers, sessions, panning, scaling>>
  BY DEF HitAgain, At, Now, historyVars
<1>2. Now.op \in Single /\ Now.op \notin Sweeping
  BY <1>1 DEF Single, Sweeping
<1>3. /\ Rest \in Seq(Item) /\ Now \in Item /\ panning = Dragged(fingers)
      /\ \A n \in 1 .. Len(Rest) : Rest[n].op = "removed"
      /\ Arena(Rest, fingers, Zoomed(sessions), alive)
  BY <1>1, <1>2, MainRest, LastOfEvent
<1>4. Now.f \in Finger \ Down
  <2>1. Now.f \in Finger
    BY <1>1, <1>3, FingerItems
  <2> QED
    BY <1>1, <2>1, NowFits DEF Fits, Down
<1>5. PICK hit \in alive \cup {NoView}, near \in BOOLEAN : Hit(Now.f, hit, near, Rest)
  BY DEF HitAgain
<1>6. /\ todo' \in Seq(Item) /\ Arena(todo', fingers, Zoomed(sessions), alive)
      /\ Ending(todo') = {}
      /\ pending' \in [view : alive \cup {NoView}, age : 0 .. DoubleTapTimeout + 1]
  <2> DEFINE f == Now.f
             rest == Rest
  <2>1. /\ f \in Finger \ Down /\ rest \in Seq(Item) /\ Hit(f, hit, near, rest)
        /\ Arena(rest, fingers, Zoomed(sessions), alive)
        /\ \A n \in 1 .. Len(rest) : rest[n].op = "removed"
    BY <1>3, <1>4, <1>5
  <2> HIDE DEF f, rest
  <2> QED
    BY <2>1, HitFits
<1>7. TouchTable(fingers)
  BY DEF IInv, Typed
<1> QED
  BY <1>1, <1>3, <1>6, <1>7, StepInArena

LEMMA AddFingerKeeps ==
  ASSUME PointerAssumption, IInv, AddFinger
  PROVE  IInv'
<1>1. /\ todo # << >> /\ Now.op = "add"
      /\ UNCHANGED <<alive, pending, sessions, panning, scaling>>
  BY DEF AddFinger, At, Now
<1>2. Now.op \in Single /\ Now.op \notin Sweeping
  BY <1>1 DEF Single, Sweeping
<1>3. /\ Rest \in Seq(Item) /\ Now \in Item /\ panning = Dragged(fingers) /\ Ending(Rest) = {}
      /\ \A n \in 1 .. Len(Rest) : Rest[n].op = "removed"
      /\ Arena(Rest, fingers, Zoomed(sessions), alive)
  BY <1>1, <1>2, MainRest, LastOfEvent
<1>4. /\ Now.f \in Finger /\ Now.f \notin Down /\ Now.second \in BOOLEAN
      /\ TouchTable(fingers) /\ FingersFit(fingers, alive) /\ OneDrags(fingers)
  BY <1>1, <1>3, FingerItems, OtherItems, NowFits DEF Fits, Down
<1>5. CASE {Now.target, Now.pan, Now.scale} \subseteq alive \cup {NoView}
  <2> DEFINE fs == [f \in Down \cup {Now.f} |-> IF f = Now.f THEN NewFinger(Now) ELSE fingers[f]]
             gather == [op |-> "gather", f |-> Now.f]
  <2>1. fingers' = fs /\ todo' = <<gather>> \o Rest
    BY <1>5 DEF AddFinger, Call, CallBack, GoOn
  <2>2. /\ NewFinger(Now) \in FingerState /\ NewFinger(Now).dragging = FALSE
        /\ NewFinger(Now).did = {} /\ NewFinger(Now).target = Now.target
        /\ NewFinger(Now).pan = Now.pan /\ NewFinger(Now).scale = Now.scale
    BY <1>4, <1>5, TapsFit DEF NewFinger, FingerState, PointerAssumption
  <2>3. /\ DOMAIN fs = Down \cup {Now.f} /\ fs[Now.f] = NewFinger(Now)
        /\ \A f \in Down : fs[f] = fingers[f]
    BY <1>4
  <2>4. gather \in Item /\ gather.op = "gather"
    BY <1>4, ItemsOfFingers
  <2> HIDE DEF fs, gather
  <2>5. TouchTable(fs)
    <3>1. \A f \in DOMAIN fs : fs[f] \in FingerState
      BY <1>4, <2>2, <2>3 DEF TouchTable, Down
    <3>2. fs = [f \in DOMAIN fs |-> fs[f]]
      BY DEF fs
    <3> QED
      BY <1>4, <2>3, <3>1, <3>2 DEF TouchTable, Down
  <2>6. FingersFit(fs, alive)
    BY <1>4, <1>5, <2>2, <2>3 DEF FingersFit, Down
  <2>7. DragsEnd(Rest, fs)
    BY <1>3, <2>2, <2>3 DEF DragsEnd, Arena, Down
  <2>8. OneDrags(fs)
    BY <1>4, <2>2, <2>3 DEF OneDrags, Down
  <2>9. Arena(Rest, fs, Zoomed(sessions), alive)
    BY <1>3, <2>6, <2>7, <2>8, AfterLast
  <2>10. <<gather>> \o Rest \in Seq(Item) /\ Arena(<<gather>> \o Rest, fs, Zoomed(sessions), alive)
    <3>1. /\ Fits(gather, fs, Zoomed(sessions)) /\ gather.op \notin {"stop", "destroy"}
          /\ \A m \in 1 .. Len(Rest) : /\ Before(gather.op, Rest[m].op)
                                       /\ gather.op = "endPan" /\ Rest[m].op = "endPan"
                                            => gather.f # Rest[m].f
      BY <1>3, <2>4 DEF Fits, Before, Single, Sweeping
    <3> QED
      BY <1>3, <2>4, <2>9, <3>1, OneInFront
  <2>11. Ending(<<gather>> \o Rest) = {}
    <3>1. <<gather>> \in Seq(Item) /\ Ending(<<gather>>) = {}
      BY <2>4 DEF Ending
    <3> QED
      BY <1>3, <3>1, FrontEnding
  <2>12. Dragged(fs) = Dragged(fingers)
    BY <1>4, <2>2, <2>3 DEF Dragged, Down
  <2> QED
    BY <1>1, <1>3, <2>1, <2>5, <2>10, <2>11, <2>12, StepInArena, TapsFit
<1>6. CASE ~({Now.target, Now.pan, Now.scale} \subseteq alive \cup {NoView})
  BY <1>6, GoWrongKeeps DEF AddFinger
<1> QED
  BY <1>5, <1>6

LEMMA OneFingerChanges ==
  ASSUME NEW fs, TouchTable(fs), NEW f \in DOMAIN fs, NEW e \in FingerState
  PROVE  /\ TouchTable([fs EXCEPT ![f] = e]) /\ DOMAIN [fs EXCEPT ![f] = e] = DOMAIN fs
         /\ [fs EXCEPT ![f] = e][f] = e
         /\ \A g \in DOMAIN fs : g # f => [fs EXCEPT ![f] = e][g] = fs[g]
BY DEF TouchTable

LEMMA StopTapKeeps ==
  ASSUME PointerAssumption, IInv, StopTap
  PROVE  IInv'
<1>1. /\ todo # << >> /\ Now.op = "stop"
      /\ UNCHANGED <<alive, pending, sessions, panning, scaling>>
  BY DEF StopTap, At, Now
<1>2. /\ Now.op \notin Sweeping
      /\ Now.op \notin {"collect", "sessions", "cancel", "drop"}
  BY <1>1 DEF Sweeping
<1>3. /\ Rest \in Seq(Item) /\ Now \in Item /\ panning = Dragged(fingers) /\ Ending(Rest) = {}
      /\ \A n \in 1 .. Len(Rest) : Rest[n].op # "claim" /\ Rest[n].op \notin Sweeping
  BY <1>1, <1>2, MainRest DEF Before
<1>4. Arena(Rest, fingers, Zoomed(sessions), alive)
  BY <1>1, <1>2, RestIsArena DEF IInv, Typed, Rest, Now
<1>5. todo' = Rest
  BY DEF StopTap, Call, CallBack, GoOn
<1>6. TouchTable(fingers)
  BY <1>1, NowFits
<1>7. CASE Now.f \in Down
  <2> DEFINE e == [fingers[Now.f] EXCEPT !.tapDead = TRUE, !.inScale = TRUE,
                                         !.did = @ \cup {"scale"}]
             fs == [fingers EXCEPT ![Now.f] = e]
  <2>1. fingers' = fs
    BY <1>7 DEF StopTap
  <2>2. fingers[Now.f] \in FingerState
    BY <1>1, <1>7, NowFits
  <2>3. /\ e \in FingerState /\ e.target = fingers[Now.f].target /\ e.pan = fingers[Now.f].pan
        /\ e.scale = fingers[Now.f].scale /\ e.dragging = fingers[Now.f].dragging
        /\ e.tapDead = TRUE
    BY <2>2 DEF FingerState
  <2> HIDE DEF e
  <2>4. /\ TouchTable(fs) /\ DOMAIN fs = Down /\ fs[Now.f] = e
        /\ \A f \in Down : f # Now.f => fs[f] = fingers[f]
    BY <1>6, <1>7, <2>3, OneFingerChanges DEF Down
  <2> HIDE DEF fs
  <2>5. \A f \in Down : /\ fs[f].target = fingers[f].target /\ fs[f].pan = fingers[f].pan
                        /\ fs[f].scale = fingers[f].scale
                        /\ fs[f].dragging = fingers[f].dragging
                        /\ fs[f].did # {} => fingers[f].did # {} \/ fs[f].tapDead = TRUE
                        /\ fingers[f].tapDead = TRUE => fs[f].tapDead = TRUE
    BY <2>3, <2>4
  <2>6. Dragged(fs) = Dragged(fingers)
    BY <2>4, <2>5 DEF Dragged, Down
  <2>7. FingersFit(fs, alive)
    <3> SUFFICES ASSUME NEW f \in DOMAIN fs
                 PROVE  /\ {fs[f].target, fs[f].pan, fs[f].scale} \subseteq alive \cup {NoView}
                        /\ fs[f].dragging = TRUE => fs[f].pan # NoView
                        /\ fs[f].did # {} => fs[f].tapDead = TRUE
      BY DEF FingersFit
    <3>1. /\ {fingers[f].target, fingers[f].pan, fingers[f].scale} \subseteq alive \cup {NoView}
          /\ fingers[f].dragging = TRUE => fingers[f].pan # NoView
          /\ fingers[f].did # {} => fingers[f].tapDead = TRUE
      BY <1>4, <2>4 DEF FingersFit, Arena, Down
    <3> QED
      BY <2>4, <2>5, <3>1
  <2>8. OneDrags(fs)
    BY <1>4, <2>4, <2>5 DEF OneDrags, Arena, Down
  <2>9. DragsEnd(Rest, fs)
    <3> SUFFICES ASSUME NEW f \in DOMAIN fs, fs[f].dragging = TRUE, fs[f].inScale = TRUE
                 PROVE  Dropping(f, Rest)
      BY DEF DragsEnd
    <3>1. CASE f = Now.f
      <4>1. /\ Len(Rest) \in Nat /\ Len(todo) = Len(Rest) + 1 /\ Now = todo[1]
            /\ \A n \in 1 .. Len(Rest) : Rest[n] = todo[n + 1]
        BY <1>1, NowFits, RestOf DEF Rest, Now
      <4>2. PICK m \in 1 .. Len(todo) : m > 1 /\ todo[m].op = "drop" /\ todo[m].f = todo[1].f
        BY <1>1, <4>1, NowFits DEF IInv, Arena, StopsDrop
      <4>3. m - 1 \in 1 .. Len(Rest) /\ (m - 1) + 1 = m
        BY <4>1, <4>2
      <4>4. Rest[m - 1] = todo[m]
        BY <4>1, <4>3
      <4> QED
        BY <3>1, <4>1, <4>2, <4>3, <4>4 DEF Dropping
    <3>2. CASE f # Now.f
      BY <1>4, <2>4, <3>2 DEF DragsEnd, Arena, Down
    <3> QED
      BY <3>1, <3>2
  <2>10. ItemsFit(Rest, fs, Zoomed(sessions))
    <3> SUFFICES ASSUME NEW n \in 1 .. Len(Rest) PROVE Fits(Rest[n], fs, Zoomed(sessions))
      BY DEF ItemsFit
    <3>1. Fits(Rest[n], fingers, Zoomed(sessions)) /\ Rest[n].op # "claim"
      BY <1>3, <1>4 DEF ItemsFit, Arena
    <3> QED
      BY <2>4, <2>5, <3>1 DEF Fits, Down
  <2>11. FingersSwept(Rest, fs)
    BY <1>3 DEF FingersSwept, Sweeping
  <2>12. Arena(Rest, fs, Zoomed(sessions), alive)
    BY <1>4, <2>7, <2>8, <2>9, <2>10, <2>11 DEF Arena
  <2> QED
    BY <1>1, <1>3, <1>5, <2>1, <2>4, <2>6, <2>12, StepInArena, TapsFit
<1>8. CASE Now.f \notin Down
  <2>1. UNCHANGED fingers
    BY <1>8 DEF StopTap
  <2> QED
    BY <1>1, <1>3, <1>4, <1>5, <1>6, <2>1, StepInArena, TapsFit
<1> QED
  BY <1>7, <1>8

LEMMA GatherKeeps ==
  ASSUME PointerAssumption, IInv, Gather
  PROVE  IInv'
<1>1. /\ todo # << >> /\ Now.op = "gather"
      /\ UNCHANGED <<alive, fingers, pending, panning, scaling>>
  BY DEF Gather, At, Now, historyVars
<1>2. Now.op \in Single /\ Now.op \notin Sweeping
  BY <1>1 DEF Single, Sweeping
<1>3. /\ Rest \in Seq(Item) /\ Now \in Item /\ panning = Dragged(fingers) /\ Ending(Rest) = {}
      /\ \A n \in 1 .. Len(Rest) : Rest[n].op = "removed"
      /\ Arena(Rest, fingers, Zoomed(sessions), alive)
  BY <1>1, <1>2, MainRest, LastOfEvent
<1>4. /\ Now.f \in Finger /\ TouchTable(fingers)
      /\ \A f \in Down : f \in Finger /\ fingers[f] \in FingerState
  BY <1>1, <1>3, FingerItems, NowFits
<1>5. \A n \in 1 .. Len(Rest) : Rest[n].op \notin Sweeping \cup {"claim"}
  BY <1>3 DEF Sweeping
<1> DEFINE view == fingers[Now.f].scale
           partners == {g \in Down \ {Now.f} : view # NoView /\ ~fingers[g].inScale
                                               /\ fingers[g].scale = view}
<1>6. CASE todo' = Rest /\ UNCHANGED sessions
  BY <1>1, <1>3, <1>4, <1>6, StepInArena, TapsFit
<1>7. CASE /\ Now.f \in Down /\ SessionsOf(view) # {}
           /\ LET i == CHOOSE i \in SessionsOf(view) : TRUE
              IN  /\ sessions' = [sessions EXCEPT ![i].ids = Append(@, Now.f)]
                  /\ todo' = Stop(Now.f) \o Rest
  <2> DEFINE i == CHOOSE i \in SessionsOf(view) : TRUE
  <2>1. i \in SessionsOf(view)
    BY <1>7
  <2>2. sessions \in Seq(Session) /\ Apart(sessions) /\ scaling = Zoomed(sessions)
        /\ Zoomed(sessions) \subseteq alive
    BY DEF IInv, Typed, SessionsFit
  <2>3. i \in 1 .. Len(sessions)
    BY <2>1, <2>2, LenProperties DEF SessionsOf
  <2>4. sessions' = [sessions EXCEPT ![i].ids = Append(sessions[i].ids, Now.f)]
    BY <1>7
  <2> HIDE DEF i
  <2>5. Append(sessions[i].ids, Now.f) \in Seq(Finger)
    <3>1. sessions[i] \in Session
      BY <2>2, <2>3, ElementOfSeq
    <3> QED
      BY <1>4, <3>1, AppendProperties DEF Session
  <2>6. /\ sessions' \in Seq(Session) /\ Apart(sessions') /\ Zoomed(sessions') = Zoomed(sessions)
    BY <2>2, <2>3, <2>4, <2>5, SessionChanged
  <2>7. /\ todo' \in Seq(Item) /\ Arena(todo', fingers, Zoomed(sessions), alive)
        /\ \A m \in 1 .. Len(todo') : todo'[m].op \notin Sweeping \cup {"claim"}
    BY <1>3, <1>4, <1>5, <1>7, StopInFront
  <2>8. Ending(todo') = {}
    BY <2>7, QuietEnds
  <2> QED
    BY <1>1, <1>3, <1>4, <2>2, <2>6, <2>7, <2>8, StepAmongViews, TapsFit
<1>8. CASE /\ Now.f \in Down /\ SessionsOf(view) = {} /\ UNCHANGED sessions
           /\ \E g \in partners :
                todo' = Stop(g) \o Stop(Now.f)
                          \o <<[op |-> "open", view |-> view, ids |-> <<g, Now.f>>]>> \o Rest
  <2>1. PICK g \in partners :
          todo' = Stop(g) \o Stop(Now.f)
                    \o <<[op |-> "open", view |-> view, ids |-> <<g, Now.f>>]>> \o Rest
    BY <1>8
  <2>2. g \in Finger /\ view # NoView
    BY <1>4
  <2>3. view \in View \cup {NoView} /\ <<g, Now.f>> \in Seq(Finger)
    BY <1>4, <1>8, <2>2 DEF FingerState
  <2>4. view \notin Zoomed(sessions)
    <3>1. DOMAIN sessions = 1 .. Len(sessions)
      BY LenProperties DEF IInv, Typed
    <3> QED
      BY <1>8, <2>2, <3>1 DEF SessionsOf, Zoomed
  <2> HIDE DEF view, partners
  <2> DEFINE open == [op |-> "open", view |-> view, ids |-> <<g, Now.f>>]
  <2>5. open \in Item /\ open.op = "open" /\ open.view = view
    BY <2>3, OpenItem
  <2>6. todo' = Stop(g) \o Stop(Now.f) \o <<open>> \o Rest
    BY <2>1
  <2> HIDE DEF open
  <2>7. Fits(open, fingers, Zoomed(sessions))
    BY <2>4, <2>5 DEF Fits
  <2> DEFINE r1 == <<open>> \o Rest
  <2>8. /\ r1 \in Seq(Item) /\ Arena(r1, fingers, Zoomed(sessions), alive)
        /\ \A m \in 1 .. Len(r1) : r1[m].op \notin Sweeping \cup {"claim"}
    <3>1. /\ open.op \notin {"stop", "destroy"}
          /\ \A m \in 1 .. Len(Rest) : /\ Before(open.op, Rest[m].op)
                                       /\ open.op = "endPan" /\ Rest[m].op = "endPan"
                                            => open.f # Rest[m].f
      BY <1>3, <2>5 DEF Before, Single, Sweeping
    <3>2. r1 \in Seq(Item) /\ Arena(r1, fingers, Zoomed(sessions), alive)
      BY <1>3, <2>5, <2>7, <3>1, OneInFront
    <3>3. ASSUME NEW m \in 1 .. Len(r1)
          PROVE  r1[m].op \notin Sweeping \cup {"claim"}
      <4>1. /\ <<open>> \in Seq(Item) /\ Len(<<open>>) = 1 /\ <<open>>[1] = open
        BY <2>5
      <4>2. /\ \A n \in 1 .. Len(<<open>>) : r1[n] = <<open>>[n]
            /\ \A n \in 1 .. Len(Rest) : r1[Len(<<open>>) + n] = Rest[n]
            /\ m \in 1 .. Len(<<open>>) \/ m - Len(<<open>>) \in 1 .. Len(Rest)
        BY <1>3, <4>1, BothOf
      <4> HIDE DEF r1
      <4>3. CASE m \in 1 .. Len(<<open>>)
        <5>1. r1[m] = open
          BY <4>1, <4>2, <4>3
        <5> QED
          BY <2>5, <5>1 DEF Sweeping
      <4>4. CASE m - Len(<<open>>) \in 1 .. Len(Rest)
        <5>1. Len(<<open>>) + (m - Len(<<open>>)) = m
          BY <4>1
        <5>2. r1[m] = Rest[m - Len(<<open>>)]
          BY <4>2, <4>4, <5>1
        <5> QED
          BY <1>5, <4>4, <5>2
      <4> QED
        BY <4>2, <4>3, <4>4
    <3> QED
      BY <3>2, <3>3
  <2>9. todo' = Stop(g) \o (Stop(Now.f) \o r1)
    <3>1. Stop(g) \in Seq(Item) /\ Stop(Now.f) \in Seq(Item) /\ <<open>> \in Seq(Item)
      <4>1. ASSUME NEW f \in Finger PROVE Stop(f) \in Seq(Item)
        <5>1. [op |-> "stop", f |-> f] \in Item /\ [op |-> "drop", f |-> f] \in Item
          BY ItemsOfFingers
        <5> QED
          BY <5>1 DEF Stop
      <4> QED
        BY <1>4, <2>2, <2>5, <4>1
    <3>2. Stop(Now.f) \o <<open>> \in Seq(Item) /\ Stop(g) \o Stop(Now.f) \in Seq(Item)
      BY <3>1, ConcatProperties
    <3>3. (Stop(g) \o Stop(Now.f)) \o <<open>> = Stop(g) \o (Stop(Now.f) \o <<open>>)
      BY <3>1, ConcatAssociative
    <3>4. (Stop(g) \o (Stop(Now.f) \o <<open>>)) \o Rest
            = Stop(g) \o ((Stop(Now.f) \o <<open>>) \o Rest)
      BY <1>3, <3>1, <3>2, ConcatAssociative, SMTT(30)
    <3>5. (Stop(Now.f) \o <<open>>) \o Rest = Stop(Now.f) \o (<<open>> \o Rest)
      BY <1>3, <3>1, ConcatAssociative
    <3> QED
      BY <2>6, <3>3, <3>4, <3>5
  <2> HIDE DEF r1
  <2> DEFINE r2 == Stop(Now.f) \o r1
  <2>10. /\ r2 \in Seq(Item) /\ Arena(r2, fingers, Zoomed(sessions), alive)
         /\ \A m \in 1 .. Len(r2) : r2[m].op \notin Sweeping \cup {"claim"}
    BY <1>4, <2>8, StopInFront
  <2> HIDE DEF r2
  <2>11. todo' = Stop(g) \o r2
    BY <2>9 DEF r2
  <2>12. /\ todo' \in Seq(Item) /\ Arena(todo', fingers, Zoomed(sessions), alive)
         /\ \A m \in 1 .. Len(todo') : todo'[m].op \notin Sweeping \cup {"claim"}
    BY <2>2, <2>10, <2>11, StopInFront
  <2>13. Ending(todo') = {}
    BY <2>12, QuietEnds
  <2> QED
    BY <1>1, <1>3, <1>4, <1>8, <2>12, <2>13, StepInArena, TapsFit
<1> QED
  BY <1>6, <1>7, <1>8 DEF Gather, GoOn

LEMMA DropPanKeeps ==
  ASSUME PointerAssumption, IInv, DropPan
  PROVE  IInv'
<1>1. /\ todo # << >> /\ Now.op = "drop"
      /\ UNCHANGED <<alive, pending, sessions, scaling>>
  BY DEF DropPan, At, Now
<1>2. Now.op \notin Sweeping /\ Now.op \notin {"collect", "sessions", "cancel"}
  BY <1>1 DEF Sweeping
<1>3. /\ Rest \in Seq(Item) /\ Now \in Item /\ panning = Dragged(fingers) /\ Ending(Rest) = {}
  BY <1>1, <1>2, MainRest
<1>4. todo' = Rest
  BY DEF DropPan, Call, CallBack, GoOn
<1>5. TouchTable(fingers) /\ FingersFit(fingers, alive) /\ todo \in Seq(Item)
  BY <1>1, NowFits
<1>6. CASE Now.f \in Down
  <2> DEFINE s == fingers[Now.f]
             e == [fingers[Now.f] EXCEPT !.target = NoView, !.dragging = FALSE]
             fs == [fingers EXCEPT ![Now.f] = e]
  <2>1. fingers' = fs
    BY <1>6 DEF DropPan
  <2>2. s \in FingerState
    BY <1>1, <1>6, NowFits
  <2>3. /\ e \in FingerState /\ e.target = NoView /\ e.pan = s.pan
        /\ e.scale = s.scale /\ e.dragging = FALSE
        /\ e.tapDead = s.tapDead /\ e.inScale = s.inScale /\ e.did = s.did
    BY <2>2 DEF FingerState
  <2> HIDE DEF e
  <2>4. /\ TouchTable(fs) /\ DOMAIN fs = Down /\ fs[Now.f] = e
        /\ \A f \in Down : f # Now.f => fs[f] = fingers[f]
    BY <1>5, <1>6, <2>3, OneFingerChanges DEF Down
  <2> HIDE DEF fs
  <2>5. Calmer(fs, fingers)
    BY <2>3, <2>4 DEF Calmer, Down
  <2>6. Arena(todo, fs, Zoomed(sessions), alive)
    BY <1>5, <2>4, <2>5, CalmIsArena DEF IInv
  <2>7. Arena(Rest, fs, Zoomed(sessions), alive)
    <3>1. Head(todo).op = "drop" /\ Head(todo).f \in DOMAIN fs => fs[Head(todo).f].dragging # TRUE
      BY <2>3, <2>4 DEF Now
    <3> QED
      BY <1>1, <1>2, <1>5, <2>6, <3>1, RestIsArena DEF Rest, Now
  <2>8. panning' = Dragged(fs)
    <3>1. CASE s.dragging = TRUE
      <4>1. s.pan \in alive
        BY <1>5, <1>6, <3>1 DEF FingersFit, Down
      <4>2. <<Now.f, s.pan>> \in panning
        BY <1>3, <1>6, <3>1 DEF Dragged, Down
      <4>3. panning' = panning \ {<<Now.f, s.pan>>}
        BY <1>6, <3>1, <4>1, <4>2 DEF DropPan, PanEnded
      <4>4. Dragged(fs) = Dragged(fingers) \ {<<Now.f, s.pan>>}
        BY <2>3, <2>4 DEF Dragged, Down
      <4> QED
        BY <1>3, <4>3, <4>4
    <3>2. CASE s.dragging = FALSE
      <4>1. UNCHANGED panning
        BY <1>6, <3>2 DEF DropPan
      <4>2. Dragged(fs) = Dragged(fingers)
        BY <2>3, <2>4, <3>2 DEF Dragged, Down
      <4> QED
        BY <1>3, <4>1, <4>2
    <3> QED
      BY <2>2, <3>1, <3>2 DEF FingerState
  <2> QED
    BY <1>1, <1>3, <1>4, <2>1, <2>4, <2>7, <2>8, StepInArena, TapsFit
<1>7. CASE Now.f \notin Down
  <2>1. UNCHANGED <<fingers, panning>>
    BY <1>7 DEF DropPan
  <2>2. Arena(Rest, fingers, Zoomed(sessions), alive)
    BY <1>1, <1>2, <1>5, <1>7, RestIsArena DEF Rest, Now, IInv, Down
  <2> QED
    BY <1>1, <1>3, <1>4, <1>5, <2>1, <2>2, StepInArena, TapsFit
<1> QED
  BY <1>6, <1>7

LEMMA OpenSessionKeeps ==
  ASSUME PointerAssumption, IInv, OpenSession
  PROVE  IInv'
<1>1. /\ todo # << >> /\ Now.op = "open"
      /\ UNCHANGED <<alive, fingers, pending, panning>>
  BY DEF OpenSession, At, Now
<1>2. Now.op \in Single /\ Now.op \notin Sweeping
  BY <1>1 DEF Single, Sweeping
<1>3. /\ Rest \in Seq(Item) /\ Now \in Item /\ panning = Dragged(fingers) /\ Ending(Rest) = {}
      /\ \A n \in 1 .. Len(Rest) : Rest[n].op = "removed"
      /\ Arena(Rest, fingers, Zoomed(sessions), alive)
  BY <1>1, <1>2, MainRest, LastOfEvent
<1>4. /\ Now.ids \in Seq(Finger) /\ Now.view \notin Zoomed(sessions) /\ TouchTable(fingers)
      /\ FingersFit(fingers, alive) /\ OneDrags(fingers)
  BY <1>1, <1>3, OtherItems, NowFits DEF Fits
<1>5. CASE Now.view \in alive
  <2> DEFINE s == [view |-> Now.view, ids |-> Now.ids]
  <2>1. s \in Session /\ s.view = Now.view
    BY <1>4, <1>5, TapsFit DEF Session
  <2>2. /\ sessions' = Append(sessions, s) /\ scaling' = scaling \cup {s.view} /\ todo' = Rest
    BY <1>5 DEF OpenSession, CallBack
  <2> HIDE DEF s
  <2>3. /\ sessions \in Seq(Session) /\ Apart(sessions) /\ scaling = Zoomed(sessions)
        /\ Zoomed(sessions) \subseteq alive
    BY DEF IInv, Typed, SessionsFit
  <2>4. /\ sessions' \in Seq(Session) /\ Apart(sessions') /\ scaling' = Zoomed(sessions')
        /\ Zoomed(sessions') \subseteq alive
    BY <1>4, <1>5, <2>1, <2>2, <2>3, SessionOpened
  <2>5. Arena(Rest, fingers, Zoomed(sessions'), alive)
    BY <1>3, <1>4, AfterLast DEF Arena
  <2> QED
    BY <1>1, <1>3, <1>4, <2>2, <2>4, <2>5, StepAmongViews, TapsFit
<1>6. CASE Now.view \notin alive
  BY <1>6, GoWrongKeeps DEF OpenSession
<1> QED
  BY <1>5, <1>6

\* An event of one item.
LEMMA OneItem ==
  ASSUME NEW e \in Item, e.op \notin {"stop", "destroy", "endPan"}, NEW fs, NEW V, NEW there,
         Arena(<< >>, fs, V, there), Fits(e, fs, V)
  PROVE  <<e>> \in Seq(Item) /\ Arena(<<e>>, fs, V, there) /\ Ending(<<e>>) = {}
<1> DEFINE none == << >>
<1>1. /\ none \in Seq(Item) /\ \A n \in 1 .. Len(none) : FALSE
      /\ Arena(none, fs, V, there)
  BY EmptySeq
<1>2. <<e>> \in Seq(Item) /\ <<e>> \o none = <<e>> /\ Len(<<e>>) = 1 /\ <<e>>[1] = e
  BY ConcatEmptySeq
<1> HIDE DEF none
<1>3. Arena(<<e>> \o none, fs, V, there)
  BY <1>1, OneInFront
<1>4. Ending(<<e>>) = {}
  BY <1>2 DEF Ending
<1> QED
  BY <1>2, <1>3, <1>4

LEMMA MoveKeeps ==
  ASSUME PointerAssumption, IInv, NEW f \in Finger, Move(f)
  PROVE  IInv'
<1>1. /\ panning = Dragged(fingers) /\ Arena(<< >>, fingers, Zoomed(sessions), alive)
      /\ UNCHANGED <<alive, pending, sessions, panning, scaling>>
      /\ f \in Down /\ ~fingers[f].inScale
  BY Resting DEF Move, historyVars
<1>2. TouchTable(fingers) /\ fingers[f] \in FingerState
  BY <1>1 DEF IInv, Typed, TouchTable, Down
<1> DEFINE e == [fingers[f] EXCEPT !.tapDead = TRUE]
           fs == [fingers EXCEPT ![f] = e]
           claim == [op |-> "claim", f |-> f]
<1>3. fingers' = fs /\ todo' = <<claim>>
  BY DEF Move, Call, CallBack, GoOn
<1>4. /\ e \in FingerState /\ e.target = fingers[f].target /\ e.pan = fingers[f].pan
      /\ e.scale = fingers[f].scale /\ e.dragging = fingers[f].dragging
      /\ e.tapDead = TRUE /\ e.inScale = FALSE /\ e.did = fingers[f].did
  BY <1>1, <1>2 DEF FingerState
<1>5. claim \in Item /\ claim.op = "claim" /\ claim.f = f
  BY ItemsOfFingers
<1> HIDE DEF e, claim
<1>6. /\ TouchTable(fs) /\ DOMAIN fs = Down /\ fs[f] = e
      /\ \A g \in Down : g # f => fs[g] = fingers[g]
  BY <1>1, <1>2, <1>4, OneFingerChanges DEF Down
<1> HIDE DEF fs
<1>7. Calmer(fs, fingers)
  BY <1>1, <1>4, <1>6 DEF Calmer, Down
<1>8. Arena(<< >>, fs, Zoomed(sessions), alive)
  <2>1. << >> \in Seq(Item)
    BY EmptySeq
  <2> QED
    BY <1>1, <1>2, <1>6, <1>7, <2>1, CalmIsArena
<1>9. Fits(claim, fs, Zoomed(sessions))
  BY <1>4, <1>5, <1>6 DEF Fits
<1>10. todo' \in Seq(Item) /\ Arena(todo', fs, Zoomed(sessions), alive) /\ Ending(todo') = {}
  BY <1>3, <1>5, <1>8, <1>9, OneItem
<1>11. Dragged(fs) = Dragged(fingers)
  BY <1>1, <1>4, <1>6 DEF Dragged, Down
<1> QED
  BY <1>1, <1>3, <1>6, <1>10, <1>11, StepInArena, TapsFit

LEMMA ClaimPanKeeps ==
  ASSUME PointerAssumption, IInv, ClaimPan
  PROVE  IInv'
<1>1. /\ todo # << >> /\ Now.op = "claim"
      /\ UNCHANGED <<alive, pending, sessions, scaling>>
  BY DEF ClaimPan, At, Now
<1>2. Now.op \in Single /\ Now.op \notin Sweeping
  BY <1>1 DEF Single, Sweeping
<1>3. /\ Rest \in Seq(Item) /\ Now \in Item /\ panning = Dragged(fingers) /\ Ending(Rest) = {}
      /\ \A n \in 1 .. Len(Rest) : Rest[n].op = "removed"
      /\ Arena(Rest, fingers, Zoomed(sessions), alive)
  BY <1>1, <1>2, MainRest, LastOfEvent
<1>4. TouchTable(fingers) /\ FingersFit(fingers, alive) /\ OneDrags(fingers)
  BY <1>1, NowFits
<1>5. todo' = Rest
  BY DEF ClaimPan, Call, CallBack, GoOn
<1>6. CASE Now.f \notin Down
  <2>1. UNCHANGED <<fingers, panning>>
    BY <1>6 DEF ClaimPan
  <2> QED
    BY <1>1, <1>3, <1>4, <1>5, <2>1, StepInArena, TapsFit
<1>7. CASE Now.f \in Down
  <2>1. /\ fingers[Now.f] \in FingerState
        /\ fingers[Now.f].tapDead = TRUE /\ fingers[Now.f].inScale = FALSE
    BY <1>1, <1>7, NowFits DEF Fits, Down
  <2> DEFINE s == [fingers[Now.f] EXCEPT !.target = NoView]
  <2>2. /\ s \in FingerState /\ s.target = NoView /\ s.pan = fingers[Now.f].pan
        /\ s.scale = fingers[Now.f].scale /\ s.dragging = fingers[Now.f].dragging
        /\ s.tapDead = TRUE /\ s.inScale = FALSE /\ s.did = fingers[Now.f].did
    BY <2>1 DEF FingerState
  <2>3. CASE s.pan = NoView \/ Claimed(Now.f)
    <3> DEFINE fs == [fingers EXCEPT ![Now.f] = s]
    <3>1. fingers' = fs /\ UNCHANGED panning
      BY <1>7, <2>3 DEF ClaimPan
    <3> HIDE DEF s
    <3>2. /\ TouchTable(fs) /\ DOMAIN fs = Down /\ fs[Now.f] = s
          /\ \A g \in Down : g # Now.f => fs[g] = fingers[g]
      BY <1>4, <1>7, <2>2, OneFingerChanges DEF Down
    <3> HIDE DEF fs
    <3>3. Calmer(fs, fingers)
      BY <1>7, <2>2, <3>2 DEF Calmer, Down
    <3>4. Arena(Rest, fs, Zoomed(sessions), alive)
      BY <1>3, <1>4, <3>2, <3>3, CalmIsArena
    <3>5. Dragged(fs) = Dragged(fingers)
      BY <1>7, <2>2, <3>2 DEF Dragged, Down
    <3> QED
      BY <1>1, <1>3, <1>5, <3>1, <3>2, <3>4, <3>5, StepInArena, TapsFit
  <2>4. CASE ~(s.pan = NoView \/ Claimed(Now.f))
    <3> DEFINE e == [s EXCEPT !.dragging = TRUE, !.did = @ \cup {"pan"}]
               fs == [fingers EXCEPT ![Now.f] = e]
    <3>1. fingers' = fs /\ panning' = panning \cup {<<Now.f, s.pan>>}
      BY <1>7, <2>4 DEF ClaimPan
    <3> HIDE DEF s
    <3>2. /\ e \in FingerState /\ e.target = NoView /\ e.pan = s.pan /\ e.scale = s.scale
          /\ e.dragging = TRUE /\ e.tapDead = TRUE /\ e.inScale = FALSE
      BY <2>2 DEF FingerState
    <3> HIDE DEF e
    <3>3. /\ TouchTable(fs) /\ DOMAIN fs = Down /\ fs[Now.f] = e
          /\ \A g \in Down : g # Now.f => fs[g] = fingers[g]
      BY <1>4, <1>7, <3>2, OneFingerChanges DEF Down
    <3> HIDE DEF fs
    <3>4. FingersFit(fs, alive)
      BY <1>4, <1>7, <2>2, <2>4, <3>2, <3>3 DEF FingersFit, Down
    <3>5. DragsEnd(Rest, fs)
      BY <1>3, <3>2, <3>3 DEF DragsEnd, Arena, Down
    <3>6. OneDrags(fs)
      <4>1. \A g \in Down \ {Now.f} : fingers[g].dragging = TRUE => fingers[g].pan # s.pan
        BY <2>2, <2>4 DEF Claimed
      <4> QED
        BY <1>4, <3>2, <3>3, <4>1 DEF OneDrags, Down
    <3>7. Arena(Rest, fs, Zoomed(sessions), alive)
      BY <1>3, <3>4, <3>5, <3>6, AfterLast
    <3>8. Dragged(fs) = Dragged(fingers) \cup {<<Now.f, s.pan>>}
      BY <1>7, <2>2, <3>2, <3>3 DEF Dragged, Down
    <3> QED
      BY <1>1, <1>3, <1>5, <3>1, <3>3, <3>7, <3>8, StepInArena, TapsFit
  <2> QED
    BY <2>3, <2>4
<1> QED
  BY <1>6, <1>7

LEMMA EndingOfRest ==
  ASSUME NEW q \in Seq(Item), q # << >>
  PROVE  /\ Head(q).op # "endPan" => Ending(Tail(q)) = Ending(q)
         /\ Head(q).op = "endPan" /\ EndsDiffer(q) =>
              Ending(Tail(q)) = Ending(q) \ {<<Head(q).f, Head(q).view>>}
<1>1. /\ Len(Tail(q)) \in Nat /\ Len(q) = Len(Tail(q)) + 1 /\ Head(q) = q[1]
      /\ \A n \in 1 .. Len(Tail(q)) : Tail(q)[n] = q[n + 1] /\ n + 1 \in 1 .. Len(q) /\ n + 1 # 1
  BY RestOf
<1>2. \A n \in 1 .. Len(q) : n = 1 \/ (n - 1 \in 1 .. Len(Tail(q)) /\ q[n] = Tail(q)[n - 1])
  <2> SUFFICES ASSUME NEW n \in 1 .. Len(q), n # 1
               PROVE  n - 1 \in 1 .. Len(Tail(q)) /\ q[n] = Tail(q)[n - 1]
    OBVIOUS
  <2>1. n - 1 \in 1 .. Len(Tail(q)) /\ (n - 1) + 1 = n
    BY <1>1
  <2> QED
    BY <1>1, <2>1
<1>3. Ending(Tail(q)) \subseteq Ending(q)
  BY <1>1 DEF Ending
<1>4. ASSUME NEW e \in Ending(q), e \notin Ending(Tail(q))
      PROVE  Head(q).op = "endPan" /\ e = <<Head(q).f, Head(q).view>>
  <2>1. PICK n \in 1 .. Len(q) : q[n].op = "endPan" /\ q[n].f = e[1] /\ q[n].view = e[2]
    BY DEF Ending
  <2>2. n = 1
    BY <1>2, <1>4, <2>1 DEF Ending
  <2>3. e = <<e[1], e[2]>>
    BY DEF Ending
  <2> QED
    BY <1>1, <2>1, <2>2, <2>3
<1>5. ASSUME Head(q).op = "endPan", EndsDiffer(q)
      PROVE  <<Head(q).f, Head(q).view>> \notin Ending(Tail(q))
  <2> SUFFICES ASSUME NEW n \in 1 .. Len(Tail(q)), Tail(q)[n].op = "endPan",
                      Tail(q)[n].f = Head(q).f
               PROVE  FALSE
    BY DEF Ending
  <2>1. 1 \in 1 .. Len(q)
    BY <1>1
  <2> QED
    BY <1>1, <1>5, <2>1 DEF EndsDiffer
<1> QED
  BY <1>3, <1>4, <1>5

\* Steps that go on to the next item and leave the arena alone.
LEMMA PassKeeps ==
  ASSUME PointerAssumption, IInv, todo # << >>, todo' = Rest,
         Now.op \notin {"collect", "sessions", "cancel", "drop", "endPan"},
         UNCHANGED <<alive, fingers, sessions, panning, scaling>>,
         pending' \in [view : alive \cup {NoView}, age : 0 .. DoubleTapTimeout + 1]
  PROVE  IInv'
<1>1. todo \in Seq(Item) /\ TouchTable(fingers)
  BY NowFits
<1>2. Rest \in Seq(Item) /\ Ending(Rest) = Ending(todo)
  BY <1>1, RestOf, EndingOfRest DEF Rest, Now
<1>3. Arena(Rest, fingers, Zoomed(sessions), alive)
  BY <1>1, RestIsArena DEF Rest, Now, IInv
<1>4. panning' = Dragged(fingers') \cup {e \in Ending(todo') : e[2] \in alive}
  BY <1>2 DEF IInv, PansFit
<1> QED
  BY <1>1, <1>2, <1>3, <1>4, StepInArena

LEMMA OthersKeep ==
  ASSUME PointerAssumption, IInv,
         Tap \/ FireLongPress \/ Settle \/ Needed \/ Resume \/ Removed \/ StopTimer
  PROVE  IInv'
<1>1. todo # << >> /\ UNCHANGED <<alive, fingers, sessions, panning, scaling>>
  BY DEF Tap, FireLongPress, Settle, Needed, Resume, Removed, StopTimer, At, viewVars, historyVars
<1>2. Now.op \in {"tap", "fire", "settle", "needed", "resume", "removed", "stopTimer"}
  BY DEF Tap, FireLongPress, Settle, Needed, Resume, Removed, StopTimer, At, Now
<1>3. todo' = Rest
  BY DEF Tap, FireLongPress, Settle, Needed, Resume, Removed, StopTimer, Call, CallBack, GoOn,
         Resolve
<1>4. pending' \in [view : alive \cup {NoView}, age : 0 .. DoubleTapTimeout + 1]
  <2>1. CASE UNCHANGED pending
    BY <2>1, TapsFit
  <2>2. CASE pending' = NoTap
    BY <2>2, TapsFit
  <2>3. CASE Now.view \in alive /\ pending' = [view |-> Now.view, age |-> 0]
    BY <2>3 DEF PointerAssumption
  <2> QED
    BY <2>1, <2>2, <2>3
       DEF Tap, FireLongPress, Settle, Needed, Resume, Removed, StopTimer, Resolve, viewVars
<1> QED
  BY <1>1, <1>2, <1>3, <1>4, PassKeeps

LEMMA EndPanKeeps ==
  ASSUME PointerAssumption, IInv, EndPan
  PROVE  IInv'
<1>1. /\ todo # << >> /\ Now.op = "endPan"
      /\ UNCHANGED <<alive, fingers, pending, sessions, scaling>>
  BY DEF EndPan, At, Now, viewVars
<1>2. /\ todo \in Seq(Item) /\ TouchTable(fingers) /\ Now \in Item
      /\ Now.f \in Finger /\ Now.f \notin Down /\ Now = todo[1] /\ 1 \in 1 .. Len(todo)
  BY <1>1, NowFits, FingerItems DEF Fits, Down
<1>3. /\ Rest \in Seq(Item)
      /\ Ending(Rest) = Ending(todo) \ {<<Now.f, Now.view>>}
  BY <1>1, <1>2, RestOf, EndingOfRest DEF Rest, Now, IInv, Arena
<1>4. Arena(Rest, fingers, Zoomed(sessions), alive)
  BY <1>1, <1>2, RestIsArena DEF Rest, Now, IInv
<1>5. todo' = Rest
  BY DEF EndPan, Call, CallBack, GoOn
<1>6. <<Now.f, Now.view>> \notin Dragged(fingers)
  BY <1>2 DEF Dragged, Down
<1>7. panning = Dragged(fingers) \cup {e \in Ending(todo) : e[2] \in alive}
  BY DEF IInv, PansFit
<1>8. Now.view \in alive => <<Now.f, Now.view>> \in panning
  <2> SUFFICES ASSUME Now.view \in alive PROVE <<Now.f, Now.view>> \in panning
    OBVIOUS
  <2>1. <<Now.f, Now.view>> \in Finger \X View
    BY <1>2, TapsFit
  <2>2. <<Now.f, Now.view>>[1] = Now.f /\ <<Now.f, Now.view>>[2] = Now.view
    OBVIOUS
  <2>3. <<Now.f, Now.view>> \in Ending(todo)
    BY <1>1, <1>2, <2>1, <2>2 DEF Ending
  <2> QED
    BY <1>7, <2>2, <2>3
<1>9. panning' = panning \ {<<Now.f, Now.view>>}
  BY <1>8 DEF EndPan, PanEnded
<1>10. panning' = Dragged(fingers') \cup {e \in Ending(todo') : e[2] \in alive}
  BY <1>1, <1>3, <1>5, <1>6, <1>7, <1>9
<1> QED
  BY <1>1, <1>2, <1>3, <1>4, <1>5, <1>10, StepInArena, TapsFit

LEMMA CancelFingerKeeps ==
  ASSUME PointerAssumption, IInv, CancelFinger
  PROVE  IInv'
<1>1. /\ todo # << >> /\ Now.op = "cancel"
      /\ UNCHANGED <<alive, pending, sessions, panning, scaling>>
  BY DEF CancelFinger, At, Now, historyVars
<1>2. /\ todo \in Seq(Item) /\ TouchTable(fingers)
      /\ \A n \in 1 .. Len(todo) : Fits(todo[n], fingers, Zoomed(sessions))
  BY <1>1, NowFits DEF IInv, Arena, ItemsFit
<1>3. /\ Rest \in Seq(Item) /\ Ending(Rest) = Ending(todo)
      /\ \A n \in 1 .. Len(Rest) : Rest[n] = todo[n + 1] /\ n + 1 \in 1 .. Len(todo)
  BY <1>1, <1>2, RestOf, EndingOfRest DEF Rest, Now
<1>4. CASE Now.f \in Down
  <2>1. Finish(Now.f, TRUE, Rest)
    BY <1>4 DEF CancelFinger
  <2>2. Arena(todo, Erased(Now.f), Zoomed(sessions), alive)
    BY <1>2, ErasedIsCalm, CalmIsArena DEF IInv
  <2>3. Arena(Rest, Erased(Now.f), Zoomed(sessions), alive)
    <3>1. Now.f \notin DOMAIN Erased(Now.f)
      BY ErasedIsCalm, ZenonT(60)
    <3> QED
      BY <1>1, <1>2, <2>2, <3>1, RestIsArena DEF Rest, Now
  <2>4. \A n \in 1 .. Len(Rest) : Rest[n].op = "endPan" => Rest[n].f # Now.f
    BY <1>2, <1>3, <1>4 DEF Fits, Down
  <2>5. /\ TouchTable(fingers') /\ todo' \in Seq(Item)
        /\ Arena(todo', fingers', Zoomed(sessions), alive)
        /\ panning' = Dragged(fingers') \cup {e \in Ending(todo') : e[2] \in alive}
    BY <1>1, <1>3, <1>4, <2>1, <2>3, <2>4, FinishFits
  <2> QED
    BY <1>1, <2>5, StepInArena, TapsFit
<1>5. CASE Now.f \notin Down
  <2>1. todo' = Rest /\ UNCHANGED fingers
    BY <1>5 DEF CancelFinger, GoOn
  <2>2. Arena(Rest, fingers, Zoomed(sessions), alive)
    BY <1>1, <1>2, <1>5, RestIsArena DEF Rest, Now, IInv, Down
  <2>3. panning' = Dragged(fingers') \cup {e \in Ending(todo') : e[2] \in alive}
    BY <1>1, <1>3, <2>1 DEF IInv, PansFit
  <2> QED
    BY <1>1, <1>2, <1>3, <2>1, <2>2, <2>3, StepInArena, TapsFit
<1> QED
  BY <1>4, <1>5

LEMMA ReleasedIsCalm ==
  ASSUME IInv, NEW S
  PROVE  /\ Calmer(Released(S), fingers) /\ TouchTable(Released(S)) /\ TouchTable(fingers)
         /\ DOMAIN Released(S) = Down /\ Dragged(Released(S)) = Dragged(fingers)
         /\ \A g \in Down : Released(S)[g].dragging = fingers[g].dragging
<1>1. TouchTable(fingers) /\ \A g \in Down : g \in Finger /\ fingers[g] \in FingerState
  BY DEF IInv, Typed, TouchTable, Down
<1> DEFINE fs == Released(S)
<1>2. DOMAIN fs = Down /\ fs = [g \in Down |-> fs[g]]
  BY DEF Released
<1>3. ASSUME NEW g \in Down
      PROVE  /\ fs[g] \in FingerState
             /\ fs[g].target = fingers[g].target /\ fs[g].pan = fingers[g].pan
             /\ fs[g].scale = fingers[g].scale /\ fs[g].dragging = fingers[g].dragging
             /\ fs[g].did = fingers[g].did
             /\ fingers[g].tapDead = TRUE => fs[g].tapDead = TRUE
             /\ fs[g].inScale = TRUE => fingers[g].inScale = TRUE
  <2> DEFINE e == [fingers[g] EXCEPT !.inScale = FALSE, !.tapDead = TRUE]
  <2>1. /\ e \in FingerState /\ e.target = fingers[g].target /\ e.pan = fingers[g].pan
        /\ e.scale = fingers[g].scale /\ e.dragging = fingers[g].dragging
        /\ e.did = fingers[g].did /\ e.tapDead = TRUE /\ e.inScale = FALSE
    BY <1>1 DEF FingerState
  <2>2. fs[g] = IF g \in S THEN e ELSE fingers[g]
    BY DEF Released
  <2> HIDE DEF e, fs
  <2> QED
    BY <1>1, <2>1, <2>2
<1> HIDE DEF fs
<1>4. TouchTable(fs)
  BY <1>1, <1>2, <1>3 DEF TouchTable
<1>5. Calmer(fs, fingers)
  BY <1>2, <1>3 DEF Calmer, Down
<1>6. Dragged(fs) = Dragged(fingers)
  BY <1>2, <1>3 DEF Dragged, Down
<1> QED
  BY <1>1, <1>2, <1>3, <1>4, <1>5, <1>6 DEF fs

LEMMA ErasedDragsOn ==
  ASSUME IInv, NEW f, f \in Down => fingers[f].dragging = FALSE
  PROVE  Dragged(Erased(f)) = Dragged(fingers)
BY ErasedIsCalm, ZenonT(60) DEF Dragged, Down

LEMMA EraseFingerKeeps ==
  ASSUME PointerAssumption, IInv, EraseFinger
  PROVE  IInv'
<1>1. /\ todo # << >> /\ Now.op = "erase" /\ fingers' = Erased(Now.f) /\ todo' = Rest
      /\ UNCHANGED <<alive, pending, sessions, panning, scaling>>
  BY DEF EraseFinger, At, Now, historyVars, GoOn
<1>2. Now.op \in Single /\ Now.op \notin Sweeping
  BY <1>1 DEF Single, Sweeping
<1>3. /\ Rest \in Seq(Item) /\ panning = Dragged(fingers) /\ Ending(Rest) = {}
      /\ Arena(Rest, fingers, Zoomed(sessions), alive)
  BY <1>1, <1>2, MainRest, LastOfEvent
<1>4. Now.f \in Down => fingers[Now.f].dragging = FALSE
  BY <1>1, NowFits DEF Fits, Down
<1>5. Arena(Rest, Erased(Now.f), Zoomed(sessions), alive)
  BY <1>3, ErasedIsCalm, CalmIsArena
<1> QED
  BY <1>1, <1>3, <1>4, <1>5, ErasedIsCalm, ErasedDragsOn, StepInArena, TapsFit

\* A member of a session goes, and the session ends with it or not.
LEMMA LeaveKeeps ==
  ASSUME PointerAssumption, IInv, Idle, NEW f \in Down, fingers[f].inScale, Leave(f),
         UNCHANGED <<alive, pending, panning>>
  PROVE  IInv'
<1>1. /\ panning = Dragged(fingers) /\ Arena(<< >>, fingers, Zoomed(sessions), alive)
      /\ Ending(<< >>) = {} /\ << >> \in Seq(Item)
      /\ fingers[f].dragging = FALSE /\ f \in Finger
  <2>1. fingers[f] \in FingerState /\ f \in Finger
    BY DEF IInv, Typed, TouchTable, Down
  <2> QED
    BY <2>1, Resting, EmptySeq DEF FingerState
<1>2. /\ sessions \in Seq(Session) /\ Apart(sessions) /\ scaling = Zoomed(sessions)
      /\ Zoomed(sessions) \subseteq alive /\ DOMAIN sessions = 1 .. Len(sessions)
  BY LenProperties DEF IInv, Typed, SessionsFit
<1> DEFINE mine == {i \in DOMAIN sessions : f \in Range(sessions[i].ids)}
           i == Min(mine)
           ids == RemoveFirst(sessions[i].ids, f)
           remaining == {n \in DOMAIN ids : ids[n] \in Down \ {f} /\ fingers[ids[n]].inScale}
<1>3. Arena(<< >>, Erased(f), Zoomed(sessions), alive) /\ Dragged(Erased(f)) = Dragged(fingers)
  BY <1>1, ErasedIsCalm, ErasedDragsOn, CalmIsArena
<1>4. CASE mine = {}
  <2>1. fingers' = Erased(f) /\ todo' = << >> /\ UNCHANGED <<sessions, scaling>>
    BY <1>4 DEF Leave, GoOn
  <2> QED
    BY <1>1, <1>3, <2>1, ErasedIsCalm, StepInArena, TapsFit
<1>5. CASE mine # {}
  <2>1. i \in 1 .. Len(sessions)
    <3>1. mine \in SUBSET Nat
      BY <1>2, LenProperties
    <3>2. i \in mine
      BY <1>5, <3>1, LeastIsIn
    <3> QED
      BY <1>2, <3>2
  <2>2. CASE Cardinality(remaining) >= 2
    <3>1. /\ sessions' = [sessions EXCEPT ![i].ids = ids] /\ fingers' = Erased(f)
          /\ todo' = << >> /\ UNCHANGED scaling
      BY <1>5, <2>2 DEF Leave, GoOn
    <3>2. ids \in Seq(Finger)
      <4>1. sessions[i] \in Session
        BY <1>2, <2>1, ElementOfSeq
      <4> QED
        BY <4>1, IdsRemoved DEF Session
    <3> HIDE DEF mine, i, ids, remaining
    <3>3. sessions' \in Seq(Session) /\ Apart(sessions') /\ Zoomed(sessions') = Zoomed(sessions)
      BY <1>2, <2>1, <3>1, <3>2, SessionChanged
    <3> QED
      BY <1>1, <1>2, <1>3, <3>1, <3>3, ErasedIsCalm, StepAmongViews, TapsFit
  <2>3. CASE ~(Cardinality(remaining) >= 2)
    <3> DEFINE erase == [op |-> "erase", f |-> f]
               fs == Released(Range(ids) \cup {f})
    <3>1. /\ sessions' = RemoveAt(sessions, i) /\ fingers' = fs
          /\ ScaleEnded(sessions[i].view) /\ todo' = <<erase>>
      BY <1>5, <2>3 DEF Leave, Call, CallBack, GoOn
    <3>2. erase \in Item /\ erase.op = "erase" /\ erase.f = f
      BY <1>1, ItemsOfFingers
    <3> HIDE DEF mine, i, ids, remaining, erase
    <3>3. /\ sessions' \in Seq(Session) /\ Apart(sessions')
          /\ Zoomed(sessions') = Zoomed(sessions) \ {sessions[i].view}
      BY <1>2, <2>1, <3>1, SessionEnded
    <3>4. scaling' = Zoomed(sessions')
      <4>1. sessions[i].view \in Zoomed(sessions)
        BY <2>1 DEF Zoomed
      <4> QED
        BY <1>2, <3>1, <3>3, <4>1 DEF ScaleEnded
    <3>5. /\ Calmer(fs, fingers) /\ TouchTable(fs) /\ TouchTable(fingers) /\ DOMAIN fs = Down
          /\ Dragged(fs) = Dragged(fingers) /\ fs[f].dragging = FALSE
      BY <1>1, ReleasedIsCalm
    <3> HIDE DEF fs
    <3>6. Arena(<< >>, fs, Zoomed(sessions'), alive)
      BY <1>1, <3>3, <3>5, CalmIsArena
    <3>7. <<erase>> \in Seq(Item) /\ Arena(<<erase>>, fs, Zoomed(sessions'), alive)
          /\ Ending(<<erase>>) = {}
      <4>1. Fits(erase, fs, Zoomed(sessions'))
        BY <3>2, <3>5 DEF Fits
      <4> QED
        BY <3>2, <3>6, <4>1, OneItem
    <3> QED
      BY <1>1, <1>2, <3>1, <3>3, <3>4, <3>5, <3>7, StepAmongViews, TapsFit
  <2> QED
    BY <2>2, <2>3
<1> QED
  BY <1>4, <1>5

\* The sequence of a finger that is in no session ends.
LEMMA FinishKeeps ==
  ASSUME PointerAssumption, IInv, Idle, NEW f \in Down, NEW notify \in BOOLEAN,
         Finish(f, notify, << >>), UNCHANGED <<alive, pending, sessions, panning, scaling>>
  PROVE  IInv'
<1> DEFINE none == << >>
<1>1. /\ Arena(none, fingers, Zoomed(sessions), alive) /\ Ending(none) = {}
      /\ Ending(none) = Ending(todo) /\ none \in Seq(Item)
      /\ \A n \in 1 .. Len(none) : FALSE
  BY Resting, EmptySeq DEF Idle
<1>2. Finish(f, notify, none)
  OBVIOUS
<1> HIDE DEF none
<1>3. Arena(none, Erased(f), Zoomed(sessions), alive)
  BY <1>1, ErasedIsCalm, CalmIsArena
<1>4. \A n \in 1 .. Len(none) : none[n].op = "endPan" => none[n].f # f
  BY <1>1
<1>5. /\ TouchTable(fingers') /\ todo' \in Seq(Item)
      /\ Arena(todo', fingers', Zoomed(sessions), alive)
      /\ panning' = Dragged(fingers') \cup {e \in Ending(todo') : e[2] \in alive}
  BY <1>1, <1>2, <1>3, <1>4, FinishFits
<1> QED
  BY <1>5, StepInArena, TapsFit

LEMMA UpKeeps ==
  ASSUME PointerAssumption, IInv, NEW f \in Finger, Up(f)
  PROVE  IInv'
<1>1. Idle /\ f \in Down /\ UNCHANGED <<alive, pending, panning>>
  BY DEF Up
<1>2. fingers[f] \in FingerState
  BY <1>1 DEF IInv, Typed, TouchTable, Down
<1>3. CASE fingers[f].inScale = TRUE
  <2>1. Leave(f)
    BY <1>3 DEF Up
  <2> QED
    BY <1>1, <1>3, <2>1, LeaveKeeps
<1>4. CASE fingers[f].inScale = FALSE /\ fingers[f].dragging = TRUE
  <2>1. Finish(f, FALSE, << >>) /\ UNCHANGED <<sessions, scaling>>
    BY <1>4 DEF Up
  <2> QED
    BY <1>1, <2>1, FinishKeeps
<1>5. CASE fingers[f].inScale = FALSE /\ fingers[f].dragging = FALSE
  <2> DEFINE s == fingers[f]
             tap == [op |-> "tap", f |-> f, view |-> s.target, second |-> s.second,
                     did |-> s.did]
  <2>1. /\ fingers' = Erased(f) /\ UNCHANGED <<sessions, scaling>>
        /\ IF s.tapDead THEN todo' = << >> ELSE todo' = <<tap>>
    BY <1>5 DEF Up, Call, CallBack, GoOn
  <2>2. /\ panning = Dragged(fingers) /\ Arena(<< >>, fingers, Zoomed(sessions), alive)
        /\ Ending(<< >>) = {} /\ << >> \in Seq(Item)
    BY <1>1, Resting, EmptySeq
  <2>3. /\ Arena(<< >>, Erased(f), Zoomed(sessions), alive)
        /\ Dragged(Erased(f)) = Dragged(fingers)
    BY <1>5, <2>2, ErasedIsCalm, ErasedDragsOn, CalmIsArena
  <2>4. CASE s.tapDead = TRUE
    <3>1. todo' = << >>
      BY <2>1, <2>4
    <3> QED
      BY <1>1, <2>1, <2>2, <2>3, <3>1, ErasedIsCalm, StepInArena, TapsFit
  <2>5. CASE s.tapDead = FALSE
    <3>1. todo' = <<tap>>
      BY <2>1, <2>5
    <3>2. s.did = {}
      BY <1>1, <2>2, <2>5 DEF Arena, FingersFit, Down
    <3>3. tap \in Item /\ tap.op = "tap"
      BY <1>2, <3>2, TapItem DEF FingerState
    <3> HIDE DEF tap, s
    <3>4. Fits(tap, Erased(f), Zoomed(sessions))
      BY <3>3 DEF Fits
    <3>5. /\ <<tap>> \in Seq(Item) /\ Arena(<<tap>>, Erased(f), Zoomed(sessions), alive)
          /\ Ending(<<tap>>) = {}
      BY <2>3, <3>3, <3>4, OneItem
    <3> QED
      BY <1>1, <2>1, <2>2, <2>3, <3>1, <3>5, ErasedIsCalm, StepInArena, TapsFit
  <2> QED
    BY <1>2, <2>4, <2>5 DEF FingerState
<1> QED
  BY <1>2, <1>3, <1>4, <1>5 DEF FingerState

LEMMA CancelKeeps ==
  ASSUME PointerAssumption, IInv, NEW f \in Finger, Cancel(f)
  PROVE  IInv'
<1>1. Idle /\ f \in Down /\ UNCHANGED <<alive, pending, panning>>
  BY DEF Cancel
<1>2. fingers[f] \in FingerState
  BY <1>1 DEF IInv, Typed, TouchTable, Down
<1>3. CASE fingers[f].inScale = TRUE
  <2>1. Leave(f)
    BY <1>3 DEF Cancel
  <2> QED
    BY <1>1, <1>3, <2>1, LeaveKeeps
<1>4. CASE fingers[f].inScale = FALSE
  <2>1. Finish(f, TRUE, << >>) /\ UNCHANGED <<sessions, scaling>>
    BY <1>4 DEF Cancel
  <2> QED
    BY <1>1, <2>1, FinishKeeps
<1> QED
  BY <1>2, <1>3, <1>4 DEF FingerState

LEMMA TimePassesKeeps ==
  ASSUME PointerAssumption, IInv, TimePasses
  PROVE  IInv'
<1> DEFINE fs == [f \in Down |-> [fingers[f] EXCEPT !.age = Older(@, LongPressTimeout)]]
<1>1. /\ panning = Dragged(fingers) /\ Arena(<< >>, fingers, Zoomed(sessions), alive)
      /\ Ending(<< >>) = {} /\ << >> \in Seq(Item) /\ todo' = << >>
      /\ UNCHANGED <<alive, sessions, panning, scaling>> /\ fingers' = fs
  BY Resting, EmptySeq DEF TimePasses, historyVars, Idle
<1>2. TouchTable(fingers) /\ \A g \in Down : g \in Finger /\ fingers[g] \in FingerState
  BY DEF IInv, Typed, TouchTable, Down
<1>3. DOMAIN fs = Down /\ fs = [g \in Down |-> fs[g]]
  OBVIOUS
<1>4. ASSUME NEW g \in Down
      PROVE  /\ fs[g] \in FingerState
             /\ fs[g].target = fingers[g].target /\ fs[g].pan = fingers[g].pan
             /\ fs[g].scale = fingers[g].scale /\ fs[g].dragging = fingers[g].dragging
             /\ fs[g].did = fingers[g].did /\ fs[g].tapDead = fingers[g].tapDead
             /\ fs[g].inScale = fingers[g].inScale
  <2> DEFINE e == [fingers[g] EXCEPT !.age = Older(@, LongPressTimeout)]
  <2>1. Older(fingers[g].age, LongPressTimeout) \in 0 .. LongPressTimeout
    BY <1>2 DEF FingerState, Older, PointerAssumption
  <2>2. /\ e \in FingerState /\ e.target = fingers[g].target /\ e.pan = fingers[g].pan
        /\ e.scale = fingers[g].scale /\ e.dragging = fingers[g].dragging
        /\ e.did = fingers[g].did /\ e.tapDead = fingers[g].tapDead
        /\ e.inScale = fingers[g].inScale
    BY <1>2, <2>1 DEF FingerState
  <2>3. fs[g] = e
    OBVIOUS
  <2> HIDE DEF e, fs
  <2> QED
    BY <2>2, <2>3
<1> HIDE DEF fs
<1>5. TouchTable(fs)
  BY <1>2, <1>3, <1>4 DEF TouchTable
<1>6. Calmer(fs, fingers)
  BY <1>3, <1>4 DEF Calmer, Down
<1>7. Dragged(fs) = Dragged(fingers)
  <2>1. \A g \in Down : fs[g].pan = fingers[g].pan /\ fs[g].dragging = fingers[g].dragging
    BY <1>4
  <2>2. DOMAIN fs = Down
    BY <1>3
  <2> QED
    BY <2>1, <2>2 DEF Dragged, Down
<1>8. Arena(<< >>, fs, Zoomed(sessions), alive)
  BY <1>1, <1>2, <1>5, <1>6, CalmIsArena
<1>9. pending' \in [view : alive \cup {NoView}, age : 0 .. DoubleTapTimeout + 1]
  <2>1. CASE pending = NoTap
    BY <2>1, TapsFit DEF TimePasses
  <2>2. CASE pending # NoTap
    <3> DEFINE old == Older(pending.age, DoubleTapTimeout + 1)
    <3>1. pending' = [pending EXCEPT !.age = old]
      BY <2>2 DEF TimePasses
    <3>2. old \in 0 .. DoubleTapTimeout + 1
      BY TapsFit DEF Older, PointerAssumption
    <3> HIDE DEF old
    <3> QED
      BY <3>1, <3>2, TapsFit
  <2> QED
    BY <2>1, <2>2
<1> QED
  BY <1>1, <1>5, <1>7, <1>8, <1>9, StepInArena

\* An event that begins with nothing under way, of items that rely on nothing.
LEMMA PlainIsArena ==
  ASSUME NEW q \in Seq(Item), Ordered(q),
         \A n \in 1 .. Len(q) :
           q[n].op \in {"fire", "settle", "needed", "sessions", "collect", "stopTimer"},
         NEW fs, NEW V, NEW there, Arena(<< >>, fs, V, there)
  PROVE  Arena(q, fs, V, there) /\ Ending(q) = {}
<1>1. /\ StopsDrop(q) /\ EndsDiffer(q) /\ Ending(q) = {}
      /\ SessionsSwept(q, V) /\ FingersSwept(q, fs) /\ ItemsFit(q, fs, V)
  BY DEF StopsDrop, EndsDiffer, Ending, SessionsSwept, FingersSwept, ItemsFit, Fits
<1>2. FingersFit(fs, there) /\ OneDrags(fs) /\ DragsEnd(q, fs)
  <2>1. \A f : ~Dropping(f, << >>)
    BY DEF Dropping
  <2>2. FingersFit(fs, there) /\ OneDrags(fs) /\ DragsEnd(<< >>, fs)
    BY DEF Arena
  <2> QED
    BY <2>1, <2>2 DEF DragsEnd
<1> QED
  BY <1>1, <1>2 DEF Arena

LEMMA TickKeeps ==
  ASSUME PointerAssumption, IInv, Tick
  PROVE  IInv'
<1> DEFINE due == {f \in Finger : Armed(f) /\ fingers[f].age >= LongPressTimeout}
           c == Cardinality(due)
           fire == [n \in 1 .. c |-> [op |-> "fire", view |-> fingers[SetToSeq(due)[n]].target]]
           end == <<[op |-> "settle"], [op |-> "needed"]>>
           fs == [f \in Down |->
                   IF f \in due THEN [fingers[f] EXCEPT !.tapDead = TRUE, !.target = NoView,
                                                        !.did = @ \cup {"long"}]
                   ELSE fingers[f]]
<1>1. /\ fingers' = fs /\ todo' = fire \o end
      /\ UNCHANGED <<alive, pending, sessions, panning, scaling>>
  BY DEF Tick, GoOn
<1>2. /\ panning = Dragged(fingers) /\ Arena(<< >>, fingers, Zoomed(sessions), alive)
      /\ Ending(<< >>) = {} /\ << >> \in Seq(Item)
  BY Resting, EmptySeq DEF Tick
<1>3. TouchTable(fingers) /\ \A g \in Down : g \in Finger /\ fingers[g] \in FingerState
  BY DEF IInv, Typed, TouchTable, Down
<1>4. c \in Nat /\ \A n \in 1 .. c : SetToSeq(due)[n] \in Down
  <2>1. IsFiniteSet(due)
    BY FS_Subset DEF PointerAssumption
  <2>2. due \subseteq Down
    BY DEF Armed
  <2> HIDE DEF due
  <2> QED
    BY <2>1, <2>2, AllOf
<1>5. /\ fire \in Seq(Item) /\ Len(fire) = c /\ \A n \in 1 .. c : fire[n].op = "fire"
  <2>1. \A n \in 1 .. c : [op |-> "fire", view |-> fingers[SetToSeq(due)[n]].target] \in Item
    BY <1>3, <1>4, ItemsOfViews DEF FingerState
  <2> HIDE DEF due, c
  <2>2. fire \in [1 .. c -> Item] /\ \A n \in 1 .. c : fire[n].op = "fire"
    BY <2>1
  <2> HIDE DEF fire
  <2>3. fire \in Seq(Item)
    BY <1>4, <2>2
  <2> QED
    BY <1>4, <2>2, <2>3, LenProperties
<1>6. end \in Seq(Item) /\ \A n \in 1 .. Len(end) : end[n].op \in {"settle", "needed"}
  <2>1. [op |-> "settle"] \in Item /\ [op |-> "needed"] \in Item
    BY BareItems
  <2> QED
    BY <2>1
<1>7. ASSUME NEW g \in Down
      PROVE  /\ fs[g] \in FingerState
             /\ fs[g].target \in {fingers[g].target, NoView} /\ fs[g].pan = fingers[g].pan
             /\ fs[g].scale = fingers[g].scale /\ fs[g].dragging = fingers[g].dragging
             /\ fs[g].did # {} => fingers[g].did # {} \/ fs[g].tapDead = TRUE
             /\ fingers[g].tapDead = TRUE => fs[g].tapDead = TRUE
             /\ fs[g].inScale = fingers[g].inScale
  <2> DEFINE e == [fingers[g] EXCEPT !.tapDead = TRUE, !.target = NoView,
                                     !.did = @ \cup {"long"}]
  <2>1. /\ e \in FingerState /\ e.target = NoView /\ e.pan = fingers[g].pan
        /\ e.scale = fingers[g].scale /\ e.dragging = fingers[g].dragging
        /\ e.tapDead = TRUE /\ e.inScale = fingers[g].inScale
    BY <1>3 DEF FingerState
  <2>2. fs[g] = IF g \in due THEN e ELSE fingers[g]
    OBVIOUS
  <2> HIDE DEF e, fs, due
  <2> QED
    BY <1>3, <2>1, <2>2
<1>8. DOMAIN fs = Down /\ fs = [g \in Down |-> fs[g]]
  OBVIOUS
<1> HIDE DEF due, c, fire, end, fs
<1>9. TouchTable(fs)
  BY <1>3, <1>7, <1>8 DEF TouchTable
<1>10. Calmer(fs, fingers)
  BY <1>7, <1>8 DEF Calmer, Down
<1>11. Dragged(fs) = Dragged(fingers)
  <2>1. \A g \in Down : fs[g].pan = fingers[g].pan /\ fs[g].dragging = fingers[g].dragging
    BY <1>7
  <2> QED
    BY <1>8, <2>1, ZenonT(60) DEF Dragged, Down
<1>12. Arena(<< >>, fs, Zoomed(sessions), alive)
  BY <1>2, <1>3, <1>9, <1>10, CalmIsArena
<1>13. \A n \in 1 .. Len(fire \o end) : (fire \o end)[n].op \in {"fire", "settle", "needed"}
  <2> SUFFICES ASSUME NEW n \in 1 .. Len(fire \o end)
               PROVE  (fire \o end)[n].op \in {"fire", "settle", "needed"}
    OBVIOUS
  <2>1. CASE n \in 1 .. Len(fire)
    BY <1>5, <1>6, <2>1, BothOf
  <2>2. CASE n - Len(fire) \in 1 .. Len(end)
    <3>1. Len(fire) + (n - Len(fire)) = n
      BY <1>4, <1>5
    <3>2. \A k \in 1 .. Len(end) : (fire \o end)[Len(fire) + k] = end[k]
      BY <1>5, <1>6, BothOf
    <3>3. (fire \o end)[n] = end[n - Len(fire)]
      BY <2>2, <3>1, <3>2
    <3> QED
      BY <1>6, <2>2, <3>3
  <2> QED
    BY <1>5, <1>6, <2>1, <2>2, BothOf
<1>14. fire \o end \in Seq(Item) /\ Ordered(fire \o end)
  <2>1. fire \o end \in Seq(Item)
    BY <1>5, <1>6, BothOf
  <2>2. \A a, b \in {"fire", "settle", "needed"} : Before(a, b)
    BY DEF Before, Sweeping, Single
  <2> QED
    BY <1>13, <2>1, <2>2 DEF Ordered
<1>15. /\ Arena(fire \o end, fs, Zoomed(sessions), alive) /\ Ending(fire \o end) = {}
  BY <1>12, <1>13, <1>14, PlainIsArena
<1> QED
  BY <1>1, <1>2, <1>9, <1>11, <1>14, <1>15, StepInArena, TapsFit

LEMMA CancelAllKeeps ==
  ASSUME PointerAssumption, IInv, CancelAll
  PROVE  IInv'
<1> DEFINE q == <<[op |-> "sessions", view |-> NoView], [op |-> "collect", view |-> NoView],
                  [op |-> "stopTimer"]>>
<1>1. /\ todo' = q /\ pending' = NoTap
      /\ UNCHANGED <<alive, fingers, sessions, panning, scaling>>
  BY DEF CancelAll, GoOn, historyVars
<1>2. /\ panning = Dragged(fingers) /\ Arena(<< >>, fingers, Zoomed(sessions), alive)
      /\ TouchTable(fingers)
  BY Resting DEF CancelAll, IInv, Typed
<1>3. /\ q \in Seq(Item) /\ Len(q) = 3 /\ q[1].op = "sessions" /\ q[2].op = "collect"
      /\ q[3].op = "stopTimer"
  <2>1. /\ [op |-> "sessions", view |-> NoView] \in Item
        /\ [op |-> "collect", view |-> NoView] \in Item /\ [op |-> "stopTimer"] \in Item
    BY BareItems, ItemsOfViews
  <2> QED
    BY <2>1
<1> HIDE DEF q
<1>4. Ordered(q)
  BY <1>3 DEF Ordered, Before, Sweeping, Single
<1>5. Arena(q, fingers, Zoomed(sessions), alive) /\ Ending(q) = {}
  BY <1>2, <1>3, <1>4, PlainIsArena
<1> QED
  BY <1>1, <1>2, <1>3, <1>5, StepInArena, TapsFit

\* A session ends; sweepings rely on no more sessions than there are.
LEMMA EndSessionsKeeps ==
  ASSUME PointerAssumption, IInv, EndSessions
  PROVE  IInv'
<1> DEFINE ending == {i \in DOMAIN sessions :
                        sessions[i].view \in Under(Now.view) \/ Now.view = NoView}
           i == Min(ending)
<1>1. /\ todo # << >> /\ Now.op = "sessions" /\ UNCHANGED <<alive, pending, panning>>
  BY DEF EndSessions, At, Now
<1>2. /\ sessions \in Seq(Session) /\ Apart(sessions) /\ scaling = Zoomed(sessions)
      /\ Zoomed(sessions) \subseteq alive /\ DOMAIN sessions = 1 .. Len(sessions)
      /\ todo \in Seq(Item) /\ TouchTable(fingers)
      /\ Arena(todo, fingers, Zoomed(sessions), alive)
      /\ panning = Dragged(fingers) \cup {e \in Ending(todo) : e[2] \in alive}
  BY LenProperties DEF IInv, Typed, SessionsFit, PansFit
<1>3. CASE ending = {}
  <2>1. todo' = Rest /\ UNCHANGED <<fingers, sessions, scaling>>
    BY <1>3 DEF EndSessions, GoOn
  <2>2. Zoomed(sessions) \cap Under(Now.view) = {}
    BY <1>2, <1>3 DEF Zoomed
  <2>3. Arena(Rest, fingers, Zoomed(sessions), alive)
    BY <1>1, <1>2, <2>2, RestIsArena DEF Rest, Now
  <2>4. Rest \in Seq(Item) /\ Ending(Rest) = Ending(todo)
    BY <1>1, <1>2, RestOf, EndingOfRest DEF Rest, Now
  <2> QED
    BY <1>1, <1>2, <2>1, <2>3, <2>4, StepInArena, TapsFit
<1> DEFINE fs == Released(Range(sessions[i].ids))
           ends == /\ fingers' = fs /\ sessions' = RemoveAt(sessions, i)
                   /\ ScaleEnded(sessions[i].view) /\ Call(sessions[i].view, todo)
<1>4. CASE ending # {} /\ ends
  <2>1. /\ fingers' = fs /\ sessions' = RemoveAt(sessions, i) /\ ScaleEnded(sessions[i].view)
        /\ todo' = todo
    BY <1>4 DEF Call, CallBack, GoOn
  <2>2. i \in 1 .. Len(sessions)
    <3>1. ending \in SUBSET Nat
      BY <1>2, LenProperties
    <3>2. i \in ending
      BY <1>4, <3>1, LeastIsIn
    <3> QED
      BY <1>2, <3>2
  <2> HIDE DEF ending, i
  <2>3. /\ sessions' \in Seq(Session) /\ Apart(sessions')
        /\ Zoomed(sessions') = Zoomed(sessions) \ {sessions[i].view}
    BY <1>2, <2>1, <2>2, SessionEnded
  <2>4. scaling' = Zoomed(sessions')
    <3>1. sessions[i].view \in Zoomed(sessions)
      BY <2>2 DEF Zoomed
    <3> QED
      BY <1>2, <2>1, <2>3, <3>1 DEF ScaleEnded
  <2>5. Calmer(fs, fingers) /\ TouchTable(fs) /\ Dragged(fs) = Dragged(fingers)
    BY ReleasedIsCalm
  <2> HIDE DEF fs
  <2>6. Arena(todo, fs, Zoomed(sessions'), alive)
    BY <1>2, <2>3, <2>5, CalmIsArena
  <2> QED
    BY <1>1, <1>2, <2>1, <2>3, <2>4, <2>5, <2>6, StepAmongViews, TapsFit
<1>5. CASE GoWrong /\ UNCHANGED <<fingers, sessions, scaling>>
  BY <1>1, <1>5, GoWrongKeeps
<1> QED
  BY <1>3, <1>4, <1>5 DEF EndSessions

\* The cancellations take the place of the item that collected them.
LEMMA CollectFingersKeeps ==
  ASSUME PointerAssumption, IInv, CollectFingers
  PROVE  IInv'
<1> DEFINE ids == SetToSeq(Touching(Now.view))
           c == Cardinality(Touching(Now.view))
           p == [n \in DOMAIN ids |-> [op |-> "cancel", f |-> ids[n]]]
<1>1. /\ todo # << >> /\ Now.op = "collect" /\ todo' = p \o Rest
      /\ UNCHANGED <<alive, fingers, pending, sessions, panning, scaling>>
  BY DEF CollectFingers, At, Now, GoOn, viewVars, historyVars
<1>2. /\ todo \in Seq(Item) /\ TouchTable(fingers)
      /\ Arena(todo, fingers, Zoomed(sessions), alive)
      /\ panning = Dragged(fingers) \cup {e \in Ending(todo) : e[2] \in alive}
  BY DEF IInv, Typed, PansFit
<1>3. Touching(Now.view) \subseteq Down /\ Down \subseteq Finger
      /\ Touching(Now.view) = TouchingIn(fingers, Now.view)
  BY <1>2 DEF Touching, TouchingIn, Down, TouchTable
<1>4. /\ c \in Nat /\ ids \in [1 .. c -> Touching(Now.view)]
      /\ \A f \in Touching(Now.view) : \E n \in 1 .. c : ids[n] = f
  <2>1. IsFiniteSet(Touching(Now.view))
    BY <1>3, FS_Subset DEF PointerAssumption
  <2> QED
    BY <2>1, AllOf
<1> HIDE DEF ids, c
<1>5. /\ p \in Seq(Item) /\ Len(p) = c
      /\ \A n \in 1 .. c : p[n].op = "cancel" /\ p[n].f = ids[n]
  <2>1. \A n \in 1 .. c : [op |-> "cancel", f |-> ids[n]] \in Item
    BY <1>3, <1>4, ItemsOfFingers
  <2>2. p \in [1 .. c -> Item] /\ \A n \in 1 .. c : p[n].op = "cancel" /\ p[n].f = ids[n]
    BY <1>4, <2>1
  <2> HIDE DEF p
  <2>3. p \in Seq(Item)
    BY <1>4, <2>2
  <2> QED
    BY <1>4, <2>2, <2>3, LenProperties
<1> HIDE DEF p
<1>6. /\ Ordered(Rest) /\ StopsDrop(Rest) /\ EndsDiffer(Rest)
      /\ SessionsSwept(Rest, Zoomed(sessions)) /\ ItemsFit(Rest, fingers, Zoomed(sessions))
      /\ FingersFit(fingers, alive) /\ DragsEnd(Rest, fingers) /\ OneDrags(fingers)
  BY <1>1, <1>2, RestIsSteady DEF Rest, Now
<1>7. /\ Rest \in Seq(Item) /\ Ending(Rest) = Ending(todo) /\ Now = todo[1]
      /\ Len(Rest) \in Nat /\ Len(todo) = Len(Rest) + 1
      /\ \A n \in 1 .. Len(Rest) : Rest[n] = todo[n + 1] /\ n + 1 \in 1 .. Len(todo)
  BY <1>1, <1>2, RestOf, EndingOfRest DEF Rest, Now
<1>8. \A m \in 1 .. Len(todo) : m = 1 \/ (m - 1 \in 1 .. Len(Rest) /\ todo[m] = Rest[m - 1])
  <2> SUFFICES ASSUME NEW m \in 1 .. Len(todo), m # 1
               PROVE  m - 1 \in 1 .. Len(Rest) /\ todo[m] = Rest[m - 1]
    OBVIOUS
  <2>1. m - 1 \in 1 .. Len(Rest) /\ (m - 1) + 1 = m
    BY <1>7
  <2> QED
    BY <1>7, <2>1
<1>9. SweptAfter(p, Rest, fingers)
  <2> SUFFICES ASSUME NEW n \in 1 .. Len(Rest), Rest[n].op = "destroy",
                      ~ \E m \in 1 .. Len(Rest) : m < n /\ Rest[m].op = "collect"
                                                  /\ Rest[m].view = Rest[n].view,
                      NEW f \in TouchingIn(fingers, Rest[n].view)
               PROVE  Canceling(f, n, Rest) \/ \E m \in 1 .. Len(p) : p[m].op = "cancel" /\ p[m].f = f
    BY DEF SweptAfter
  <2>1. CASE Rest[n].view = Now.view
    <3>1. PICK m \in 1 .. c : ids[m] = f
      BY <1>3, <1>4, <2>1
    <3> QED
      BY <1>5, <3>1
  <2>2. CASE Rest[n].view # Now.view
    <3>1. ~ \E m \in 1 .. Len(todo) : /\ m < n + 1 /\ todo[m].op = "collect"
                                      /\ todo[m].view = todo[n + 1].view
      <4> SUFFICES ASSUME NEW m \in 1 .. Len(todo), m < n + 1, todo[m].op = "collect",
                          todo[m].view = todo[n + 1].view
                   PROVE  FALSE
        OBVIOUS
      <4>1. m # 1
        BY <1>7, <2>2
      <4>2. m - 1 < n
        BY <4>1
      <4> QED
        BY <1>7, <1>8, <4>1, <4>2
    <3>2. PICK m \in 1 .. Len(todo) : m < n + 1 /\ todo[m].op = "cancel" /\ todo[m].f = f
      BY <1>2, <1>7, <3>1 DEF Arena, FingersSwept, Canceling
    <3>3. m # 1
      BY <1>1, <1>7, <3>2
    <3>4. m - 1 < n
      BY <3>2
    <3> QED
      BY <1>8, <3>2, <3>3, <3>4 DEF Canceling
  <2> QED
    BY <2>1, <2>2
<1>10. /\ Ordered(p) /\ StopsDrop(p) /\ EndsDiffer(p) /\ Ending(p) = {}
       /\ SessionsSwept(p, Zoomed(sessions)) /\ FingersSwept(p, fingers)
       /\ ItemsFit(p, fingers, Zoomed(sessions))
       /\ \A n \in 1 .. Len(p) : p[n].op = "cancel"
  <2>1. \A n \in 1 .. Len(p) : p[n].op = "cancel"
    BY <1>5
  <2>2. Before("cancel", "cancel")
    BY DEF Before, Sweeping, Single
  <2>3. Ordered(p)
    BY <2>1, <2>2 DEF Ordered
  <2> QED
    BY <2>1, <2>3 DEF StopsDrop, EndsDiffer, Ending, SessionsSwept, FingersSwept, ItemsFit, Fits
<1>11. /\ p \o Rest \in Seq(Item) /\ Ending(p \o Rest) = Ending(todo)
  <2>1. p \o Rest \in Seq(Item)
    BY <1>5, <1>7, BothOf
  <2>2. Ending(p \o Rest) = Ending(p) \cup Ending(Rest)
    BY <1>5, <1>7, FrontEnding
  <2> QED
    BY <1>7, <1>10, <2>1, <2>2
<1>12. Arena(p \o Rest, fingers, Zoomed(sessions), alive)
  <2>1. \A n \in 1 .. Len(p), m \in 1 .. Len(Rest) :
          /\ Before(p[n].op, Rest[m].op)
          /\ p[n].op = "endPan" /\ Rest[m].op = "endPan" => p[n].f # Rest[m].f
    BY <1>10 DEF Before, Sweeping, Single
  <2>2. Ordered(p \o Rest) /\ StopsDrop(p \o Rest) /\ EndsDiffer(p \o Rest)
    BY <1>5, <1>6, <1>7, <1>10, <2>1, FrontKeepsOrder, FrontKeepsStops, FrontKeepsEnds
  <2>3. /\ SessionsSwept(p \o Rest, Zoomed(sessions)) /\ FingersSwept(p \o Rest, fingers)
        /\ ItemsFit(p \o Rest, fingers, Zoomed(sessions))
    BY <1>5, <1>6, <1>7, <1>9, <1>10, FrontKeepsSessions, FrontKeepsFingers, FrontKeepsItems
  <2>4. DragsEnd(p \o Rest, fingers)
    BY <1>5, <1>6, <1>7, FrontKeepsDrops DEF DragsEnd
  <2> QED
    BY <1>6, <2>2, <2>3, <2>4 DEF Arena
<1> QED
  BY <1>1, <1>2, <1>11, <1>12, StepInArena, TapsFit

\* A step that changes which views there are, and none of the tables.
LEMMA StepOfViews ==
  ASSUME IInv, UNCHANGED <<fingers, sessions>>, todo' \in Seq(Item), alive' \subseteq View,
         Arena(todo', fingers, Zoomed(sessions), alive'),
         Zoomed(sessions) \subseteq alive', scaling' = Zoomed(sessions),
         panning' = Dragged(fingers) \cup {e \in Ending(todo') : e[2] \in alive'},
         pending' \in [view : View \cup {NoView}, age : 0 .. DoubleTapTimeout + 1],
         pending'.view \in alive' \cup {NoView}
  PROVE  IInv'
<1>1. Typed'
  BY DEF IInv, Typed, TouchTable
<1>2. Zoomed(sessions') = Zoomed(sessions) /\ Apart(sessions')
  BY DEF IInv, SessionsFit, Zoomed, Apart
<1>3. Arena(todo', fingers', Zoomed(sessions'), alive')
  BY <1>2
<1>4. Arena(todo, fingers, Zoomed(sessions), alive)'
  BY <1>3 DEF Zoomed
<1>5. SessionsFit'
  BY <1>2 DEF SessionsFit, Zoomed, Apart
<1>6. PansFit' /\ PendingFits'
  BY DEF PansFit, PendingFits
<1> QED
  BY <1>1, <1>4, <1>5, <1>6 DEF IInv

LEMMA MountKeeps ==
  ASSUME PointerAssumption, IInv, NEW v \in View, Mount(v)
  PROVE  IInv'
<1>1. /\ todo = << >> /\ alive' = alive \cup {v}
      /\ UNCHANGED <<fingers, pending, sessions, todo, panning, scaling>>
  BY DEF Mount, Idle, historyVars
<1>2. /\ panning = Dragged(fingers) /\ Arena(<< >>, fingers, Zoomed(sessions), alive)
      /\ Ending(<< >>) = {} /\ << >> \in Seq(Item)
  BY <1>1, Resting, EmptySeq DEF Idle
<1>3. Arena(<< >>, fingers, Zoomed(sessions), alive')
  BY <1>1, <1>2 DEF Arena, FingersFit
<1>4. /\ alive' \subseteq View /\ Zoomed(sessions) \subseteq alive'
      /\ scaling' = Zoomed(sessions) /\ pending'.view \in alive' \cup {NoView}
      /\ pending' \in [view : View \cup {NoView}, age : 0 .. DoubleTapTimeout + 1]
  BY <1>1 DEF IInv, Typed, SessionsFit, PendingFits
<1> QED
  BY <1>1, <1>2, <1>3, <1>4, StepOfViews

LEMMA HideKeeps ==
  ASSUME PointerAssumption, IInv, Hide \/ LostInCallbacks
  PROVE  IInv'
<1>1. UNCHANGED <<alive, fingers, pending, sessions, panning, scaling>>
  BY DEF Hide, LostInCallbacks, viewVars, historyVars
<1>2. CASE GoWrong
  BY <1>1, <1>2, GoWrongKeeps
<1>3. CASE Hide /\ todo' = Rest
  <2>1. todo # << >> /\ Now.op = "hide"
    BY <1>3 DEF Hide, At, Now
  <2> QED
    BY <1>1, <1>3, <2>1, PassKeeps, TapsFit
<1> QED
  BY <1>2, <1>3 DEF Hide, LostInCallbacks, GoOn

LEMMA DestroyKeeps ==
  ASSUME PointerAssumption, IInv, Destroy
  PROVE  IInv'
<1> DEFINE gone == Under(Now.view)
           ended == {i \in DOMAIN sessions : sessions[i].view \in gone}
           S == UNION {Range(sessions[i].ids) : i \in ended}
<1>1. /\ todo # << >> /\ Now.op = "destroy" /\ todo' = Rest /\ alive' = alive \ gone
      /\ pending' = (IF pending.view \in gone THEN NoTap ELSE pending)
      /\ panning' = {e \in panning : e[2] \notin gone} /\ scaling' = scaling \ gone
  BY DEF Destroy, At, Now, GoOn
<1>2. /\ todo \in Seq(Item) /\ TouchTable(fingers) /\ Now = todo[1] /\ 1 \in 1 .. Len(todo)
      /\ Arena(todo, fingers, Zoomed(sessions), alive)
      /\ panning = Dragged(fingers) \cup {e \in Ending(todo) : e[2] \in alive}
      /\ scaling = Zoomed(sessions) /\ Zoomed(sessions) \subseteq alive
      /\ DOMAIN sessions = 1 .. Len(sessions) /\ alive \subseteq View
  BY <1>1, NowFits, LenProperties DEF IInv, Typed, PansFit, SessionsFit
<1>3. ~ \E m \in 1 .. Len(todo) : m < 1
  BY <1>2, LenProperties
<1>4. Zoomed(sessions) \cap gone = {}
  BY <1>1, <1>2, <1>3 DEF Arena, SessionsSwept
<1>5. TouchingIn(fingers, Now.view) = {}
  BY <1>1, <1>2, <1>3 DEF Arena, FingersSwept, Canceling
<1>6. ended = {}
  BY <1>2, <1>4 DEF Zoomed
<1>7. Touching(Now.view) = {}
  BY <1>5 DEF Touching, TouchingIn, Down
<1>8. UNCHANGED sessions
  BY <1>6 DEF Destroy
<1>9. UNCHANGED fingers
  <2>1. S = {}
    BY <1>6
  <2>2. fingers' = [f \in Down \ Touching(Now.view) |-> Released(S)[f]]
    BY DEF Destroy
  <2> HIDE DEF S
  <2>3. \A f \in Down : Released(S)[f] = fingers[f]
    BY <2>1 DEF Released
  <2>4. fingers = [f \in Down |-> fingers[f]]
    BY <1>2 DEF TouchTable, Down
  <2> QED
    BY <1>7, <2>2, <2>3, <2>4
<1> HIDE DEF gone, ended, S
<1>10. \A f \in Down : {fingers[f].target, fingers[f].pan, fingers[f].scale} \cap gone = {}
  BY <1>5 DEF TouchingIn, Down, gone
<1>11. Rest \in Seq(Item) /\ Ending(Rest) = Ending(todo)
  BY <1>1, <1>2, RestOf, EndingOfRest DEF Rest, Now
<1>12. Arena(Rest, fingers, Zoomed(sessions), alive')
  <2>1. Arena(Rest, fingers, Zoomed(sessions), alive)
    BY <1>1, <1>2, RestIsArena DEF Rest, Now
  <2>2. FingersFit(fingers, alive')
    <3> SUFFICES ASSUME NEW f \in DOMAIN fingers
                 PROVE  /\ {fingers[f].target, fingers[f].pan, fingers[f].scale}
                             \subseteq alive' \cup {NoView}
                        /\ fingers[f].dragging = TRUE => fingers[f].pan # NoView
                        /\ fingers[f].did # {} => fingers[f].tapDead = TRUE
      BY DEF FingersFit
    <3>1. /\ {fingers[f].target, fingers[f].pan, fingers[f].scale} \subseteq alive \cup {NoView}
          /\ fingers[f].dragging = TRUE => fingers[f].pan # NoView
          /\ fingers[f].did # {} => fingers[f].tapDead = TRUE
      BY <2>1 DEF Arena, FingersFit
    <3> QED
      BY <1>1, <1>10, <3>1 DEF Down
  <2> QED
    BY <2>1, <2>2 DEF Arena
<1>13. panning' = Dragged(fingers) \cup {e \in Ending(todo') : e[2] \in alive'}
  <2>1. \A e \in Dragged(fingers) : e[2] \notin gone
    BY <1>10 DEF Dragged, Down
  <2> QED
    BY <1>1, <1>2, <1>11, <2>1
<1>14. /\ Zoomed(sessions) \subseteq alive' /\ scaling' = Zoomed(sessions) /\ alive' \subseteq View
  BY <1>1, <1>2, <1>4
<1>15. /\ pending' \in [view : View \cup {NoView}, age : 0 .. DoubleTapTimeout + 1]
       /\ pending'.view \in alive' \cup {NoView}
  <2>1. CASE pending.view \in gone
    BY <1>1, <2>1 DEF NoTap, PointerAssumption
  <2>2. CASE pending.view \notin gone
    BY <1>1, <2>2 DEF IInv, Typed, PendingFits
  <2> QED
    BY <2>1, <2>2
<1> QED
  BY <1>1, <1>8, <1>9, <1>11, <1>12, <1>13, <1>14, <1>15, StepOfViews

\* The count of the removals stands behind everything else.
LEMMA RemovedBehind ==
  ASSUME NEW q \in Seq(Item), NEW fs, NEW V, NEW there, Arena(q, fs, V, there)
  PROVE  LET r == q \o <<[op |-> "removed"]>>
         IN  r \in Seq(Item) /\ Arena(r, fs, V, there) /\ Ending(r) = Ending(q)
<1> DEFINE r == <<[op |-> "removed"]>>
<1>1. r \in Seq(Item) /\ \A n \in 1 .. Len(r) : r[n].op = "removed"
  <2>1. [op |-> "removed"] \in Item
    BY BareItems
  <2> QED
    BY <2>1
<1> HIDE DEF r
<1>2. /\ Ordered(r) /\ StopsDrop(r) /\ EndsDiffer(r) /\ Ending(r) = {}
      /\ SessionsSwept(r, V) /\ SweptAfter(q, r, fs) /\ ItemsFit(r, fs, V)
  <2>1. Before("removed", "removed")
    BY DEF Before, Sweeping, Single
  <2> QED
    BY <1>1, <2>1 DEF Ordered, StopsDrop, EndsDiffer, Ending, SessionsSwept, SweptAfter,
                      ItemsFit, Fits
<1>3. \A n \in 1 .. Len(q), m \in 1 .. Len(r) :
        /\ Before(q[n].op, r[m].op)
        /\ q[n].op = "endPan" /\ r[m].op = "endPan" => q[n].f # r[m].f
  BY <1>1 DEF Before, Sweeping
<1>4. Ordered(q \o r) /\ StopsDrop(q \o r) /\ EndsDiffer(q \o r)
  BY <1>1, <1>2, <1>3, FrontKeepsOrder, FrontKeepsStops, FrontKeepsEnds DEF Arena
<1>5. SessionsSwept(q \o r, V) /\ FingersSwept(q \o r, fs) /\ ItemsFit(q \o r, fs, V)
  BY <1>1, <1>2, FrontKeepsSessions, FrontKeepsFingers, FrontKeepsItems DEF Arena
<1>6. DragsEnd(q \o r, fs)
  BY <1>1, FrontKeepsDrops DEF DragsEnd, Arena
<1>7. Arena(q \o r, fs, V, there)
  BY <1>4, <1>5, <1>6 DEF Arena
<1>8. q \o r \in Seq(Item)
  BY <1>1, BothOf
<1>9. Ending(q \o r) = Ending(q)
  <2>1. Ending(q \o r) = Ending(q) \cup Ending(r)
    BY <1>1, FrontEnding
  <2> QED
    BY <1>2, <2>1
<1> QED
  BY <1>7, <1>8, <1>9 DEF r

\* A removal sweeps the sessions and the fingers of the view before it destroys or
\* hides it.
LEMMA RemovalIsArena ==
  ASSUME NEW v \in View, NEW forGood \in BOOLEAN, NEW q \in Seq(Item),
         NEW fs, NEW V, NEW there, Arena(q, fs, V, there)
  PROVE  LET p == <<[op |-> "sessions", view |-> v], [op |-> "collect", view |-> v],
                    [op |-> IF forGood THEN "destroy" ELSE "hide", view |-> v]>>
         IN  p \in Seq(Item) /\ p \o q \in Seq(Item) /\ Arena(p \o q, fs, V, there)
             /\ Ending(p \o q) = Ending(q)
<1> DEFINE s == [op |-> "sessions", view |-> v]
           c == [op |-> "collect", view |-> v]
           d == [op |-> IF forGood THEN "destroy" ELSE "hide", view |-> v]
           p == <<s, c, d>>
<1>1. /\ s \in Item /\ c \in Item /\ d \in Item
      /\ s.op = "sessions" /\ c.op = "collect" /\ d.op \in {"destroy", "hide"}
      /\ s.view = v /\ c.view = v /\ d.view = v
  BY ItemsOfViews
<1> HIDE DEF s, c, d
<1>2. p \in Seq(Item) /\ Len(p) = 3 /\ p[1] = s /\ p[2] = c /\ p[3] = d
  BY <1>1
<1> HIDE DEF p
<1>3. \A n \in 1 .. Len(p) : n \in {1, 2, 3} /\ p[n].op \in {"sessions", "collect", "destroy", "hide"}
                             /\ p[n].view = v /\ (p[n].op = "destroy" => n = 3)
  BY <1>1, <1>2
<1>4. /\ Ordered(p) /\ StopsDrop(p) /\ EndsDiffer(p) /\ ItemsFit(p, fs, V) /\ Ending(p) = {}
  <2>1. \A a, b \in {"sessions", "collect", "destroy", "hide"} : Before(a, b)
    BY DEF Before, Sweeping, Single
  <2>2. Ordered(p)
    BY <1>3, <2>1 DEF Ordered
  <2> QED
    BY <1>3, <2>2 DEF StopsDrop, EndsDiffer, ItemsFit, Fits, Ending
<1>5. SessionsSwept(p, V) /\ FingersSwept(p, fs)
  <2>1. \A n \in 1 .. Len(p) : p[n].op = "destroy" =>
          /\ 1 \in 1 .. Len(p) /\ 1 < n /\ p[1].op = "sessions" /\ p[1].view = p[n].view
          /\ 2 \in 1 .. Len(p) /\ 2 < n /\ p[2].op = "collect" /\ p[2].view = p[n].view
    BY <1>1, <1>2, <1>3
  <2> QED
    BY <2>1 DEF SessionsSwept, FingersSwept
<1>6. \A n \in 1 .. Len(p), m \in 1 .. Len(q) :
        /\ Before(p[n].op, q[m].op)
        /\ p[n].op = "endPan" /\ q[m].op = "endPan" => p[n].f # q[m].f
  BY <1>3 DEF Before, Sweeping, Single
<1>7. Arena(p \o q, fs, V, there)
  BY <1>2, <1>4, <1>5, <1>6, FrontIsArena
<1>8. p \o q \in Seq(Item)
  BY <1>2, BothOf
<1>9. Ending(p \o q) = Ending(q)
  <2>1. Ending(p \o q) = Ending(p) \cup Ending(q)
    BY <1>2, FrontEnding
  <2> QED
    BY <1>4, <2>1
<1> QED
  BY <1>2, <1>7, <1>8, <1>9 DEF p, s, c, d

LEMMA RemoveViewKeeps ==
  ASSUME PointerAssumption, IInv, NEW v \in View, NEW forGood \in BOOLEAN, RemoveView(v, forGood)
  PROVE  IInv'
<1> DEFINE p == <<[op |-> "sessions", view |-> v], [op |-> "collect", view |-> v],
                  [op |-> IF forGood THEN "destroy" ELSE "hide", view |-> v]>>
           resume == [op |-> "resume"]
           r == <<[op |-> "removed"]>>
           Z == Zoomed(sessions)
<1>1. /\ todo' = p \o <<resume>> \o todo \o r
      /\ pending' = (IF pending.view \in Under(v) THEN NoTap ELSE pending)
      /\ UNCHANGED <<alive, fingers, sessions, panning, scaling>>
  BY DEF RemoveView, GoOn, historyVars
<1>2. /\ todo \in Seq(Item) /\ TouchTable(fingers) /\ Arena(todo, fingers, Z, alive)
      /\ panning = Dragged(fingers) \cup {e \in Ending(todo) : e[2] \in alive}
  BY DEF IInv, Typed, PansFit
<1>3. resume \in Item /\ resume.op = "resume"
  BY BareItems
<1> HIDE DEF Z
<1> DEFINE t == <<resume>> \o todo
<1>4. t \in Seq(Item) /\ Arena(t, fingers, Z, alive) /\ Ending(t) = Ending(todo)
  <2>1. /\ Fits(resume, fingers, Z)
        /\ \A m \in 1 .. Len(todo) : /\ Before(resume.op, todo[m].op)
                                     /\ resume.op = "endPan" /\ todo[m].op = "endPan"
                                          => resume.f # todo[m].f
    BY <1>3 DEF Fits, Before, Sweeping, Single
  <2>2. t \in Seq(Item) /\ Arena(t, fingers, Z, alive)
    BY <1>2, <1>3, <2>1, OneInFront
  <2>3. <<resume>> \in Seq(Item) /\ Ending(<<resume>>) = {}
    BY <1>3 DEF Ending
  <2>4. Ending(t) = Ending(todo)
    BY <1>2, <2>3, FrontEnding
  <2> QED
    BY <2>2, <2>4
<1>5. /\ p \in Seq(Item) /\ p \o t \in Seq(Item) /\ Arena(p \o t, fingers, Z, alive)
      /\ Ending(p \o t) = Ending(todo)
  <2> HIDE DEF t
  <2> QED
    BY <1>4, RemovalIsArena
<1>6. p \o <<resume>> \o todo = p \o t
  <2>1. <<resume>> \in Seq(Item)
    BY <1>3
  <2> QED
    BY <1>2, <1>5, <2>1, ConcatAssociative
<1> HIDE DEF p, t
<1>7. /\ todo' = (p \o t) \o r
  BY <1>1, <1>6
<1>8. /\ todo' \in Seq(Item) /\ Arena(todo', fingers, Z, alive) /\ Ending(todo') = Ending(todo)
  BY <1>5, <1>7, RemovedBehind
<1>9. pending' \in [view : alive \cup {NoView}, age : 0 .. DoubleTapTimeout + 1]
  BY <1>1, TapsFit
<1> QED
  BY <1>1, <1>2, <1>8, <1>9, StepInArena DEF Z

-----------------------------------------------------------------------------
(* The invariant *)

LEMMA StillKeeps ==
  ASSUME PointerAssumption, IInv, UNCHANGED vars
  PROVE  IInv'
<1>1. UNCHANGED <<alive, fingers, pending, sessions, todo, panning, scaling>>
  BY DEF vars, viewVars, historyVars
<1>2. /\ TouchTable(fingers) /\ todo \in Seq(Item)
      /\ Arena(todo, fingers, Zoomed(sessions), alive)
      /\ panning = Dragged(fingers) \cup {e \in Ending(todo) : e[2] \in alive}
  BY DEF IInv, Typed, PansFit
<1> QED
  BY <1>1, <1>2, StepInArena, TapsFit

LEMMA InitIInv ==
  ASSUME PointerAssumption, Init
  PROVE  IInv
<1>1. /\ alive = View /\ fingers = << >> /\ pending = NoTap /\ sessions = << >>
      /\ todo = << >> /\ panning = {} /\ scaling = {}
  BY DEF Init
<1>2. DOMAIN fingers = {} /\ << >> \in Seq(Item) /\ << >> \in Seq(Session)
      /\ \A n \in 1 .. Len(<< >>) : FALSE
  BY <1>1, EmptySeq
<1>3. Typed
  <2>1. TouchTable(fingers)
    BY <1>2 DEF TouchTable, FingerState
  <2> QED
    BY <1>1, <1>2, <2>1 DEF Typed, NoTap, PointerAssumption
<1>4. Zoomed(sessions) = {} /\ Apart(sessions) /\ Ending(todo) = {} /\ Dragged(fingers) = {}
  BY <1>1, <1>2 DEF Zoomed, Apart, Ending, Dragged
<1>5. Arena(todo, fingers, Zoomed(sessions), alive)
  <2>1. /\ Ordered(todo) /\ StopsDrop(todo) /\ EndsDiffer(todo)
        /\ SessionsSwept(todo, Zoomed(sessions)) /\ FingersSwept(todo, fingers)
        /\ ItemsFit(todo, fingers, Zoomed(sessions))
    BY <1>1, <1>2 DEF Ordered, StopsDrop, EndsDiffer, SessionsSwept, FingersSwept, ItemsFit
  <2>2. FingersFit(fingers, alive) /\ DragsEnd(todo, fingers) /\ OneDrags(fingers)
    BY <1>2 DEF FingersFit, DragsEnd, OneDrags
  <2> QED
    BY <2>1, <2>2 DEF Arena
<1>6. SessionsFit /\ PansFit /\ PendingFits
  BY <1>1, <1>4 DEF SessionsFit, PansFit, PendingFits, NoTap
<1> QED
  BY <1>3, <1>5, <1>6 DEF IInv

LEMMA StepIInv ==
  ASSUME PointerAssumption, IInv, [Next]_vars
  PROVE  IInv'
<1>1. CASE \E f \in Finger : TouchDown(f) \/ Move(f) \/ Up(f) \/ Cancel(f)
  BY <1>1, TouchDownKeeps, MoveKeeps, UpKeeps, CancelKeeps
<1>2. CASE HandlerGoesOn
  <2>1. CASE EndPan \/ HitAgain \/ AddFinger \/ Gather \/ StopTap \/ DropPan \/ OpenSession
    BY <2>1, EndPanKeeps, HitAgainKeeps, AddFingerKeeps, GatherKeeps, StopTapKeeps,
       DropPanKeeps, OpenSessionKeeps
  <2>2. CASE \/ ClaimPan \/ EraseFinger \/ EndSessions \/ CollectFingers \/ CancelFinger
            \/ Hide \/ LostInCallbacks \/ Destroy
    BY <2>2, ClaimPanKeeps, EraseFingerKeeps, EndSessionsKeeps, CollectFingersKeeps,
       CancelFingerKeeps, HideKeeps, DestroyKeeps
  <2>3. CASE Tap \/ FireLongPress \/ Settle \/ Needed \/ Resume \/ Removed \/ StopTimer
    BY <2>3, OthersKeep
  <2> QED
    BY <1>2, <2>1, <2>2, <2>3 DEF HandlerGoesOn
<1>3. CASE TimePasses \/ Tick \/ CancelAll
  BY <1>3, TimePassesKeeps, TickKeeps, CancelAllKeeps
<1>4. CASE \E v \in View : Mount(v) \/ \E forGood \in BOOLEAN : RemoveView(v, forGood)
  BY <1>4, MountKeeps, RemoveViewKeeps
<1>5. CASE UNCHANGED vars
  BY <1>5, StillKeeps
<1> QED
  BY <1>1, <1>2, <1>3, <1>4, <1>5 DEF Next

-----------------------------------------------------------------------------
(* Theorems *)

LEMMA FingersAreTyped ==
  ASSUME IInv
  PROVE  /\ \A f \in Down : f \in Finger /\ fingers[f] \in FingerState
         /\ FingersFit(fingers, alive) /\ OneDrags(fingers)
         /\ DOMAIN sessions = 1 .. Len(sessions) /\ sessions \in Seq(Session)
         /\ \A f \in Down : fingers[f].dragging \in BOOLEAN
<1>1. \A f \in Down : f \in Finger /\ fingers[f] \in FingerState
  BY DEF IInv, Typed, TouchTable, Down
<1>2. \A f \in Down : fingers[f].dragging \in BOOLEAN
  BY <1>1 DEF FingerState
<1> QED
  BY <1>1, <1>2, LenProperties DEF IInv, Typed, Arena

\* What the handlers on the stack have still to do is always fit to be done.
THEOREM ArenaInvariant == PointerAssumption => (Spec => []IInv)
<1> SUFFICES ASSUME PointerAssumption PROVE Spec => []IInv
  OBVIOUS
<1> QED
  BY InitIInv, StepIInv, PTL DEF Spec

\* The tables of pointer_input.cpp (the fingers, the tap that waits, the sessions)
\* refer only to views that are there: after each step of each handler, and not only
\* when the handlers have returned, whatever callbacks remove in the middle of them.
THEOREM NothingNamesAGoneView == PointerAssumption => (Spec => []TypeOK)
<1> SUFFICES ASSUME PointerAssumption PROVE Spec => []TypeOK
  OBVIOUS
<1>1. IInv => TypeOK
  <2> SUFFICES ASSUME IInv PROVE TypeOK
    OBVIOUS
  <2>1. alive \subseteq View /\ Down \subseteq Finger
    BY DEF IInv, Typed, TouchTable, Down
  <2>2. \A f \in Down : {fingers[f].target, fingers[f].pan, fingers[f].scale}
                          \subseteq alive \cup {NoView}
    BY FingersAreTyped DEF FingersFit, Down
  <2>3. pending.view \in alive \cup {NoView} /\ pending.age \in 0 .. DoubleTapTimeout + 1
    BY DEF IInv, Typed, PendingFits
  <2>4. ASSUME NEW i \in DOMAIN sessions
        PROVE  sessions[i].view \in alive /\ Range(sessions[i].ids) \subseteq Finger
    <3>1. sessions[i] \in Session /\ i \in 1 .. Len(sessions)
      BY FingersAreTyped, ElementOfSeq
    <3>2. sessions[i].view \in alive
      BY <3>1 DEF IInv, SessionsFit, Zoomed
    <3>3. sessions[i].ids \in Seq(Finger)
      BY <3>1 DEF Session
    <3>4. Range(sessions[i].ids) \subseteq Finger
      BY <3>3, LenProperties DEF Range
    <3> QED
      BY <3>2, <3>4
  <2> QED
    BY <2>1, <2>2, <2>3, <2>4 DEF TypeOK
<1> QED
  BY <1>1, ArenaInvariant, PTL

\* The arena of pointer_input.cpp is fair on every page and with any number of
\* fingers: a view hears one pan and one scale at a time, each with its one end,
\* and a finger that did something else first does not tap, however the handlers,
\* the callbacks and the removals they make interleave.
THEOREM TheArenaIsFair == PointerAssumption => (Spec => []ArenaIsFair)
<1> SUFFICES ASSUME PointerAssumption PROVE Spec => []ArenaIsFair
  OBVIOUS
<1>1. IInv => ArenaIsFair
  <2> SUFFICES ASSUME IInv PROVE ArenaIsFair
    OBVIOUS
  <2>1. Idle => panning = {<<f, fingers[f].pan>> : f \in {g \in Down : fingers[g].dragging}}
    <3>1. {g \in Down : fingers[g].dragging} = {g \in Down : fingers[g].dragging = TRUE}
      BY FingersAreTyped, Zenon
    <3>2. Idle => panning = Dragged(fingers)
      BY Resting
    <3> QED
      BY <3>1, <3>2 DEF Dragged, Down
  <2>2. scaling = {sessions[i].view : i \in DOMAIN sessions}
    BY FingersAreTyped DEF IInv, SessionsFit, Zoomed
  <2>3. \A f, g \in Down : fingers[f].dragging /\ fingers[g].dragging
                             /\ fingers[f].pan = fingers[g].pan => f = g
    <3>1. \A f \in Down : fingers[f].dragging => fingers[f].dragging = TRUE
      BY FingersAreTyped, Zenon
    <3> QED
      BY <3>1, FingersAreTyped DEF OneDrags, Down
  <2>4. \A i, j \in DOMAIN sessions : sessions[i].view = sessions[j].view => i = j
    BY FingersAreTyped DEF IInv, SessionsFit, Apart
  <2>5. At("tap") => Now.did = {}
    BY NowFits, OtherItems DEF At, Now
  <2> QED
    BY <2>1, <2>2, <2>3, <2>4, <2>5 DEF ArenaIsFair
<1> QED
  BY <1>1, ArenaInvariant, PTL

-----------------------------------------------------------------------------
(***************************************************************************)
(* A scrolling view.  The inductive invariant says where the position a    *)
(* view is shown at is in range at the latest: a spring aims into the      *)
(* range for as long as it may still move the view, and raw and offset     *)
(* agree in range, so that whatever ends a motion ends it in range.        *)
(***************************************************************************)

Types ==
  /\ raw \in [Axis -> Int] /\ offset \in [Axis -> Int]
  /\ content \in Contents /\ viewport \in Viewports
  /\ panAxis \in Axis \cup {Scroll!None}
  /\ animating \in BOOLEAN /\ dragged \in BOOLEAN /\ cut \in BOOLEAN
  /\ touching \in 0 .. MaxTouches
  /\ animations \in Seq(Scroll!Ticks) /\ running \in Seq(Scroll!Ticks)
  /\ inCallback \in {"fling", "arrived", Scroll!None}

\* A finger that drags is on the view, and nothing moves the view meanwhile.
DragIsAlone ==
  dragged = TRUE => touching >= 1 /\ animating = FALSE /\ inCallback = Scroll!None

\* A tick that called back is the head of the list.
CallbackIsRunning ==
  /\ inCallback # Scroll!None => running # << >>
  /\ inCallback = "fling" => Head(running).view = "fling"

\* Where raw is in range, so is what is shown.
AgreeInRange ==
  dragged = TRUE \/ inCallback = "fling" => (Scroll!Within(raw) => offset = raw)

\* The springs that may still move the view bring it back into the range.
AimInRange(ticks) ==
  \A i \in 1 .. Len(ticks) : ticks[i].view = "spring" => Scroll!Within(ticks[i].to)

SpringsAim ==
  animating = TRUE /\ cut = FALSE => AimInRange(animations) /\ AimInRange(running)

StoppedInRange ==
  /\ dragged = FALSE /\ animating = FALSE /\ cut = FALSE /\ inCallback = Scroll!None
       => Scroll!Within(offset)
  /\ inCallback = "arrived" /\ cut = FALSE => Scroll!Within(offset)
  /\ inCallback = "fling" /\ animating = FALSE => Scroll!Within(raw)

ScrollInv ==
  /\ Types
  /\ DragIsAlone
  /\ CallbackIsRunning
  /\ AgreeInRange
  /\ SpringsAim
  /\ StoppedInRange

(***************************************************************************)
(* The geometry of a range.                                                *)
(***************************************************************************)

LEMMA ClampIsInRange ==
  ASSUME NEW n \in Int, NEW top \in Nat
  PROVE  /\ Scroll!Clamp(n, top) \in Int
         /\ Scroll!Clamp(Scroll!Clamp(n, top), top) = Scroll!Clamp(n, top)
BY DEF Scroll!Clamp, Scroll!Greatest, Scroll!Least

LEMMA RangeIsNat ==
  ASSUME NEW size \in [Axis -> Nat], NEW port \in [Axis -> Nat]
  PROVE  Scroll!MaxOffset(size, port) \in [Axis -> Nat]
BY DEF Scroll!MaxOffset, Scroll!Greatest

LEMMA ClampedIsInRange ==
  ASSUME NEW p \in [Axis -> Int], NEW top \in [Axis -> Nat]
  PROVE  /\ Scroll!Clamped(p, top) \in [Axis -> Int]
         /\ Scroll!Clamped(Scroll!Clamped(p, top), top) = Scroll!Clamped(p, top)
BY ClampIsInRange DEF Scroll!Clamped

LEMMA DampedInRange ==
  ASSUME Scroll!maxOffset \in [Axis -> Nat], NEW p \in [Axis -> Int]
  PROVE  /\ Scroll!DampedOffset(p) \in [Axis -> Int]
         /\ Scroll!Within(p) => Scroll!DampedOffset(p) = p
<1> DEFINE over(a) == p[a] - Scroll!Clamp(p[a], Scroll!maxOffset[a])
           damped(a) == Scroll!Clamp(p[a], Scroll!maxOffset[a])
                          + IF over(a) < 0 THEN -((1 - over(a)) \div 2) ELSE (1 + over(a)) \div 2
<1>1. Scroll!DampedOffset(p) = [a \in Axis |-> damped(a)]
  BY DEF Scroll!DampedOffset
<1>2. ASSUME NEW a \in Axis PROVE damped(a) \in Int
  <2>1. Scroll!Clamp(p[a], Scroll!maxOffset[a]) \in Int /\ over(a) \in Int
    BY ClampIsInRange
  <2> HIDE DEF over
  <2>2. (1 - over(a)) \div 2 \in Int /\ (1 + over(a)) \div 2 \in Int
    BY <2>1
  <2> QED
    BY <2>1, <2>2
<1>3. ASSUME Scroll!Within(p), NEW a \in Axis PROVE damped(a) = p[a]
  <2>1. Scroll!Clamp(p[a], Scroll!maxOffset[a]) = p[a]
    BY <1>3 DEF Scroll!Within, Scroll!Clamped
  <2>2. over(a) = 0
    BY <2>1
  <2> QED
    BY <2>1, <2>2
<1> HIDE DEF damped
<1> QED
  BY <1>1, <1>2, <1>3

(***************************************************************************)
(* Lists of ticks.                                                         *)
(***************************************************************************)

LEMMA AimOfTail ==
  ASSUME NEW ticks \in Seq(Scroll!Ticks), ticks # << >>
  PROVE  /\ Tail(ticks) \in Seq(Scroll!Ticks) /\ Head(ticks) \in Scroll!Ticks
         /\ AimInRange(ticks) => AimInRange(Tail(ticks))
         /\ AimInRange(ticks) /\ Head(ticks).view = "spring" => Scroll!Within(Head(ticks).to)
<1>1. /\ Tail(ticks) \in Seq(Scroll!Ticks) /\ Head(ticks) = ticks[1] /\ ticks[1] \in Scroll!Ticks
      /\ Len(ticks) \in Nat /\ Len(ticks) >= 1 /\ Len(Tail(ticks)) = Len(ticks) - 1
      /\ \A i \in 1 .. Len(Tail(ticks)) : Tail(ticks)[i] = ticks[i + 1]
  BY HeadTailProperties, EmptySeq, LenProperties
<1>2. \A i \in 1 .. Len(Tail(ticks)) : i + 1 \in 1 .. Len(ticks)
  BY <1>1
<1>3. 1 \in 1 .. Len(ticks)
  BY <1>1
<1> QED
  BY <1>1, <1>2, <1>3 DEF AimInRange

LEMMA AimOfAppend ==
  ASSUME NEW ticks \in Seq(Scroll!Ticks), NEW tick \in Scroll!Ticks
  PROVE  /\ Append(ticks, tick) \in Seq(Scroll!Ticks) /\ Append(ticks, tick) # << >>
         /\ AimInRange(ticks) /\ (tick.view = "spring" => Scroll!Within(tick.to))
              => AimInRange(Append(ticks, tick))
<1>1. /\ Append(ticks, tick) \in Seq(Scroll!Ticks) /\ Len(ticks) \in Nat
      /\ Len(Append(ticks, tick)) = Len(ticks) + 1
      /\ \A i \in 1 .. Len(ticks) : Append(ticks, tick)[i] = ticks[i]
      /\ Append(ticks, tick)[Len(ticks) + 1] = tick
  BY AppendProperties, LenProperties
<1>2. Append(ticks, tick) # << >>
  BY <1>1, EmptySeq
<1>3. \A i \in 1 .. Len(Append(ticks, tick)) : i \in 1 .. Len(ticks) \/ i = Len(ticks) + 1
  BY <1>1
<1> QED
  BY <1>1, <1>2, <1>3 DEF AimInRange

LEMMA NoTicksAim == AimInRange(<< >>) /\ << >> \in Seq(Scroll!Ticks)
<1>1. Len(<< >>) = 0
  BY EmptySeq
<1> QED
  BY <1>1 DEF AimInRange

(***************************************************************************)
(* The constants, and a view that is in one of the states.                 *)
(***************************************************************************)

LEMMA Ranges ==
  ASSUME Scroll!ScrollAssumption, Types
  PROVE  /\ content \in [Axis -> Nat] /\ viewport \in [Axis -> Nat]
         /\ Scroll!maxOffset \in [Axis -> Nat]
         /\ touching \in Nat
<1>1. content \in [Axis -> Nat] /\ viewport \in [Axis -> Nat]
  BY DEF Scroll!ScrollAssumption, Types
<1>2. Scroll!maxOffset \in [Axis -> Nat]
  BY <1>1, RangeIsNat DEF Scroll!maxOffset
<1>3. touching \in Nat
  BY DEF Types, Scroll!ScrollAssumption
<1> QED
  BY <1>1, <1>2, <1>3

LEMMA ZeroIsInRange ==
  ASSUME Scroll!maxOffset \in [Axis -> Nat]
  PROVE  Scroll!Zero \in [Axis -> Int] /\ Scroll!Within(Scroll!Zero)
<1>1. \A a \in Axis : Scroll!Clamp(0, Scroll!maxOffset[a]) = 0
  BY DEF Scroll!Clamp, Scroll!Greatest, Scroll!Least
<1> QED
  BY <1>1 DEF Scroll!Within, Scroll!Clamped, Scroll!Zero

LEMMA Initially == Scroll!ScrollAssumption /\ Scroll!Init => ScrollInv
<1> SUFFICES ASSUME Scroll!ScrollAssumption, Scroll!Init PROVE ScrollInv
  OBVIOUS
<1>1. content \in [Axis -> Nat] /\ viewport \in [Axis -> Nat]
  BY DEF Scroll!ScrollAssumption, Scroll!Init
<1>2. Scroll!maxOffset \in [Axis -> Nat]
  BY <1>1, RangeIsNat DEF Scroll!maxOffset
<1>3. Scroll!Zero \in [Axis -> Int] /\ Scroll!Within(Scroll!Zero)
  BY <1>2, ZeroIsInRange
<1>4. Types
  <2>1. animating \in BOOLEAN /\ dragged \in BOOLEAN /\ cut \in BOOLEAN
    BY Zenon DEF Scroll!Init
  <2>2. touching \in 0 .. MaxTouches
    BY DEF Scroll!Init, Scroll!ScrollAssumption
  <2>3. /\ raw \in [Axis -> Int] /\ offset \in [Axis -> Int]
        /\ content \in Contents /\ viewport \in Viewports
        /\ panAxis \in Axis \cup {Scroll!None} /\ inCallback \in {"fling", "arrived", Scroll!None}
    BY <1>3 DEF Scroll!Init
  <2>4. animations \in Seq(Scroll!Ticks) /\ running \in Seq(Scroll!Ticks)
    BY NoTicksAim DEF Scroll!Init
  <2> QED
    BY <2>1, <2>2, <2>3, <2>4 DEF Types
<1>5. DragIsAlone /\ AgreeInRange /\ SpringsAim
  BY DEF Scroll!Init, DragIsAlone, AgreeInRange, SpringsAim, Scroll!None
<1>6. CallbackIsRunning /\ StoppedInRange
  BY <1>3 DEF Scroll!Init, CallbackIsRunning, StoppedInRange, Scroll!None
<1> QED
  BY <1>4, <1>5, <1>6 DEF ScrollInv

(***************************************************************************)
(* Steps that move nothing: fingers that do not drag, and ticks that only  *)
(* go from one list to the other.                                          *)
(***************************************************************************)

LEMMA StillStep ==
  ASSUME ScrollInv,
         UNCHANGED <<raw, offset, content, viewport, panAxis, animating, dragged, cut>>,
         inCallback = Scroll!None, inCallback' = Scroll!None,
         touching' \in 0 .. MaxTouches, dragged = TRUE => touching' >= 1,
         animations' \in Seq(Scroll!Ticks), running' \in Seq(Scroll!Ticks),
         animating = TRUE /\ cut = FALSE => AimInRange(animations') /\ AimInRange(running')
  PROVE  ScrollInv'
<1>1. (raw \in [Axis -> Int] /\ offset \in [Axis -> Int]
       /\ content \in Contents /\ viewport \in Viewports
       /\ panAxis \in Axis \cup {Scroll!None} /\ inCallback \in {"fling", "arrived", Scroll!None})'
  BY DEF ScrollInv, Types
<1>2. (animating \in BOOLEAN /\ dragged \in BOOLEAN /\ cut \in BOOLEAN)'
  BY Zenon DEF ScrollInv, Types
<1>3. Types'
  BY <1>1, <1>2 DEF Types
<1>4. DragIsAlone'
  BY DEF ScrollInv, DragIsAlone
<1>5. CallbackIsRunning'
  BY DEF CallbackIsRunning, Scroll!None
<1>6. Scroll!Within(raw)' = Scroll!Within(raw) /\ Scroll!Within(offset)' = Scroll!Within(offset)
  BY DEF Scroll!Within, Scroll!maxOffset
<1>7. AgreeInRange' /\ StoppedInRange'
  BY <1>6 DEF ScrollInv, AgreeInRange, StoppedInRange, Scroll!None
<1>8. SpringsAim'
  BY DEF SpringsAim, AimInRange, Scroll!Within, Scroll!maxOffset
<1> QED
  BY <1>3, <1>4, <1>5, <1>7, <1>8 DEF ScrollInv

LEMMA DownOnChildStep == Scroll!ScrollAssumption /\ ScrollInv /\ Scroll!DownOnChild => ScrollInv'
<1> SUFFICES ASSUME Scroll!ScrollAssumption, ScrollInv, Scroll!DownOnChild PROVE ScrollInv'
  OBVIOUS
<1>1. touching' \in 0 .. MaxTouches /\ (dragged = TRUE => touching' >= 1)
  BY DEF Scroll!DownOnChild, Scroll!ScrollAssumption, ScrollInv, Types, DragIsAlone
<1>2. /\ UNCHANGED <<raw, offset, content, viewport, panAxis, animating, dragged, cut>>
      /\ inCallback = Scroll!None /\ inCallback' = Scroll!None
      /\ animations' = animations /\ running' = running
  BY DEF Scroll!DownOnChild, Scroll!BetweenTicks, Scroll!view
<1>3. animations \in Seq(Scroll!Ticks) /\ running \in Seq(Scroll!Ticks)
  BY DEF ScrollInv, Types
<1> QED
  BY <1>1, <1>2, <1>3, StillStep DEF ScrollInv, SpringsAim

LEMMA UpWithoutPanStep == Scroll!ScrollAssumption /\ ScrollInv /\ Scroll!UpWithoutPan => ScrollInv'
<1> SUFFICES ASSUME Scroll!ScrollAssumption, ScrollInv, Scroll!UpWithoutPan PROVE ScrollInv'
  OBVIOUS
<1>1. touching' \in 0 .. MaxTouches /\ (dragged = TRUE => touching' >= 1)
  BY DEF Scroll!UpWithoutPan, Scroll!ScrollAssumption, ScrollInv, Types
<1>2. /\ UNCHANGED <<raw, offset, content, viewport, panAxis, animating, dragged, cut>>
      /\ inCallback = Scroll!None /\ inCallback' = Scroll!None
      /\ animations' = animations /\ running' = running
  BY DEF Scroll!UpWithoutPan, Scroll!BetweenTicks, Scroll!view
<1>3. animations \in Seq(Scroll!Ticks) /\ running \in Seq(Scroll!Ticks)
  BY DEF ScrollInv, Types
<1> QED
  BY <1>1, <1>2, <1>3, StillStep DEF ScrollInv, SpringsAim

LEMMA TickAnimationsStep ==
  Scroll!ScrollAssumption /\ ScrollInv /\ Scroll!TickAnimations => ScrollInv'
<1> SUFFICES ASSUME Scroll!ScrollAssumption, ScrollInv, Scroll!TickAnimations PROVE ScrollInv'
  OBVIOUS
<1>1. /\ UNCHANGED <<raw, offset, content, viewport, panAxis, animating, dragged, cut>>
      /\ inCallback = Scroll!None /\ inCallback' = Scroll!None /\ touching' = touching
      /\ animations' = << >> /\ running' = animations
  BY DEF Scroll!TickAnimations, Scroll!BetweenTicks, Scroll!view
<1>2. animations \in Seq(Scroll!Ticks) /\ touching \in 0 .. MaxTouches
  BY DEF ScrollInv, Types
<1>3. dragged = TRUE => touching >= 1
  BY DEF ScrollInv, DragIsAlone
<1> QED
  BY <1>1, <1>2, <1>3, NoTicksAim, StillStep DEF ScrollInv, SpringsAim

LEMMA TickStoppedStep == Scroll!ScrollAssumption /\ ScrollInv /\ Scroll!TickStopped => ScrollInv'
<1> SUFFICES ASSUME Scroll!ScrollAssumption, ScrollInv, Scroll!TickStopped PROVE ScrollInv'
  OBVIOUS
<1>1. /\ UNCHANGED <<raw, offset, content, viewport, panAxis, animating, dragged, cut>>
      /\ inCallback = Scroll!None /\ inCallback' = Scroll!None /\ touching' = touching
      /\ animations' = animations /\ running # << >> /\ running' = Tail(running)
  BY DEF Scroll!TickStopped, Scroll!view
<1>2. /\ animations \in Seq(Scroll!Ticks) /\ running \in Seq(Scroll!Ticks)
      /\ touching \in 0 .. MaxTouches
  BY DEF ScrollInv, Types
<1>3. dragged = TRUE => touching >= 1
  BY DEF ScrollInv, DragIsAlone
<1>4. Tail(running) \in Seq(Scroll!Ticks) /\ (AimInRange(running) => AimInRange(Tail(running)))
  BY <1>1, <1>2, AimOfTail
<1> QED
  BY <1>1, <1>2, <1>3, <1>4, StillStep DEF ScrollInv, SpringsAim

\* The first tick of a fling goes on to the next frame.
LEMMA FlingStartsStep == Scroll!ScrollAssumption /\ ScrollInv /\ Scroll!FlingStarts => ScrollInv'
<1> SUFFICES ASSUME Scroll!ScrollAssumption, ScrollInv, Scroll!FlingStarts PROVE ScrollInv'
  OBVIOUS
<1> DEFINE tick == [Head(running) EXCEPT !.started = TRUE]
<1>1. /\ UNCHANGED <<raw, offset, content, viewport, panAxis, animating, dragged, cut>>
      /\ inCallback = Scroll!None /\ inCallback' = Scroll!None /\ touching' = touching
      /\ animations' = Append(animations, tick)
      /\ running # << >> /\ running' = Tail(running)
      /\ Head(running).view = "fling"
  BY DEF Scroll!FlingStarts, Scroll!Ticking, Scroll!Now, Scroll!view
<1>2. /\ animations \in Seq(Scroll!Ticks) /\ running \in Seq(Scroll!Ticks)
      /\ touching \in 0 .. MaxTouches
  BY DEF ScrollInv, Types
<1>3. dragged = TRUE => touching >= 1
  BY DEF ScrollInv, DragIsAlone
<1>4. /\ Tail(running) \in Seq(Scroll!Ticks) /\ Head(running) \in Scroll!Ticks
      /\ AimInRange(running) => AimInRange(Tail(running))
  BY <1>1, <1>2, AimOfTail
<1>5. tick \in Scroll!Ticks /\ tick.view # "spring"
  BY <1>1, <1>4, Zenon DEF Scroll!Ticks
<1> HIDE DEF tick
<1>6. /\ Append(animations, tick) \in Seq(Scroll!Ticks)
      /\ AimInRange(animations) => AimInRange(Append(animations, tick))
  BY <1>2, <1>5, AimOfAppend
<1> QED
  BY <1>1, <1>2, <1>3, <1>4, <1>6, StillStep DEF ScrollInv, SpringsAim

(***************************************************************************)
(* Fingers.                                                                *)
(***************************************************************************)

LEMMA DownStep == Scroll!ScrollAssumption /\ ScrollInv /\ Scroll!Down => ScrollInv'
<1> SUFFICES ASSUME Scroll!ScrollAssumption, ScrollInv, Scroll!Down PROVE ScrollInv'
  OBVIOUS
<1>b. animating \in BOOLEAN /\ dragged \in BOOLEAN /\ cut \in BOOLEAN
  BY DEF ScrollInv, Types
<1>1. /\ UNCHANGED <<offset, content, viewport, dragged, animations, running, inCallback>>
      /\ touching' = touching + 1 /\ touching < MaxTouches
      /\ animating' = FALSE
      /\ inCallback = Scroll!None
  BY DEF Scroll!Down, Scroll!BetweenTicks
<1>2. /\ dragged = TRUE => raw' = raw /\ panAxis' = panAxis
      /\ dragged = FALSE => raw' = offset /\ panAxis' = Scroll!None
  BY <1>b DEF Scroll!Down
<1>3. cut' \in BOOLEAN
      /\ (cut' = FALSE => cut = FALSE /\ (animating = FALSE \/ dragged = TRUE))
  BY <1>b, Zenon DEF Scroll!Down
<1>4. (animating \in BOOLEAN /\ dragged \in BOOLEAN /\ cut \in BOOLEAN)'
  BY <1>b, <1>1, <1>3, Zenon
<1>5. (offset \in [Axis -> Int]
       /\ content \in Contents /\ viewport \in Viewports
       /\ inCallback \in {"fling", "arrived", Scroll!None}
       /\ touching \in 0 .. MaxTouches
       /\ animations \in Seq(Scroll!Ticks) /\ running \in Seq(Scroll!Ticks))'
  BY <1>1 DEF ScrollInv, Types, Scroll!ScrollAssumption
<1>6. Types'
  <2>1. (raw \in [Axis -> Int] /\ panAxis \in Axis \cup {Scroll!None})'
    <3>1. CASE dragged = TRUE
      BY <1>2, <3>1 DEF ScrollInv, Types
    <3>2. CASE dragged = FALSE
      BY <1>2, <3>2 DEF ScrollInv, Types
    <3> QED
      BY <1>b, <3>1, <3>2
  <2> QED
    BY <1>4, <1>5, <2>1 DEF Types
<1>7. DragIsAlone'
  BY <1>1 DEF ScrollInv, Types, DragIsAlone, Scroll!ScrollAssumption
<1>8. CallbackIsRunning' /\ SpringsAim'
  BY <1>1 DEF CallbackIsRunning, SpringsAim, Scroll!None
<1>9. Scroll!Within(raw)' = Scroll!Within(raw') /\ Scroll!Within(offset)' = Scroll!Within(offset)
  BY <1>1 DEF Scroll!Within, Scroll!maxOffset
<1>10. AgreeInRange'
  BY <1>1, <1>2, <1>b, <1>9
  DEF ScrollInv, AgreeInRange, Scroll!None, Scroll!Within, Scroll!maxOffset
<1>11. StoppedInRange'
  BY <1>1, <1>3, <1>9 DEF ScrollInv, StoppedInRange, Scroll!None
<1> QED
  BY <1>6, <1>7, <1>8, <1>10, <1>11 DEF ScrollInv

\* A drag takes raw and offset with it; both ways to begin and to go on.
LEMMA DragStep ==
  ASSUME Scroll!ScrollAssumption, ScrollInv, NEW p \in [Axis -> Int],
         raw' = p, offset' = Scroll!DampedOffset(p),
         dragged' = TRUE, animating' = FALSE, cut' \in BOOLEAN,
         panAxis' \in Axis \cup {Scroll!None}, touching >= 1, inCallback = Scroll!None,
         UNCHANGED <<content, viewport, touching, animations, running, inCallback>>
  PROVE  ScrollInv'
<1>1. Scroll!maxOffset \in [Axis -> Nat]
  BY Ranges DEF ScrollInv
<1>2. offset' \in [Axis -> Int] /\ (Scroll!Within(p) => offset' = p)
  BY <1>1, DampedInRange
<1>3. (animating \in BOOLEAN /\ dragged \in BOOLEAN /\ cut \in BOOLEAN)'
  BY Zenon
<1>4. (raw \in [Axis -> Int] /\ offset \in [Axis -> Int]
       /\ content \in Contents /\ viewport \in Viewports
       /\ panAxis \in Axis \cup {Scroll!None} /\ inCallback \in {"fling", "arrived", Scroll!None}
       /\ touching \in 0 .. MaxTouches
       /\ animations \in Seq(Scroll!Ticks) /\ running \in Seq(Scroll!Ticks))'
  BY <1>2 DEF ScrollInv, Types
<1>5. Types'
  BY <1>3, <1>4 DEF Types
<1>6. DragIsAlone' /\ CallbackIsRunning' /\ SpringsAim' /\ StoppedInRange'
  BY DEF DragIsAlone, CallbackIsRunning, SpringsAim, StoppedInRange, Scroll!None
<1>7. AgreeInRange'
  BY <1>2 DEF AgreeInRange, Scroll!Within, Scroll!maxOffset
<1> QED
  BY <1>5, <1>6, <1>7 DEF ScrollInv

LEMMA MovedIsInt ==
  ASSUME Scroll!ScrollAssumption, NEW p \in [Axis -> Int], NEW d \in Scroll!Moves, NEW axis
  PROVE  Scroll!Minus(p, Scroll!Along(axis, d)) \in [Axis -> Int]
BY DEF Scroll!ScrollAssumption, Scroll!Moves, Scroll!Minus, Scroll!Along

LEMMA LockedIsAxis ==
  ASSUME panAxis \in Axis \cup {Scroll!None}, NEW d
  PROVE  Scroll!LockedAxis(d) \in Axis \cup {Scroll!None}
<1> DEFINE can == {a \in Axis : Scroll!maxOffset[a] > 0}
           main == {a \in can : \A b \in can \ {a} :
                 \/ Scroll!Distance(d, a) > Scroll!Distance(d, b)
                 \/ a = "y" /\ Scroll!Distance(d, a) = Scroll!Distance(d, b)}
<1>1. Scroll!LockedAxis(d) = IF main = {} THEN panAxis ELSE CHOOSE a \in main : TRUE
  BY DEF Scroll!LockedAxis
<1>2. main \subseteq Axis
  OBVIOUS
<1> HIDE DEF main
<1>3. CASE main = {}
  BY <1>1, <1>3
<1>4. CASE main # {}
  <2>1. PICK a : a \in main
    BY <1>4
  <2>2. (CHOOSE b \in main : TRUE) \in main
    BY <2>1
  <2> QED
    BY <1>1, <1>2, <1>4, <2>2
<1> QED
  BY <1>3, <1>4

LEMMA PanBeginStep ==
  ASSUME Scroll!ScrollAssumption, ScrollInv, NEW d \in Scroll!Moves, Scroll!PanBegin(d)
  PROVE  ScrollInv'
<1> DEFINE p == Scroll!Minus(offset, Scroll!Along(Scroll!LockedAxis(d), d))
<1>1. offset \in [Axis -> Int] /\ panAxis \in Axis \cup {Scroll!None} /\ touching \in Nat
  BY DEF ScrollInv, Types, Scroll!ScrollAssumption
<1>2. p \in [Axis -> Int] /\ Scroll!LockedAxis(d) \in Axis \cup {Scroll!None}
  BY <1>1, MovedIsInt, LockedIsAxis
<1>3. /\ raw' = p /\ offset' = Scroll!DampedOffset(raw')
      /\ dragged' = TRUE /\ animating' = FALSE /\ cut' = FALSE
      /\ panAxis' = Scroll!LockedAxis(d) /\ touching > 0 /\ inCallback = Scroll!None
      /\ UNCHANGED <<content, viewport, touching, animations, running, inCallback>>
  BY DEF Scroll!PanBegin, Scroll!BetweenTicks
<1> HIDE DEF p
<1>4. touching >= 1
  BY <1>1, <1>3
<1>5. cut' \in BOOLEAN
  BY <1>3, Zenon
<1> QED
  BY <1>2, <1>3, <1>4, <1>5, DragStep

LEMMA PanUpdateStep ==
  ASSUME Scroll!ScrollAssumption, ScrollInv, NEW d \in Scroll!Moves, Scroll!PanUpdate(d)
  PROVE  ScrollInv'
<1> DEFINE p == Scroll!Minus(raw, Scroll!Along(panAxis, d))
<1>1. raw \in [Axis -> Int] /\ panAxis \in Axis \cup {Scroll!None}
  BY DEF ScrollInv, Types
<1>2. p \in [Axis -> Int]
  BY <1>1, MovedIsInt
<1>b. animating \in BOOLEAN /\ dragged \in BOOLEAN /\ cut \in BOOLEAN
  BY DEF ScrollInv, Types
<1>3. /\ raw' = p /\ offset' = Scroll!DampedOffset(raw') /\ panAxis' = panAxis
      /\ UNCHANGED <<content, viewport, touching, animations, running, inCallback>>
      /\ inCallback = Scroll!None
  BY DEF Scroll!PanUpdate, Scroll!BetweenTicks
<1>4. dragged = TRUE /\ dragged' = dragged /\ animating' = animating /\ cut' = cut
  BY <1>b, Zenon DEF Scroll!PanUpdate
<1>5. touching >= 1 /\ animating' = FALSE /\ dragged' = TRUE /\ cut' \in BOOLEAN
  BY <1>b, <1>4 DEF ScrollInv, DragIsAlone
<1> HIDE DEF p
<1> QED
  BY <1>1, <1>2, <1>3, <1>5, DragStep

\* The end of a drag that goes on as an animation.
LEMMA GoesOnByItself ==
  ASSUME Scroll!ScrollAssumption, ScrollInv,
         NEW tick \in Scroll!Ticks, tick.view = "spring" => Scroll!Within(tick.to),
         animations' = Append(animations, tick), animating' = TRUE,
         raw' \in [Axis -> Int], dragged' = FALSE, panAxis' = Scroll!None,
         touching >= 1, touching' = touching - 1,
         running = << >>, inCallback = Scroll!None,
         cut' \in BOOLEAN, cut' = FALSE => animations = << >>,
         UNCHANGED <<offset, content, viewport, running, inCallback>>
  PROVE  ScrollInv'
<1>1. (animating \in BOOLEAN /\ dragged \in BOOLEAN /\ cut \in BOOLEAN)'
  BY Zenon
<1>2. animations \in Seq(Scroll!Ticks)
  BY DEF ScrollInv, Types
<1>3. /\ animations' \in Seq(Scroll!Ticks)
      /\ AimInRange(animations) => AimInRange(animations')
  BY <1>2, AimOfAppend
<1>4. (raw \in [Axis -> Int] /\ offset \in [Axis -> Int]
       /\ content \in Contents /\ viewport \in Viewports
       /\ panAxis \in Axis \cup {Scroll!None} /\ inCallback \in {"fling", "arrived", Scroll!None}
       /\ touching \in 0 .. MaxTouches
       /\ animations \in Seq(Scroll!Ticks) /\ running \in Seq(Scroll!Ticks))'
  BY <1>3 DEF ScrollInv, Types, Scroll!ScrollAssumption
<1>5. Types'
  BY <1>1, <1>4 DEF Types
<1>6. DragIsAlone' /\ CallbackIsRunning' /\ AgreeInRange' /\ StoppedInRange'
  BY DEF DragIsAlone, CallbackIsRunning, AgreeInRange, StoppedInRange, Scroll!None
<1>7. SpringsAim'
  <2>1. cut' = FALSE => AimInRange(animations') /\ AimInRange(running')
    BY <1>3, NoTicksAim
  <2> QED
    BY <2>1 DEF SpringsAim, AimInRange, Scroll!Within, Scroll!maxOffset
<1> QED
  BY <1>5, <1>6, <1>7 DEF ScrollInv

LEMMA PanEndStep ==
  ASSUME Scroll!ScrollAssumption, ScrollInv, NEW cancelled \in BOOLEAN, NEW v \in Scroll!Velocity,
         Scroll!PanEnd(cancelled, v)
  PROVE  ScrollInv'
<1>b. animating \in BOOLEAN /\ dragged \in BOOLEAN /\ cut \in BOOLEAN
  BY DEF ScrollInv, Types
<1>1. /\ UNCHANGED <<offset, content, viewport, running, inCallback>>
      /\ running = << >> /\ inCallback = Scroll!None
      /\ dragged' = FALSE /\ panAxis' = Scroll!None /\ touching' = touching - 1
  BY DEF Scroll!PanEnd, Scroll!BetweenTicks
<1>2. dragged = TRUE
  BY <1>b, Zenon DEF Scroll!PanEnd
<1>3. touching >= 1 /\ animating = FALSE /\ (Scroll!Within(raw) => offset = raw)
  BY <1>2 DEF ScrollInv, DragIsAlone, AgreeInRange
<1>4. raw \in [Axis -> Int] /\ offset \in [Axis -> Int] /\ Scroll!maxOffset \in [Axis -> Nat]
  BY Ranges DEF ScrollInv, Types
<1>5. ASSUME animating' = TRUE
      PROVE  cut' \in BOOLEAN /\ (cut' = FALSE => animations = << >>)
  BY <1>5, Zenon DEF Scroll!PanEnd
<1>6. CASE Scroll!RawOverscrolled(raw)
  <2> DEFINE tick == Scroll!Spring(offset, raw)
  <2>1. /\ animations' = Append(animations, tick) /\ animating' = TRUE
        /\ raw' = Scroll!Clamped(raw, Scroll!maxOffset)
    BY <1>6 DEF Scroll!PanEnd, Scroll!StartAnimation
  <2>2. /\ Scroll!Clamped(raw, Scroll!maxOffset) \in [Axis -> Int]
        /\ Scroll!Within(Scroll!Clamped(raw, Scroll!maxOffset))
    BY <1>4, ClampedIsInRange DEF Scroll!Within
  <2>3. tick \in Scroll!Ticks /\ tick.to = Scroll!Clamped(raw, Scroll!maxOffset)
    BY <1>4, <2>2 DEF Scroll!Spring, Scroll!Ticks
  <2> HIDE DEF tick
  <2> QED
    BY <1>1, <1>3, <1>5, <2>1, <2>2, <2>3, GoesOnByItself
<1>7. CASE ~Scroll!RawOverscrolled(raw) /\ ~cancelled /\ Scroll!Along(panAxis, v) # Scroll!Zero
  <2> DEFINE tick == Scroll!Fling(Scroll!Along(panAxis, v))
  <2>1. animations' = Append(animations, tick) /\ animating' = TRUE /\ raw' = raw
    BY <1>7 DEF Scroll!PanEnd, Scroll!StartAnimation
  <2>2. Scroll!Along(panAxis, v) \in Scroll!Velocity
    BY DEF Scroll!Along, Scroll!Velocity, Scroll!ScrollAssumption
  <2>3. tick \in Scroll!Ticks /\ tick.view # "spring"
    BY <2>2, Zenon DEF Scroll!Fling, Scroll!Ticks
  <2> HIDE DEF tick
  <2> QED
    BY <1>1, <1>3, <1>4, <1>5, <2>1, <2>3, GoesOnByItself
<1>8. CASE ~Scroll!RawOverscrolled(raw) /\ (cancelled \/ Scroll!Along(panAxis, v) = Scroll!Zero)
  <2>1. animations' = animations /\ animating' = animating /\ raw' = raw
    BY <1>8 DEF Scroll!PanEnd
  <2>2. cut' = FALSE
    BY <1>3, <2>1, Zenon DEF Scroll!PanEnd
  <2>3. Scroll!Within(raw) /\ offset = raw
    BY <1>3, <1>8 DEF Scroll!RawOverscrolled
  <2>4. (animating \in BOOLEAN /\ dragged \in BOOLEAN /\ cut \in BOOLEAN)'
    BY <1>b, <1>1, <2>1, <2>2, Zenon
  <2>5. (raw \in [Axis -> Int] /\ offset \in [Axis -> Int]
         /\ content \in Contents /\ viewport \in Viewports
         /\ panAxis \in Axis \cup {Scroll!None} /\ inCallback \in {"fling", "arrived", Scroll!None}
         /\ touching \in 0 .. MaxTouches
         /\ animations \in Seq(Scroll!Ticks) /\ running \in Seq(Scroll!Ticks))'
    BY <1>1, <1>3, <2>1 DEF ScrollInv, Types, Scroll!ScrollAssumption
  <2>6. Types'
    BY <2>4, <2>5 DEF Types
  <2>7. DragIsAlone' /\ CallbackIsRunning' /\ AgreeInRange' /\ SpringsAim'
    BY <1>1, <1>3, <2>1 DEF DragIsAlone, CallbackIsRunning, AgreeInRange, SpringsAim, Scroll!None
  <2>8. StoppedInRange'
    BY <1>1, <2>1, <2>3 DEF StoppedInRange, Scroll!Within, Scroll!maxOffset, Scroll!None
  <2> QED
    BY <2>6, <2>7, <2>8 DEF ScrollInv
<1> QED
  BY <1>6, <1>7, <1>8

(***************************************************************************)
(* Ticks.                                                                  *)
(***************************************************************************)

\* A tick that changes only the position it shows, or what raw is, in or at the
\* end of its callback.
LEMMA TickedStep ==
  ASSUME Scroll!ScrollAssumption, ScrollInv, dragged = FALSE,
         raw' \in [Axis -> Int], offset' \in [Axis -> Int],
         animations' \in Seq(Scroll!Ticks), running' \in Seq(Scroll!Ticks),
         animating' \in BOOLEAN, inCallback' \in {"fling", "arrived", Scroll!None},
         UNCHANGED <<content, viewport, panAxis, touching, dragged, cut>>,
         inCallback' # Scroll!None => running' # << >>,
         inCallback' = "fling" =>
           /\ Head(running').view = "fling" /\ animating' = TRUE
           /\ Scroll!Within(raw') => offset' = raw',
         inCallback' = "arrived" /\ cut = FALSE => Scroll!Within(offset'),
         animating' = FALSE /\ cut = FALSE => Scroll!Within(offset'),
         animating' = TRUE /\ cut = FALSE => AimInRange(animations') /\ AimInRange(running')
  PROVE  ScrollInv'
<1>1. (animating \in BOOLEAN /\ dragged \in BOOLEAN /\ cut \in BOOLEAN)'
  BY Zenon DEF ScrollInv, Types
<1>2. Types'
  BY <1>1 DEF ScrollInv, Types
<1>3. DragIsAlone' /\ CallbackIsRunning'
  BY DEF DragIsAlone, CallbackIsRunning
<1>4. AgreeInRange'
  BY DEF AgreeInRange, Scroll!Within, Scroll!maxOffset
<1>5. SpringsAim'
  BY DEF SpringsAim, AimInRange, Scroll!Within, Scroll!maxOffset
<1>6. StoppedInRange'
  BY DEF StoppedInRange, Scroll!Within, Scroll!maxOffset, Scroll!None
<1> QED
  BY <1>2, <1>3, <1>4, <1>5, <1>6 DEF ScrollInv

LEMMA TickSpringStep == Scroll!ScrollAssumption /\ ScrollInv /\ Scroll!TickSpring => ScrollInv'
<1> SUFFICES ASSUME Scroll!ScrollAssumption, ScrollInv, Scroll!TickSpring PROVE ScrollInv'
  OBVIOUS
<1> DEFINE now == Head(running)
           later == [now EXCEPT !.age = @ + 1]
<1>b. animating \in BOOLEAN /\ dragged \in BOOLEAN /\ cut \in BOOLEAN
  BY DEF ScrollInv, Types
<1>1. animating = TRUE /\ animating' = TRUE /\ dragged = FALSE
  <2>1. animating = TRUE /\ animating' = animating
    BY <1>b, Zenon DEF Scroll!TickSpring
  <2> QED
    BY <1>b, <2>1 DEF ScrollInv, DragIsAlone
<1>2. /\ running # << >> /\ now.view = "spring" /\ inCallback = Scroll!None
      /\ raw' = raw
      /\ UNCHANGED <<content, viewport, panAxis, touching, dragged, cut>>
  BY DEF Scroll!TickSpring, Scroll!Ticking
<1>3. /\ raw \in [Axis -> Int] /\ offset \in [Axis -> Int]
      /\ animations \in Seq(Scroll!Ticks) /\ running \in Seq(Scroll!Ticks)
  BY DEF ScrollInv, Types
<1>4. /\ Tail(running) \in Seq(Scroll!Ticks) /\ now \in Scroll!Ticks
      /\ AimInRange(running) => AimInRange(Tail(running)) /\ Scroll!Within(now.to)
  BY <1>2, <1>3, AimOfTail
<1>5. now \in [view : {"spring"}, from : [Axis -> Int], to : [Axis -> Int], age : 0 .. 2]
  BY <1>2, <1>4 DEF Scroll!Ticks
<1>6. offset' = [a \in Axis |->
        now.from[a] + ((now.to[a] - now.from[a]) * Scroll!Eased(now.age)) \div 8]
  BY DEF Scroll!TickSpring, Scroll!Now
<1>7. now.age \in 0 .. 2 /\ Scroll!Eased(now.age) \in Int
  BY <1>5 DEF Scroll!Eased
<1>8. offset' \in [Axis -> Int]
  <2> DEFINE far(a) == (now.to[a] - now.from[a]) * Scroll!Eased(now.age)
  <2>1. \A a \in Axis : now.from[a] \in Int /\ far(a) \in Int
    BY <1>5, <1>7
  <2> HIDE DEF far
  <2>2. \A a \in Axis : far(a) \div 8 \in Int
    <3>1. \A n \in Int : n \div 8 \in Int
      OBVIOUS
    <3> QED
      BY <2>1, <3>1, Zenon
  <2>3. offset' = [a \in Axis |-> now.from[a] + far(a) \div 8]
    BY <1>6 DEF far
  <2> QED
    BY <2>1, <2>2, <2>3
<1>9. CASE now.age = 2
  <2>1. inCallback' = "arrived" /\ animations' = animations /\ running' = running
    BY <1>9 DEF Scroll!TickSpring, Scroll!Now
  <2>2. Scroll!Eased(now.age) = 8
    BY <1>9 DEF Scroll!Eased
  <2>3. offset' = now.to
    <3>1. \A a \in Axis : now.from[a] \in Int /\ now.to[a] \in Int
      BY <1>5
    <3>2. \A m, n \in Int : m + ((n - m) * 8) \div 8 = n
      OBVIOUS
    <3>3. \A a \in Axis : now.from[a] + ((now.to[a] - now.from[a]) * 8) \div 8 = now.to[a]
      BY <3>1, <3>2
    <3>4. now.to \in [Axis -> Int]
      BY <1>5
    <3> QED
      BY <1>6, <2>2, <3>3, <3>4
  <2>4. cut = FALSE => Scroll!Within(offset') /\ AimInRange(animations) /\ AimInRange(running)
    BY <1>1, <1>4, <2>3 DEF ScrollInv, SpringsAim
  <2>5. animating' \in BOOLEAN /\ animating' # FALSE
    BY <1>1, Zenon
  <2> HIDE DEF now
  <2> QED
    BY <1>1, <1>2, <1>3, <1>8, <2>1, <2>4, <2>5, TickedStep DEF Scroll!None
<1>10. CASE now.age # 2
  <2>1. /\ inCallback' = Scroll!None
        /\ animations' = Append(animations, later) /\ running' = Tail(running)
    BY <1>2, <1>10 DEF Scroll!TickSpring, Scroll!Now
  <2>2. later \in Scroll!Ticks /\ later.to = now.to /\ later.view = "spring"
    <3>1. now.age + 1 \in 0 .. 2
      BY <1>7, <1>10
    <3>2. /\ later \in [view : {"spring"}, from : [Axis -> Int], to : [Axis -> Int], age : 0 .. 2]
          /\ later.to = now.to /\ later.view = "spring"
      BY <1>5, <3>1
    <3> QED
      BY <3>2 DEF Scroll!Ticks
  <2> HIDE DEF now, later
  <2>3. /\ animations' \in Seq(Scroll!Ticks)
        /\ AimInRange(animations) /\ Scroll!Within(now.to) => AimInRange(animations')
    BY <1>3, <2>1, <2>2, AimOfAppend
  <2>4. cut = FALSE => AimInRange(animations') /\ AimInRange(running')
    BY <1>1, <1>4, <2>1, <2>3 DEF ScrollInv, SpringsAim, now
  <2>5. animating' \in BOOLEAN /\ animating' # FALSE
    BY <1>1, Zenon
  <2>6. inCallback' # "fling" /\ inCallback' # "arrived"
    BY <2>1 DEF Scroll!None
  <2> QED
    BY <1>1, <1>2, <1>3, <1>4, <1>8, <2>1, <2>3, <2>4, <2>5, <2>6, TickedStep
<1> QED
  BY <1>9, <1>10

\* What a callback under way says of the view.
LEMMA InACallback ==
  ASSUME Scroll!ScrollAssumption, ScrollInv, inCallback # Scroll!None
  PROVE  /\ dragged = FALSE /\ running # << >>
         /\ animations \in Seq(Scroll!Ticks) /\ running \in Seq(Scroll!Ticks)
         /\ Tail(running) \in Seq(Scroll!Ticks)
         /\ Head(running) \in Scroll!Ticks
         /\ AimInRange(running) => AimInRange(Tail(running))
         /\ raw \in [Axis -> Int] /\ offset \in [Axis -> Int]
<1>1. animations \in Seq(Scroll!Ticks) /\ running \in Seq(Scroll!Ticks) /\ dragged \in BOOLEAN
  BY DEF ScrollInv, Types
<1>2. dragged = FALSE /\ running # << >>
  BY <1>1 DEF ScrollInv, DragIsAlone, CallbackIsRunning
<1> QED
  BY <1>1, <1>2, AimOfTail DEF ScrollInv, Types

LEMMA ArrivedStep == Scroll!ScrollAssumption /\ ScrollInv /\ Scroll!Arrived => ScrollInv'
<1> SUFFICES ASSUME Scroll!ScrollAssumption, ScrollInv, Scroll!Arrived PROVE ScrollInv'
  OBVIOUS
<1>1. /\ inCallback = "arrived" /\ inCallback' = Scroll!None /\ animating' = FALSE
      /\ running' = Tail(running) /\ animations' = animations /\ raw' = raw /\ offset' = offset
      /\ UNCHANGED <<content, viewport, panAxis, touching, dragged, cut>>
  BY DEF Scroll!Arrived
<1>2. inCallback # Scroll!None
  BY <1>1 DEF Scroll!None
<1>3. cut = FALSE => Scroll!Within(offset)
  BY <1>1 DEF ScrollInv, StoppedInRange
<1>4. animating' \in BOOLEAN /\ animating' # TRUE
  BY <1>1, Zenon
<1>5. inCallback' # "fling" /\ inCallback' # "arrived"
  BY <1>1 DEF Scroll!None
<1> QED
  BY <1>1, <1>2, <1>3, <1>4, <1>5, InACallback, TickedStep

LEMMA FlingMovesStep == Scroll!ScrollAssumption /\ ScrollInv /\ Scroll!FlingMoves => ScrollInv'
<1> SUFFICES ASSUME Scroll!ScrollAssumption, ScrollInv, Scroll!FlingMoves PROVE ScrollInv'
  OBVIOUS
<1>b. animating \in BOOLEAN /\ dragged \in BOOLEAN /\ cut \in BOOLEAN
  BY DEF ScrollInv, Types
<1>1. animating = TRUE /\ animating' = TRUE /\ dragged = FALSE
  <2>1. animating = TRUE /\ animating' = animating
    BY <1>b, Zenon DEF Scroll!FlingMoves
  <2> QED
    BY <1>b, <2>1 DEF ScrollInv, DragIsAlone
<1>2. /\ running # << >> /\ Head(running).view = "fling"
      /\ raw' = [a \in Axis |-> raw[a] + Head(running).velocity[a]]
      /\ offset' = Scroll!DampedOffset(raw')
      /\ inCallback' = "fling" /\ animations' = animations /\ running' = running
      /\ UNCHANGED <<content, viewport, panAxis, touching, dragged, cut>>
  BY DEF Scroll!FlingMoves, Scroll!Ticking, Scroll!Now
<1>3. /\ raw \in [Axis -> Int] /\ animations \in Seq(Scroll!Ticks) /\ running \in Seq(Scroll!Ticks)
  BY DEF ScrollInv, Types
<1>4. Head(running) \in Scroll!Ticks
  BY <1>2, <1>3, AimOfTail
<1>5. Head(running).velocity \in Scroll!Velocity
  BY <1>2, <1>4 DEF Scroll!Ticks
<1>6. raw' \in [Axis -> Int]
  BY <1>2, <1>3, <1>5 DEF Scroll!Velocity, Scroll!ScrollAssumption
<1>7. Scroll!maxOffset \in [Axis -> Nat]
  BY Ranges DEF ScrollInv
<1>8. offset' \in [Axis -> Int] /\ (Scroll!Within(raw') => offset' = raw')
  BY <1>2, <1>6, <1>7, DampedInRange
<1>9. animating' \in BOOLEAN /\ animating' # FALSE
  BY <1>1, Zenon
<1>10. inCallback' # "arrived" /\ (cut = FALSE => AimInRange(animations) /\ AimInRange(running))
  BY <1>1, <1>2 DEF ScrollInv, SpringsAim
<1> QED
  BY <1>1, <1>2, <1>3, <1>6, <1>8, <1>9, <1>10, TickedStep

LEMMA DecayIsVelocity ==
  ASSUME Scroll!ScrollAssumption, NEW v \in Scroll!Velocity
  PROVE  Scroll!DecayVelocity(v) \in Scroll!Velocity
<1>1. \A a \in Axis :
        (IF v[a] > 0 THEN v[a] - 1 ELSE Scroll!Least(0, v[a] + 1)) \in -Speed .. Speed
  BY DEF Scroll!Velocity, Scroll!Least, Scroll!ScrollAssumption
<1> QED
  BY <1>1 DEF Scroll!DecayVelocity, Scroll!Velocity

\* After onScroll: what a snap in the callback left is in range; a fling that
\* goes on does so in range, or turns into a spring that aims there.
LEMMA FlingGoesOnStep == Scroll!ScrollAssumption /\ ScrollInv /\ Scroll!FlingGoesOn => ScrollInv'
<1> SUFFICES ASSUME Scroll!ScrollAssumption, ScrollInv, Scroll!FlingGoesOn PROVE ScrollInv'
  OBVIOUS
<1> DEFINE slower == Scroll!DecayVelocity(Head(running).velocity)
<1>b. animating \in BOOLEAN /\ dragged \in BOOLEAN /\ cut \in BOOLEAN
  BY DEF ScrollInv, Types
<1>1. /\ inCallback = "fling" /\ inCallback' = Scroll!None /\ running' = Tail(running)
      /\ offset' = offset
      /\ UNCHANGED <<content, viewport, panAxis, touching, dragged, cut>>
  BY DEF Scroll!FlingGoesOn
<1>2. /\ dragged = FALSE /\ running # << >>
      /\ animations \in Seq(Scroll!Ticks) /\ Tail(running) \in Seq(Scroll!Ticks)
      /\ Head(running) \in Scroll!Ticks
      /\ AimInRange(running) => AimInRange(Tail(running))
      /\ raw \in [Axis -> Int] /\ offset \in [Axis -> Int]
  BY <1>1, InACallback DEF Scroll!None
<1>3. /\ Head(running).view = "fling"
      /\ Scroll!Within(raw) => offset = raw
      /\ animating = FALSE => Scroll!Within(raw)
  BY <1>1 DEF ScrollInv, CallbackIsRunning, AgreeInRange, StoppedInRange
<1>4. Head(running) \in [view : {"fling"}, velocity : Scroll!Velocity, started : BOOLEAN]
  BY <1>2, <1>3, Zenon DEF Scroll!Ticks
<1>5. slower \in Scroll!Velocity
  BY <1>4, DecayIsVelocity
<1>6. inCallback' # "fling" /\ inCallback' # "arrived"
  BY <1>1 DEF Scroll!None
<1>7. animating = TRUE /\ cut = FALSE => AimInRange(animations) /\ AimInRange(Tail(running))
  BY <1>2 DEF ScrollInv, SpringsAim
<1>8. CASE Scroll!RawOverscrolled(raw)
  <2> DEFINE tick == Scroll!Spring(offset, raw)
  <2>1. /\ animations' = Append(animations, tick) /\ animating' = animating
        /\ raw' = Scroll!Clamped(raw, Scroll!maxOffset)
    BY <1>8 DEF Scroll!FlingGoesOn
  <2>2. Scroll!maxOffset \in [Axis -> Nat]
    BY Ranges DEF ScrollInv
  <2>3. raw' \in [Axis -> Int] /\ Scroll!Within(raw')
    BY <1>2, <2>1, <2>2, ClampedIsInRange DEF Scroll!Within
  <2>4. tick \in Scroll!Ticks /\ tick.to = raw'
    BY <1>2, <2>1, <2>3 DEF Scroll!Spring, Scroll!Ticks
  <2> HIDE DEF tick
  <2>5. /\ animations' \in Seq(Scroll!Ticks)
        /\ AimInRange(animations) => AimInRange(animations')
    BY <1>2, <2>1, <2>3, <2>4, AimOfAppend
  <2>6. animating # FALSE
    BY <1>3, <1>8 DEF Scroll!RawOverscrolled
  <2> QED
    BY <1>1, <1>2, <1>6, <1>7, <1>b, <2>1, <2>3, <2>5, <2>6, TickedStep
<1>9. CASE ~Scroll!RawOverscrolled(raw)
  <2>1. Scroll!Within(raw) /\ offset = raw /\ raw' = raw
    BY <1>3, <1>9 DEF Scroll!RawOverscrolled, Scroll!FlingGoesOn
  <2>2. CASE slower = Scroll!Zero
    <3>1. animating' = FALSE /\ animations' = animations
      BY <1>9, <2>2 DEF Scroll!FlingGoesOn, Scroll!Now
    <3>2. animating' \in BOOLEAN /\ animating' # TRUE
      BY <3>1, Zenon
    <3> QED
      BY <1>1, <1>2, <1>6, <2>1, <3>1, <3>2, TickedStep
  <2>3. CASE slower # Scroll!Zero
    <3> DEFINE tick == [Head(running) EXCEPT !.velocity = slower]
    <3>1. animating' = animating /\ animations' = Append(animations, tick)
      BY <1>9, <2>3 DEF Scroll!FlingGoesOn, Scroll!Now
    <3> HIDE DEF slower
    <3>2. tick \in [view : {"fling"}, velocity : Scroll!Velocity, started : BOOLEAN]
      BY <1>4, <1>5, Zenon
    <3>3. tick \in Scroll!Ticks /\ tick.view # "spring"
      BY <3>2, Zenon DEF Scroll!Ticks
    <3> HIDE DEF tick
    <3>4. /\ animations' \in Seq(Scroll!Ticks)
          /\ AimInRange(animations) => AimInRange(animations')
      BY <1>2, <3>1, <3>3, AimOfAppend
    <3> QED
      BY <1>1, <1>2, <1>6, <1>7, <1>b, <2>1, <3>1, <3>4, TickedStep
  <2> QED
    BY <2>2, <2>3
<1> QED
  BY <1>8, <1>9

(***************************************************************************)
(* The application, the layout and the screen reader.                      *)
(***************************************************************************)

\* snapOffset, and performLayout, which does the same.
LEMMA SnapStep ==
  ASSUME Scroll!ScrollAssumption, ScrollInv,
         content' \in Contents, viewport' \in Viewports, NEW p \in [Axis -> Int],
         animating' = FALSE, cut' = FALSE,
         raw' = Scroll!Clamped(p, Scroll!MaxOffset(content', viewport')), offset' = raw',
         UNCHANGED <<panAxis, touching, dragged, animations, running, inCallback>>
  PROVE  ScrollInv'
<1>1. (animating \in BOOLEAN /\ dragged \in BOOLEAN /\ cut \in BOOLEAN)'
  BY Zenon DEF ScrollInv, Types
<1>2. content' \in [Axis -> Nat] /\ viewport' \in [Axis -> Nat]
  BY DEF Scroll!ScrollAssumption
<1>3. Scroll!MaxOffset(content', viewport') \in [Axis -> Nat]
  BY <1>2, RangeIsNat
<1>4. /\ raw' \in [Axis -> Int]
      /\ raw' = Scroll!Clamped(raw', Scroll!MaxOffset(content', viewport'))
  BY <1>3, ClampedIsInRange
<1>5. (Scroll!Within(raw) /\ Scroll!Within(offset))'
  BY <1>4 DEF Scroll!Within, Scroll!maxOffset
<1>6. Types'
  BY <1>1, <1>4 DEF ScrollInv, Types
<1>7. DragIsAlone' /\ CallbackIsRunning' /\ AgreeInRange' /\ SpringsAim'
  BY DEF ScrollInv, DragIsAlone, CallbackIsRunning, AgreeInRange, SpringsAim
<1>8. StoppedInRange'
  BY <1>5 DEF StoppedInRange
<1> QED
  BY <1>6, <1>7, <1>8 DEF ScrollInv

LEMMA PerformSemanticsActionStep ==
  ASSUME Scroll!ScrollAssumption, ScrollInv, NEW direction \in {-1, 1},
         Scroll!PerformSemanticsAction(direction)
  PROVE  ScrollInv'
<1>1. PICK a \in Axis :
        LET target ==
              [offset EXCEPT ![a] = Scroll!Clamp(@ + direction * viewport[a], Scroll!maxOffset[a])]
        IN raw' = target /\ offset' = target
  BY DEF Scroll!PerformSemanticsAction
<1>2. /\ UNCHANGED <<content, viewport, panAxis, touching, animations, running, inCallback>>
      /\ inCallback = Scroll!None
      /\ animating' = animating /\ dragged' = dragged /\ cut' = cut
  BY DEF Scroll!PerformSemanticsAction, Scroll!BetweenTicks
<1>3. /\ offset \in [Axis -> Int] /\ Scroll!maxOffset \in [Axis -> Nat]
      /\ viewport \in [Axis -> Nat]
  BY Ranges DEF ScrollInv, Types
<1>4. offset[a] + direction * viewport[a] \in Int
  BY <1>3
<1> DEFINE to == Scroll!Clamp(offset[a] + direction * viewport[a], Scroll!maxOffset[a])
<1>5. to \in Int /\ Scroll!Clamp(to, Scroll!maxOffset[a]) = to
  BY <1>3, <1>4, ClampIsInRange
<1> HIDE DEF to
<1>6. raw' = [offset EXCEPT ![a] = to] /\ offset' = raw'
  BY <1>1 DEF to
<1>7. raw' \in [Axis -> Int] /\ (Scroll!Within(offset) => Scroll!Within(raw'))
  BY <1>3, <1>5, <1>6 DEF Scroll!Within, Scroll!Clamped
<1>8. (animating \in BOOLEAN /\ dragged \in BOOLEAN /\ cut \in BOOLEAN)'
  BY <1>2, Zenon DEF ScrollInv, Types
<1>9. Types'
  BY <1>2, <1>6, <1>7, <1>8 DEF ScrollInv, Types
<1>10. DragIsAlone' /\ CallbackIsRunning' /\ AgreeInRange'
  BY <1>2, <1>6 DEF ScrollInv, DragIsAlone, CallbackIsRunning, AgreeInRange
<1>11. SpringsAim'
  BY <1>2 DEF ScrollInv, SpringsAim, AimInRange, Scroll!Within, Scroll!maxOffset
<1>12. StoppedInRange'
  <2>1. Scroll!Within(offset)' = Scroll!Within(offset')
    BY <1>2 DEF Scroll!Within, Scroll!maxOffset
  <2> QED
    BY <1>2, <1>6, <1>7, <2>1 DEF ScrollInv, StoppedInRange, Scroll!None
<1> QED
  BY <1>9, <1>10, <1>11, <1>12 DEF ScrollInv

(***************************************************************************)
(* Every step.                                                             *)
(***************************************************************************)

LEMMA Steps == Scroll!ScrollAssumption /\ ScrollInv /\ [Scroll!Next]_(Scroll!vars) => ScrollInv'
<1> SUFFICES ASSUME Scroll!ScrollAssumption, ScrollInv, [Scroll!Next]_(Scroll!vars) PROVE ScrollInv'
  OBVIOUS
<1>t. /\ raw \in [Axis -> Int] /\ offset \in [Axis -> Int]
      /\ content \in Contents /\ viewport \in Viewports
  BY DEF ScrollInv, Types
<1>1. CASE Scroll!Down
  BY <1>1, DownStep
<1>2. CASE Scroll!DownOnChild
  BY <1>2, DownOnChildStep
<1>3. CASE Scroll!UpWithoutPan
  BY <1>3, UpWithoutPanStep
<1>4. ASSUME NEW d \in Scroll!Moves, Scroll!PanBegin(d) \/ Scroll!PanUpdate(d) PROVE ScrollInv'
  BY <1>4, PanBeginStep, PanUpdateStep
<1>5. ASSUME NEW cancelled \in BOOLEAN, NEW v \in Scroll!Velocity, Scroll!PanEnd(cancelled, v)
      PROVE  ScrollInv'
  BY <1>5, PanEndStep
<1>6. CASE Scroll!Tick
  BY <1>6, TickAnimationsStep, TickStoppedStep, TickSpringStep, ArrivedStep, FlingStartsStep,
     FlingMovesStep, FlingGoesOnStep DEF Scroll!Tick
<1>7. ASSUME NEW size \in Contents, Scroll!UpdateScrollView(size) PROVE ScrollInv'
  BY <1>7, <1>t, SnapStep DEF Scroll!UpdateScrollView, Scroll!SnapOffset
<1>8. ASSUME NEW position \in [Axis -> 0 .. 1], Scroll!SetScrollOffset(position) PROVE ScrollInv'
  <2>1. position \in [Axis -> Int]
    OBVIOUS
  <2> QED
    BY <1>8, <1>t, <2>1, SnapStep DEF Scroll!SetScrollOffset, Scroll!SnapOffset, Scroll!maxOffset
<1>9. ASSUME NEW size \in Viewports, Scroll!PerformLayout(size) PROVE ScrollInv'
  BY <1>9, <1>t, SnapStep DEF Scroll!PerformLayout
<1>10. ASSUME NEW direction \in {-1, 1}, Scroll!PerformSemanticsAction(direction) PROVE ScrollInv'
  BY <1>10, PerformSemanticsActionStep
<1>11. CASE UNCHANGED Scroll!vars
  BY <1>11 DEF Scroll!vars, Scroll!scrollVars, ScrollInv, Types, DragIsAlone, CallbackIsRunning,
     AgreeInRange,
               SpringsAim, StoppedInRange, AimInRange, Scroll!Within, Scroll!maxOffset
<1> QED
  BY <1>1, <1>2, <1>3, <1>4, <1>5, <1>6, <1>7, <1>8, <1>9, <1>10, <1>11 DEF Scroll!Next

\* The inductive invariant of a scrolling view.
THEOREM ScrollInvariant == Scroll!ScrollAssumption => (Scroll!Spec => []ScrollInv)
<1> SUFFICES ASSUME Scroll!ScrollAssumption PROVE Scroll!Spec => []ScrollInv
  OBVIOUS
<1> QED
  BY Initially, Steps, PTL DEF Scroll!Spec

\* However a view was dragged, flung, sprung back, resized, scrolled from its own
\* callback or by a screen reader: once no finger is on it and nothing moves it, it
\* shows its content and not the void beyond, but for the two cases cut names.
THEOREM ViewsRestInRange == Scroll!ScrollAssumption => (Scroll!Spec => []RestsInRange)
<1> SUFFICES ASSUME Scroll!ScrollAssumption PROVE Scroll!Spec => []RestsInRange
  OBVIOUS
<1>1. ScrollInv => RestsInRange
  <2> SUFFICES ASSUME ScrollInv, touching = 0, ~animating, inCallback = Scroll!None, ~cut
               PROVE  Scroll!Within(offset)
    BY DEF RestsInRange, AtRest, BetweenTicks, None, Within, Clamped, Clamp, Least, Greatest,
       maxOffset, MaxOffset, Scroll!None, Scroll!Within, Scroll!Clamped, Scroll!Clamp,
       Scroll!Least, Scroll!Greatest, Scroll!maxOffset, Scroll!MaxOffset
  <2>1. animating = FALSE /\ cut = FALSE /\ dragged \in BOOLEAN
    BY DEF ScrollInv, Types
  <2>2. dragged = FALSE
    BY <2>1 DEF ScrollInv, DragIsAlone
  <2> QED
    BY <2>1, <2>2 DEF ScrollInv, StoppedInRange
<1> QED
  BY <1>1, ScrollInvariant, PTL

\* No animation that still waits for a frame moves a view away from the finger
\* that drags it: a drag and a running animation never meet.
THEOREM DragsFollowTheFinger == Scroll!ScrollAssumption => (Scroll!Spec => FollowsTheFinger)
<1> SUFFICES ASSUME Scroll!ScrollAssumption PROVE Scroll!Spec => FollowsTheFinger
  OBVIOUS
<1>1. ScrollInv /\ [Scroll!Next]_(Scroll!vars) =>
        [dragged /\ running # << >> /\ inCallback = None
          => UNCHANGED <<raw, offset>>]_scrollVars
  <2> SUFFICES ASSUME ScrollInv, [Scroll!Next]_(Scroll!vars), dragged, running # << >>,
                      inCallback = Scroll!None
               PROVE  UNCHANGED <<raw, offset>>
    BY DEF None, Scroll!None
  <2>1. ~animating
    <3>1. animating \in BOOLEAN /\ dragged \in BOOLEAN
      BY DEF ScrollInv, Types
    <3>2. dragged = TRUE
      BY <3>1
    <3> QED
      BY <3>2 DEF ScrollInv, DragIsAlone
  <2>2. CASE UNCHANGED Scroll!vars
    BY <2>2 DEF Scroll!vars, Scroll!scrollVars
  <2>3. CASE Scroll!Next
    BY <2>1, <2>3 DEF Scroll!Next, Scroll!Tick, Scroll!Down, Scroll!DownOnChild,
       Scroll!UpWithoutPan, Scroll!PanBegin, Scroll!PanUpdate, Scroll!PanEnd,
       Scroll!TickAnimations, Scroll!TickStopped, Scroll!TickSpring, Scroll!Arrived,
       Scroll!FlingStarts, Scroll!FlingMoves, Scroll!FlingGoesOn,
       Scroll!UpdateScrollView, Scroll!SetScrollOffset, Scroll!PerformLayout,
       Scroll!PerformSemanticsAction,
       Scroll!BetweenTicks, Scroll!AppRuns, Scroll!None, Scroll!view
  <2> QED
    BY <2>2, <2>3
<1> QED
  BY <1>1, ScrollInvariant, PTL DEF FollowsTheFinger, Scroll!Spec

\* The variables keep their types: the age of a spring, the velocities and the axis
\* in particular.
THEOREM ScrollTypes == Scroll!ScrollAssumption => (Scroll!Spec => []Scroll!TypeOK)
<1> SUFFICES ASSUME Scroll!ScrollAssumption PROVE Scroll!Spec => []Scroll!TypeOK
  OBVIOUS
<1>1. ScrollInv => Scroll!TypeOK
  <2> SUFFICES ASSUME ScrollInv PROVE Scroll!TypeOK
    OBVIOUS
  <2>1. /\ \A i \in DOMAIN animations : animations[i] \in Scroll!Ticks
        /\ \A i \in DOMAIN running : running[i] \in Scroll!Ticks
    BY LenProperties DEF ScrollInv, Types
  <2> QED
    BY <2>1, Zenon DEF ScrollInv, Types, Scroll!TypeOK
<1> QED
  BY <1>1, ScrollInvariant, PTL

(***************************************************************************)
(* A button.  What PressedIsHeld leaves out: only a button that is in the  *)
(* tree and shown has fingers, and only one that answers is pressed, so    *)
(* that one that does not, which is told of none of them going, was not    *)
(* pressed before; and a press that a long press left behind has no finger *)
(* on it, so that the next one takes it over.                              *)
(***************************************************************************)

BInv ==
  /\ pressed \in BOOLEAN /\ enabled \in BOOLEAN /\ visible \in BOOLEAN /\ mounted \in BOOLEAN
  /\ longPress \in BOOLEAN /\ abandoned \in BOOLEAN
  /\ held # {} => mounted /\ visible
  /\ pressed => enabled
  /\ abandoned => longPress /\ held = {}
  /\ PressedIsHeld

LEMMA ButtonInitially == Button!Init => BInv
BY Zenon DEF Button!Init, BInv, PressedIsHeld

LEMMA ButtonSteps == BInv /\ [Button!Next]_(Button!vars) => BInv'
<1> SUFFICES ASSUME BInv, [Button!Next]_(Button!vars) PROVE BInv'
  OBVIOUS
<1> USE DEF BInv, PressedIsHeld, Hears, Button!Hears
<1>1. ASSUME NEW f \in Finger, Button!Down(f) PROVE BInv'
  <2>1. held' # {}
    BY <1>1 DEF Button!Down
  <2> QED
    BY <1>1, <2>1, Zenon DEF Button!Down
<1>2. ASSUME NEW f \in Finger, NEW inside \in BOOLEAN, Button!Move(f, inside) PROVE BInv'
  <2>1. CASE visible /\ enabled
    BY <1>2, <2>1, Zenon DEF Button!Move
  <2>2. CASE ~(visible /\ enabled)
    BY <1>2, <2>2, Zenon DEF Button!Move
  <2> QED
    BY <2>1, <2>2
<1>3. ASSUME NEW f \in Finger, NEW inside \in BOOLEAN, Button!Up(f, inside) PROVE BInv'
  <2>1. CASE visible /\ enabled
    BY <1>3, <2>1, Zenon DEF Button!Up
  <2>2. CASE ~(visible /\ enabled)
    BY <1>3, <2>2, Zenon DEF Button!Up
  <2> QED
    BY <2>1, <2>2
<1>4. ASSUME NEW fs \in SUBSET Finger, Button!Cancel(fs) PROVE BInv'
  <2>1. CASE visible /\ enabled
    BY <1>4, <2>1, Zenon DEF Button!Cancel, Button!AfterCancel
  <2>2. CASE ~(visible /\ enabled)
    BY <1>4, <2>2, Zenon DEF Button!Cancel, Button!AfterCancel
  <2> QED
    BY <2>1, <2>2
<1>5. ASSUME NEW on \in BOOLEAN, Button!UpdateButtonView(on) PROVE BInv'
  <2>1. held' # {} => held # {}
    BY <1>5 DEF Button!UpdateButtonView
  <2> QED
    BY <1>5, <2>1, Zenon DEF Button!UpdateButtonView
<1>6. ASSUME NEW on \in BOOLEAN, Button!SetVisible(on) PROVE BInv'
  <2>1. CASE on
    BY <1>6, <2>1, Zenon DEF Button!SetVisible
  <2>2. CASE ~on /\ held # {} /\ enabled
    BY <1>6, <2>2, Zenon DEF Button!SetVisible, Button!AfterCancel
  <2>3. CASE ~on /\ ~(held # {} /\ enabled)
    BY <1>6, <2>3, Zenon DEF Button!SetVisible, Button!AfterCancel
  <2> QED
    BY <2>1, <2>2, <2>3
<1>7. CASE Button!Unmount
  <2>1. CASE held # {} /\ visible /\ enabled
    BY <1>7, <2>1, Zenon DEF Button!Unmount, Button!AfterCancel
  <2>2. CASE ~(held # {} /\ visible /\ enabled)
    BY <1>7, <2>2, Zenon DEF Button!Unmount, Button!AfterCancel
  <2> QED
    BY <2>1, <2>2
<1>8. CASE Button!Mount
  BY <1>8, Zenon DEF Button!Mount
<1>9. CASE Button!SemanticsTap
  BY <1>9, Zenon DEF Button!SemanticsTap
<1>10. ASSUME NEW f \in Finger, Button!LongPress(f) PROVE BInv'
  <2>1. held # {} /\ ~abandoned
    BY <1>10 DEF Button!LongPress
  <2>2. CASE held' = {}
    BY <1>10, <2>1, <2>2, Zenon DEF Button!LongPress
  <2>3. CASE held' # {}
    BY <1>10, <2>1, <2>3, Zenon DEF Button!LongPress
  <2> QED
    BY <2>2, <2>3
<1>11. CASE UNCHANGED Button!vars
  BY <1>11, Zenon DEF Button!vars, Button!buttonVars, buttonVars
<1> QED
  BY <1>1, <1>2, <1>3, <1>4, <1>5, <1>6, <1>7, <1>8, <1>9, <1>10, <1>11, Zenon
  DEF Button!Next

\* A button shows as pressed only while it is shown, answers, is in the tree and a
\* finger is on it, whichever way the fingers went and whatever was done to it,
\* unless its own long press took the last finger and nothing came to it since.
THEOREM PressesAreHeld == Button!Spec => []PressedIsHeld
<1>1. BInv => PressedIsHeld
  BY DEF BInv
<1> QED
  BY <1>1, ButtonInitially, ButtonSteps, PTL DEF Button!Spec
=============================================================================
