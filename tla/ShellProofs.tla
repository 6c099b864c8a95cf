----------------------------- MODULE ShellProofs -----------------------------
(* Theorems about Shell, for all sizes of surfaces and safe areas and any    *)
(* number of fingers.                                                        *)
EXTENDS Shell, FiniteSetTheorems, WellFoundedInduction, TLAPS

(***************************************************************************)
(* What the engine is in by itself; what it knows of the system, mounted   *)
(* or not; and the fingers, some of which the shell has forgotten, some of *)
(* which the application was never told of.                                *)
(***************************************************************************)

Engine ==
  [compositor : Sizes \cup {0}, frameFunc : BOOLEAN, pending : BOOLEAN,
   appStarted : BOOLEAN, invoker : BOOLEAN, class : BOOLEAN,
   stored : BOOLEAN, handler : BOOLEAN, enabled : BOOLEAN,
   mounted : BOOLEAN, bounds : Place, viewport : Sizes \cup {0},
   safe : Areas \cup {NoArea}, tracked : SUBSET Ids]

WholeEngine(e) ==
  /\ e \in Engine
  /\ e.mounted <=> e.compositor # 0
  /\ e.frameFunc <=> e.mounted
  /\ e.appStarted <=> e.mounted
  /\ e.mounted => /\ e.stored /\ e.invoker /\ e.handler
                  /\ e.viewport = e.compositor /\ e.bounds = Wanted(e)

OnItsWay(e, place) == e.mounted /\ place # e.bounds => e.pending

EngineInv ==
  /\ WholeEngine(engine)
  /\ engine.compositor \in {0, surface}
  /\ OnItsWay(engine, shown)

KnowsTheSystem ==
  /\ (shell = "harmony" => mainWindow = "here" /\ loaded) => engine.safe = insets
  /\ engine.mounted /\ shell # "harmony" => listening /\ engine.enabled = reader
  /\ shell = "android" /\ engine.class => engine.invoker
  /\ shell = "ios" => engine.invoker /\ (visible => surface # 0)
  /\ shell = "harmony" /\ loaded => engine.stored /\ engine.invoker

Fingers ==
  /\ engine.tracked = {ids[f] : f \in told}
  /\ \A f, g \in Finger : ids[f] = ids[g] /\ ids[f] # 0 => f = g
  /\ \A f \in Finger : ids[f] # 0 => f \in touching
  /\ \A f \in told : ids[f] # 0
  /\ ~engine.mounted => told = {}

IInv == TypeOK /\ EngineInv /\ KnowsTheSystem /\ Fingers

-----------------------------------------------------------------------------
(* The engine by itself *)

LEMMA Sized ==
  ShellAssumption =>
    /\ Sizes \subseteq Nat /\ 0 \notin Sizes
    /\ \A a \in Areas \cup {NoArea} : a.before \in Nat /\ a.after \in Nat
    /\ Cardinality(Finger) \in Nat /\ Ids \subseteq Nat \ {0}
<1> SUFFICES ASSUME ShellAssumption
             PROVE  /\ Sizes \subseteq Nat /\ 0 \notin Sizes
                    /\ \A a \in Areas \cup {NoArea} : a.before \in Nat /\ a.after \in Nat
                    /\ Cardinality(Finger) \in Nat /\ Ids \subseteq Nat \ {0}
  OBVIOUS
<1>1. Cardinality(Finger) \in Nat
  BY FS_CardinalityType DEF ShellAssumption
<1>2. \A a \in Areas \cup {NoArea} : a.before \in Nat /\ a.after \in Nat
  BY DEF ShellAssumption, NoArea
<1> QED
  BY <1>1, <1>2 DEF ShellAssumption, Ids

LEMMA WantedIsAPlace ==
  ASSUME ShellAssumption, NEW e \in Engine
  PROVE  Wanted(e) \in Place
<1>1. e.viewport \in Nat /\ e.safe.before \in Nat /\ e.safe.after \in Nat
  BY Sized DEF Engine
<1> QED
  BY <1>1 DEF Wanted, Place

\* What a layout leaves alone.
OnlyPlaced(e, d) ==
  /\ d.compositor = e.compositor /\ d.frameFunc = e.frameFunc
  /\ d.appStarted = e.appStarted /\ d.invoker = e.invoker /\ d.class = e.class
  /\ d.stored = e.stored /\ d.handler = e.handler /\ d.enabled = e.enabled
  /\ d.mounted = e.mounted /\ d.viewport = e.viewport /\ d.safe = e.safe
  /\ d.tracked = e.tracked

\* A mounted application is placed where it is wanted, and a frame is asked for if it
\* was not there.
LEMMA LayoutPlaces ==
  ASSUME ShellAssumption, NEW e \in Engine
  PROVE  /\ ApplyLayout(e) \in Engine /\ OnlyPlaced(e, ApplyLayout(e))
         /\ e.mounted => ApplyLayout(e).bounds = Wanted(e)
         /\ ApplyLayout(e).bounds = e.bounds \/ ApplyLayout(e).pending
         /\ e.pending => ApplyLayout(e).pending
         /\ Wanted(ApplyLayout(e)) = Wanted(e)
<1> DEFINE d == [[e EXCEPT !.bounds = Wanted(e)] EXCEPT !.pending = TRUE]
<1>1. /\ d \in Engine /\ OnlyPlaced(e, d)
      /\ d.bounds = Wanted(e) /\ d.pending
  BY WantedIsAPlace DEF Engine, OnlyPlaced
<1>2. ApplyLayout(e) = IF ~e.mounted \/ e.bounds = Wanted(e) THEN e ELSE d
  BY DEF ApplyLayout, RequestRender
<1> HIDE DEF d
<1>3. OnlyPlaced(e, e)
  BY DEF OnlyPlaced
<1>4. ApplyLayout(e) \in Engine /\ OnlyPlaced(e, ApplyLayout(e))
  BY <1>1, <1>2, <1>3
<1>5. Wanted(ApplyLayout(e)) = Wanted(e)
  BY <1>4 DEF Wanted, OnlyPlaced
<1> QED
  BY <1>1, <1>2, <1>4, <1>5

\* A new size of a whole engine.
LEMMA ResizedIs ==
  ASSUME ShellAssumption, NEW e, WholeEngine(e), NEW size \in Sizes
  PROVE  /\ WholeEngine(Resized(e, size)) /\ Resized(e, size).pending
         /\ Resized(e, size).compositor = IF e.compositor = 0 THEN 0 ELSE size
         /\ Resized(e, size).safe = e.safe /\ Resized(e, size).enabled = e.enabled
         /\ Resized(e, size).class = e.class /\ Resized(e, size).invoker = e.invoker
         /\ Resized(e, size).stored = e.stored /\ Resized(e, size).tracked = e.tracked
         /\ Resized(e, size).mounted = e.mounted
<1> DEFINE a == [e EXCEPT !.viewport = size]
           b == ApplyLayout(a)
           c == [b EXCEPT !.compositor = IF @ = 0 THEN 0 ELSE size]
           d == [c EXCEPT !.pending = TRUE]
<1>0. e \in Engine /\ size \in Nat \ {0}
  BY Sized DEF WholeEngine
<1>1. a \in Engine /\ a.viewport = size /\ a.mounted = e.mounted /\ a.compositor = e.compositor
      /\ a.safe = e.safe /\ a.enabled = e.enabled /\ a.class = e.class /\ a.invoker = e.invoker
      /\ a.stored = e.stored /\ a.tracked = e.tracked /\ a.handler = e.handler
      /\ a.frameFunc = e.frameFunc /\ a.appStarted = e.appStarted
  BY <1>0 DEF Engine
<1> HIDE DEF a
<1>2. b \in Engine /\ OnlyPlaced(a, b) /\ (a.mounted => b.bounds = Wanted(a))
  BY <1>1, LayoutPlaces
<1> HIDE DEF b
<1>3. /\ d \in Engine /\ d.compositor = (IF b.compositor = 0 THEN 0 ELSE size) /\ d.pending
      /\ d.frameFunc = b.frameFunc /\ d.appStarted = b.appStarted /\ d.invoker = b.invoker
      /\ d.class = b.class /\ d.stored = b.stored /\ d.handler = b.handler
      /\ d.enabled = b.enabled /\ d.mounted = b.mounted /\ d.viewport = b.viewport
      /\ d.safe = b.safe /\ d.tracked = b.tracked /\ d.bounds = b.bounds
  BY <1>2 DEF Engine
<1>4. Resized(e, size) = d
  BY DEF Resized, SetViewportSize, RequestRender, a, b
<1> HIDE DEF c, d
<1>5. Wanted(d) = Wanted(a)
  BY <1>2, <1>3 DEF Wanted, OnlyPlaced
<1>6. WholeEngine(d)
  BY <1>0, <1>1, <1>2, <1>3, <1>5 DEF WholeEngine, OnlyPlaced
<1> QED
  BY <1>1, <1>2, <1>3, <1>4, <1>6 DEF OnlyPlaced

\* The end of an engine.
LEMMA DestroyedIs ==
  ASSUME ShellAssumption, NEW e \in Engine
  PROVE  /\ WholeEngine(Destroyed(e)) /\ Destroyed(e).compositor = 0 /\ ~Destroyed(e).mounted
         /\ Destroyed(e).tracked = {} /\ Destroyed(e).safe = e.safe
         /\ Destroyed(e).class = e.class /\ Destroyed(e).invoker = e.invoker
         /\ Destroyed(e).stored = e.stored
  BY ZenonT(60) DEF Destroyed, ShutdownApp, RequestRender, WholeEngine, Engine, Place

\* A safe area.
LEMMA SafeAreaIs ==
  ASSUME ShellAssumption, NEW e, WholeEngine(e), NEW area \in Areas \cup {NoArea}, NEW place,
         OnItsWay(e, place)
  PROVE  /\ WholeEngine(SetSafeAreaInsets(e, area)) /\ OnItsWay(SetSafeAreaInsets(e, area), place)
         /\ SetSafeAreaInsets(e, area).safe = area
         /\ SetSafeAreaInsets(e, area).compositor = e.compositor
         /\ SetSafeAreaInsets(e, area).enabled = e.enabled
         /\ SetSafeAreaInsets(e, area).class = e.class
         /\ SetSafeAreaInsets(e, area).invoker = e.invoker
         /\ SetSafeAreaInsets(e, area).stored = e.stored
         /\ SetSafeAreaInsets(e, area).tracked = e.tracked
         /\ SetSafeAreaInsets(e, area).mounted = e.mounted
<1> DEFINE a == [e EXCEPT !.safe = area]
           d == ApplyLayout(a)
<1>1. a \in Engine /\ a.viewport = e.viewport /\ a.mounted = e.mounted
      /\ a.compositor = e.compositor /\ a.safe = area /\ a.enabled = e.enabled
      /\ a.class = e.class /\ a.invoker = e.invoker
      /\ a.stored = e.stored /\ a.tracked = e.tracked /\ a.handler = e.handler
      /\ a.frameFunc = e.frameFunc /\ a.appStarted = e.appStarted
      /\ a.bounds = e.bounds /\ a.pending = e.pending
  BY DEF Engine, WholeEngine
<1> HIDE DEF a
<1>2. d \in Engine /\ OnlyPlaced(a, d) /\ (a.mounted => d.bounds = Wanted(a))
      /\ (d.bounds = a.bounds \/ d.pending) /\ (a.pending => d.pending)
      /\ Wanted(d) = Wanted(a)
  BY <1>1, LayoutPlaces
<1>3. SetSafeAreaInsets(e, area) = d
  BY DEF SetSafeAreaInsets, a
<1> HIDE DEF d
<1>4. WholeEngine(d)
  BY <1>1, <1>2 DEF WholeEngine, OnlyPlaced
<1>5. OnItsWay(d, place)
  BY <1>1, <1>2 DEF OnItsWay, OnlyPlaced
<1> QED
  BY <1>1, <1>2, <1>3, <1>4, <1>5 DEF OnlyPlaced

\* What the reader's state, a stored path and the class change of an engine.
LEMMA PushEnabledIs ==
  ASSUME NEW e, WholeEngine(e), NEW on \in BOOLEAN
  PROVE  /\ WholeEngine(PushEnabled(e, on))
         /\ e.mounted => PushEnabled(e, on).enabled = on
         /\ PushEnabled(e, on).compositor = e.compositor /\ PushEnabled(e, on).safe = e.safe
         /\ PushEnabled(e, on).class = e.class /\ PushEnabled(e, on).invoker = e.invoker
         /\ PushEnabled(e, on).stored = e.stored /\ PushEnabled(e, on).tracked = e.tracked
         /\ PushEnabled(e, on).mounted = e.mounted
         /\ PushEnabled(e, on).pending = e.pending /\ PushEnabled(e, on).bounds = e.bounds
<1> DEFINE d == [e EXCEPT !.enabled = on]
<1>1. /\ d \in Engine /\ d.enabled = on
      /\ d.compositor = e.compositor /\ d.frameFunc = e.frameFunc
      /\ d.appStarted = e.appStarted /\ d.invoker = e.invoker /\ d.class = e.class
      /\ d.stored = e.stored /\ d.handler = e.handler
      /\ d.mounted = e.mounted /\ d.viewport = e.viewport /\ d.safe = e.safe
      /\ d.tracked = e.tracked /\ d.pending = e.pending /\ d.bounds = e.bounds
  BY DEF Engine, WholeEngine
<1> HIDE DEF d
<1>2. WholeEngine(d)
  BY <1>1 DEF WholeEngine, Wanted
<1>3. PushEnabled(e, on) = IF e.handler THEN d ELSE e
  BY DEF PushEnabled, d
<1> QED
  BY <1>1, <1>2, <1>3 DEF WholeEngine

LEMMA StoredIs ==
  ASSUME NEW e, WholeEngine(e)
  PROVE  /\ WholeEngine(Stored(e)) /\ Stored(e).stored
         /\ Stored(e).compositor = e.compositor /\ Stored(e).safe = e.safe
         /\ Stored(e).class = e.class /\ Stored(e).invoker = e.invoker
         /\ Stored(e).enabled = e.enabled /\ Stored(e).tracked = e.tracked
         /\ Stored(e).mounted = e.mounted
         /\ Stored(e).pending = e.pending /\ Stored(e).bounds = e.bounds
<1> DEFINE d == [e EXCEPT !.stored = TRUE]
<1>1. /\ d \in Engine /\ d.stored
      /\ d.compositor = e.compositor /\ d.frameFunc = e.frameFunc
      /\ d.appStarted = e.appStarted /\ d.invoker = e.invoker /\ d.class = e.class
      /\ d.enabled = e.enabled /\ d.handler = e.handler
      /\ d.mounted = e.mounted /\ d.viewport = e.viewport /\ d.safe = e.safe
      /\ d.tracked = e.tracked /\ d.pending = e.pending /\ d.bounds = e.bounds
  BY DEF Engine, WholeEngine
<1>2. Stored(e) = d
  BY DEF Stored
<1> HIDE DEF d
<1>3. WholeEngine(d)
  BY <1>1 DEF WholeEngine, Wanted
<1> QED
  BY <1>1, <1>2, <1>3

\* The invoker comes and goes with the class.
LEMMA WithInvokerIs ==
  ASSUME NEW e, WholeEngine(e)
  PROVE  LET d == [e EXCEPT !.class = TRUE, !.invoker = TRUE]
         IN  /\ WholeEngine(d) /\ d.invoker
             /\ d.compositor = e.compositor /\ d.safe = e.safe /\ d.stored = e.stored
             /\ d.tracked = e.tracked /\ d.mounted = e.mounted
<1> DEFINE d == [e EXCEPT !.class = TRUE, !.invoker = TRUE]
<1>1. /\ d \in Engine /\ d.invoker
      /\ d.compositor = e.compositor /\ d.frameFunc = e.frameFunc
      /\ d.appStarted = e.appStarted /\ d.stored = e.stored /\ d.handler = e.handler
      /\ d.mounted = e.mounted /\ d.viewport = e.viewport /\ d.safe = e.safe
      /\ d.tracked = e.tracked /\ d.bounds = e.bounds
  BY DEF Engine, WholeEngine
<1> HIDE DEF d
<1>2. WholeEngine(d)
  BY <1>1 DEF WholeEngine, Wanted
<1> QED
  BY <1>1, <1>2 DEF d

LEMMA WithoutInvokerIs ==
  ASSUME NEW e, WholeEngine(e), ~e.mounted
  PROVE  LET d == WithoutInvoker(e)
         IN  /\ WholeEngine(d) /\ ~d.class
             /\ d.compositor = e.compositor /\ d.safe = e.safe /\ d.stored = e.stored
             /\ d.tracked = e.tracked /\ ~d.mounted
  BY DEF WithoutInvoker, Engine, WholeEngine

\* A start: all or nothing.
LEMMA StartedIs ==
  ASSUME ShellAssumption, NEW e, WholeEngine(e), ~e.mounted, e.stored, e.invoker,
         NEW size \in Sizes, NEW starts \in BOOLEAN
  PROVE  LET d == Started(e, size, starts)
         IN  /\ WholeEngine(d) /\ d.compositor = (IF starts THEN size ELSE 0)
             /\ d.mounted => d.pending /\ d.tracked = {}
             /\ ~d.mounted => d.tracked = e.tracked
             /\ d.safe = e.safe /\ d.class = e.class /\ d.invoker = e.invoker
             /\ d.stored = e.stored
<1>0. e \in Engine /\ size \in Nat \ {0} /\ e.compositor = 0 /\ ~e.appStarted
  BY Sized DEF WholeEngine
<1>1. CASE ~starts
  <2>1. Started(e, size, starts) = e
    BY <1>1 DEF Started
  <2> QED
    BY <1>0, <1>1, <2>1
<1>2. CASE starts
  <2> DEFINE b == [[e EXCEPT !.compositor = size, !.frameFunc = TRUE] EXCEPT !.viewport = size]
             r == ShutdownApp([b EXCEPT !.appStarted = TRUE])
             c == [r EXCEPT !.mounted = TRUE, !.handler = TRUE]
             l == ApplyLayout(c)
             d == [l EXCEPT !.pending = TRUE]
  <2>1. b \in Engine /\ ~b.mounted /\ ~b.appStarted
    BY <1>0 DEF Engine
  <2>2. SetViewportSize([e EXCEPT !.compositor = size, !.frameFunc = TRUE], size) = b
    BY <1>0, <2>1 DEF SetViewportSize, ApplyLayout
  <2>3. ~[b EXCEPT !.appStarted = TRUE].mounted
    BY <2>1 DEF Engine
  <2>4. EngineReady(b) = l
    BY <2>1, <2>3 DEF EngineReady, CreateUi, RunApp
  <2>5. Started(e, size, starts) = d
    BY <1>0, <1>2, <2>2, <2>4 DEF Started, RequestRender
  <2>6. /\ c \in Engine /\ c.compositor = size /\ c.frameFunc /\ c.appStarted /\ c.mounted
        /\ c.handler /\ c.viewport = size /\ c.tracked = {}
        /\ c.safe = e.safe /\ c.class = e.class /\ c.invoker = e.invoker
        /\ c.stored = e.stored
    BY ZenonT(60), <1>0 DEF Engine, ShutdownApp, RequestRender, Place
  <2> HIDE DEF b, r, c
  <2>7. l \in Engine /\ OnlyPlaced(c, l) /\ l.bounds = Wanted(c)
    BY <2>6, LayoutPlaces
  <2> HIDE DEF l
  <2>8. /\ d \in Engine /\ OnlyPlaced(l, d) /\ d.bounds = l.bounds /\ d.pending
    BY <2>7 DEF Engine, OnlyPlaced
  <2> HIDE DEF d
  <2>9. Wanted(d) = Wanted(c)
    BY <2>7, <2>8 DEF Wanted, OnlyPlaced
  <2>10. WholeEngine(d)
    BY <1>0, <2>6, <2>7, <2>8, <2>9 DEF WholeEngine, OnlyPlaced
  <2> QED
    BY ZenonT(60), <1>2, <2>5, <2>6, <2>7, <2>8, <2>10 DEF OnlyPlaced
<1> QED
  BY <1>1, <1>2

-----------------------------------------------------------------------------
(* The ids of the fingers *)

LEMMA LeastIsIn ==
  ASSUME NEW S \in SUBSET Nat, S # {}
  PROVE  Min(S) \in S
<1> DEFINE R == OpToRel(<, Nat)
<1>1. IsWellFoundedOn(R, Nat)
  BY NatLessThanWellFounded
<1>2. \A x, y \in Nat : y < x => <<y, x>> \in R
  BY SMT DEF OpToRel
<1> HIDE DEF R
<1>3. PICK x \in S : \A y \in S : ~(<<y, x>> \in R)
  BY <1>1, WFMin
<1>4. \A y \in S : x <= y
  <2> SUFFICES ASSUME NEW y \in S, ~(x <= y) PROVE FALSE
    OBVIOUS
  <2>1. x \in Nat /\ y \in Nat /\ y < x
    OBVIOUS
  <2> QED
    BY <1>2, <1>3, <2>1
<1> QED
  BY <1>4 DEF Min

\* There are as many ids as fingers: one is left for a finger without one.
LEMMA AnIdIsFree ==
  ASSUME ShellAssumption, ids \in [Finger -> Ids \cup {0}], NEW f \in Finger, ids[f] = 0
  PROVE  FreeId \in Ids /\ \A g \in Finger : ids[g] # FreeId
<1> DEFINE Free == {i \in Ids : \A g \in Finger : ids[g] # i}
           others == Finger \ {f}
           n == Cardinality(Finger)
<1>1. Free # {}
  <2> SUFFICES ASSUME Free = {} PROVE FALSE
    OBVIOUS
  <2>1. IsFiniteSet(others) /\ Cardinality(others) = n - 1 /\ n \in Nat
    BY FS_RemoveElement, FS_CardinalityType DEF ShellAssumption
  <2>2. IsFiniteSet(Ids) /\ Cardinality(Ids) = n
    <3>1. n \in Nat /\ 1 \in Int /\ n \in Int
      BY <2>1
    <3> HIDE DEF n
    <3>2. IsFiniteSet(1 .. n) /\ Cardinality(1 .. n) = IF 1 > n THEN 0 ELSE n - 1 + 1
      BY <3>1, FS_Interval
    <3> QED
      BY <3>1, <3>2 DEF Ids, n
  <2> DEFINE h == [i \in Ids |-> CHOOSE g \in Finger : ids[g] = i]
  <2>3. \A i \in Ids : h[i] \in Finger /\ ids[h[i]] = i /\ h[i] # f
    <3> SUFFICES ASSUME NEW i \in Ids PROVE h[i] \in Finger /\ ids[h[i]] = i /\ h[i] # f
      OBVIOUS
    <3>1. \E g \in Finger : ids[g] = i
      OBVIOUS
    <3>2. h[i] \in Finger /\ ids[h[i]] = i
      BY <3>1
    <3>3. i # 0
      BY Sized
    <3> QED
      BY <3>2, <3>3
  <2>4. h \in [Ids -> others]
    BY <2>3
  <2> HIDE DEF h
  <2>5. Cardinality(others) < Cardinality(Ids)
    BY <2>1, <2>2
  <2>6. \E i, j \in Ids : i # j /\ h[i] = h[j]
    BY <2>1, <2>2, <2>4, <2>5, FS_PigeonHole
  <2> QED
    BY <2>3, <2>6
<1>2. Free \in SUBSET Nat
  BY Sized
<1>3. Min(Free) \in Free
  BY <1>1, <1>2, LeastIsIn
<1> QED
  BY <1>3 DEF FreeId

\* The fingers stay as they are, and so does what the application follows, unless it
\* is new and was told of none.
LEMMA FingersStay ==
  ASSUME Fingers, UNCHANGED fingerVars,
         engine'.tracked = engine.tracked \/ (told = {} /\ engine'.tracked = {}),
         engine.mounted => engine'.mounted
  PROVE  Fingers'
  BY DEF Fingers, fingerVars

\* An application that is gone follows none.
LEMMA FingersForgotten ==
  ASSUME TypeOK, Fingers, told' = {}, engine'.tracked = {}, UNCHANGED touching,
         UNCHANGED ids \/ ids' = [f \in Finger |-> 0]
  PROVE  Fingers'
<1>1. CASE UNCHANGED ids
  BY <1>1 DEF Fingers
<1>2. CASE ids' = [f \in Finger |-> 0]
  BY <1>2 DEF Fingers
<1> QED
  BY <1>1, <1>2

LEMMA TrackedIs ==
  ASSUME NEW e, WholeEngine(e), NEW ts \in SUBSET Ids, NEW place, OnItsWay(e, place)
  PROVE  LET d == [e EXCEPT !.tracked = ts]
         IN  /\ WholeEngine(d) /\ OnItsWay(d, place) /\ d.tracked = ts
             /\ d.compositor = e.compositor /\ d.safe = e.safe /\ d.stored = e.stored
             /\ d.enabled = e.enabled /\ d.class = e.class /\ d.invoker = e.invoker
             /\ d.mounted = e.mounted
<1> DEFINE d == [e EXCEPT !.tracked = ts]
<1>1. /\ d \in Engine /\ d.tracked = ts
      /\ d.compositor = e.compositor /\ d.frameFunc = e.frameFunc
      /\ d.appStarted = e.appStarted /\ d.stored = e.stored
      /\ d.enabled = e.enabled /\ d.handler = e.handler
      /\ d.class = e.class /\ d.invoker = e.invoker
      /\ d.mounted = e.mounted /\ d.viewport = e.viewport /\ d.safe = e.safe
      /\ d.pending = e.pending /\ d.bounds = e.bounds
  BY DEF Engine, WholeEngine
<1> HIDE DEF d
<1>2. WholeEngine(d)
  BY <1>1 DEF WholeEngine, Wanted
<1>3. OnItsWay(d, place)
  BY <1>1 DEF OnItsWay
<1> QED
  BY <1>1, <1>2, <1>3 DEF d

-----------------------------------------------------------------------------
(* Every step keeps the invariant *)

LEMMA TypeOfEngine == TypeOK => engine \in Engine
  BY DEF TypeOK, Engine

\* All of TypeOK but the engine.
TypesAround ==
  /\ shell \in {"android", "ios", "harmony"}
  /\ surface \in Sizes \cup {0}
  /\ insets \in Areas \cup {NoArea}
  /\ reader \in BOOLEAN /\ visible \in BOOLEAN /\ foreground \in BOOLEAN
  /\ display \in BOOLEAN /\ listening \in BOOLEAN /\ loaded \in BOOLEAN
  /\ mainWindow \in {"none", "asked", "here"}
  /\ shown \in Place
  /\ touching \subseteq Finger /\ told \subseteq touching /\ ids \in [Finger -> Ids \cup {0}]

LEMMA TypeOKIs == TypeOK <=> TypesAround /\ engine \in Engine
  BY DEF TypeOK, TypesAround, Engine

Inv == TypesAround /\ EngineInv /\ KnowsTheSystem /\ Fingers

LEMMA InvIs == Inv <=> IInv
  BY TypeOKIs DEF Inv, IInv, EngineInv, WholeEngine

LEMMA FrameKeeps ==
  ASSUME ShellAssumption, Inv, BeginFrame PROVE Inv'
<1>1. CASE engine.frameFunc /\ engine.pending
  <2> DEFINE d == [engine EXCEPT !.pending = FALSE]
  <2>1. engine \in Engine /\ engine' = d /\ shown' = engine.bounds
    BY <1>1 DEF BeginFrame, Inv, EngineInv, WholeEngine
  <2>2. /\ d \in Engine
        /\ d.compositor = engine.compositor /\ d.frameFunc = engine.frameFunc
        /\ d.appStarted = engine.appStarted /\ d.stored = engine.stored
        /\ d.enabled = engine.enabled /\ d.handler = engine.handler
        /\ d.class = engine.class /\ d.invoker = engine.invoker
        /\ d.mounted = engine.mounted /\ d.viewport = engine.viewport /\ d.safe = engine.safe
        /\ d.tracked = engine.tracked /\ d.bounds = engine.bounds
    BY <2>1 DEF Engine
  <2> HIDE DEF d
  <2>3. TypesAround'
    BY <2>1 DEF Inv, TypesAround, BeginFrame, systemVars, fingerVars, Engine
  <2>4. WholeEngine(d) /\ OnItsWay(d, engine.bounds)
    BY <2>2 DEF Inv, EngineInv, WholeEngine, Wanted, OnItsWay
  <2>5. EngineInv'
    BY <2>1, <2>2, <2>4 DEF Inv, EngineInv, BeginFrame
  <2>6. KnowsTheSystem'
    BY <2>1, <2>2 DEF Inv, KnowsTheSystem, BeginFrame, systemVars
  <2>7. Fingers'
    BY <2>1, <2>2, FingersStay DEF Inv, BeginFrame
  <2> QED
    BY <2>3, <2>5, <2>6, <2>7 DEF Inv
<1>2. CASE ~(engine.frameFunc /\ engine.pending)
  <2>1. UNCHANGED vars
    BY <1>2 DEF BeginFrame, vars, shellVars, systemVars, fingerVars
  <2> QED
    BY <2>1 DEF vars, shellVars, systemVars, fingerVars, Inv, TypesAround, EngineInv, KnowsTheSystem,
       Fingers
<1> QED
  BY <1>1, <1>2

LEMMA AndroidCreatedKeeps ==
  ASSUME ShellAssumption, Inv, NEW size \in Sizes, NEW starts \in BOOLEAN,
         AndroidCreated(size, starts)
  PROVE  Inv'
<1> DEFINE a == Stored(engine)
           b == WithInvoker(a)
           c == Started(b, size, starts)
           d == PushEnabled(c, reader)
<1>1. /\ WholeEngine(engine) /\ engine.compositor = 0 /\ ~engine.mounted
      /\ shell = "android" /\ reader \in BOOLEAN /\ size # 0
      /\ engine.class => engine.invoker
      /\ told = {}
  BY Sized DEF AndroidCreated, Inv, EngineInv, WholeEngine, TypesAround, KnowsTheSystem, Fingers
<1>2. /\ WholeEngine(a) /\ a.stored /\ ~a.mounted /\ a.safe = engine.safe
      /\ a.class = engine.class /\ a.invoker = engine.invoker /\ a.tracked = engine.tracked
  BY <1>1, StoredIs
<1> HIDE DEF a
<1>3. /\ WholeEngine(b) /\ b.stored /\ ~b.mounted /\ b.safe = engine.safe /\ b.invoker
      /\ b.tracked = engine.tracked
  <2>1. CASE a.class
    BY <1>1, <1>2, <2>1 DEF WithInvoker
  <2>2. CASE ~a.class
    <3>1. b = [a EXCEPT !.class = TRUE, !.invoker = TRUE]
      BY <2>2 DEF WithInvoker
    <3> HIDE DEF b
    <3> QED
      BY <1>1, <1>2, <3>1, WithInvokerIs
  <2> QED
    BY <2>1, <2>2
<1> HIDE DEF b
<1>4. /\ WholeEngine(c) /\ c.compositor \in {0, size} /\ (c.mounted => c.pending)
      /\ (c.tracked = {} \/ c.tracked = engine.tracked)
      /\ c.safe = engine.safe /\ c.invoker
  BY <1>3, StartedIs
<1> HIDE DEF c
<1>5. /\ WholeEngine(d) /\ d.compositor \in {0, size} /\ (d.mounted => d.pending)
      /\ (d.tracked = {} \/ d.tracked = engine.tracked)
      /\ d.safe = engine.safe /\ d.invoker /\ (d.mounted => d.enabled = reader)
  BY <1>1, <1>4, PushEnabledIs
<1>6. engine' = d /\ surface' = size /\ listening'
  BY DEF AndroidCreated, a, b, c
<1> HIDE DEF d
<1>7. TypesAround'
  BY <1>6 DEF AndroidCreated, Inv, TypesAround, systemVars, fingerVars
<1>8. EngineInv'
  BY <1>5, <1>6 DEF EngineInv, OnItsWay
<1>9. KnowsTheSystem'
  BY <1>1, <1>5, <1>6 DEF AndroidCreated, Inv, KnowsTheSystem, systemVars
<1>10. Fingers'
  BY <1>1, <1>5, <1>6, FingersStay DEF AndroidCreated, Inv
<1> QED
  BY <1>7, <1>8, <1>9, <1>10 DEF Inv

LEMMA HarmonyCreatedKeeps ==
  ASSUME ShellAssumption, Inv, NEW size \in Sizes, NEW starts \in BOOLEAN,
         HarmonyCreated(size, starts)
  PROVE  Inv'
<1> DEFINE d == Started(engine, size, starts)
<1>1. /\ WholeEngine(engine) /\ ~engine.mounted /\ engine.stored /\ engine.invoker
      /\ shell = "harmony" /\ loaded /\ told = {}
  BY Sized DEF HarmonyCreated, Inv, EngineInv, WholeEngine, TypesAround, KnowsTheSystem, Fingers
<1>2. /\ WholeEngine(d) /\ d.compositor \in {0, size} /\ (d.mounted => d.pending)
      /\ (d.tracked = {} \/ d.tracked = engine.tracked)
      /\ d.safe = engine.safe /\ d.invoker /\ d.stored
  BY <1>1, StartedIs
<1>3. engine' = d /\ surface' = size
  BY DEF HarmonyCreated
<1> HIDE DEF d
<1>4. TypesAround'
  BY <1>3 DEF HarmonyCreated, Inv, TypesAround, systemVars, fingerVars
<1>5. EngineInv'
  BY <1>2, <1>3 DEF EngineInv, OnItsWay
<1>6. KnowsTheSystem'
  BY <1>1, <1>2, <1>3 DEF HarmonyCreated, Inv, KnowsTheSystem, systemVars
<1>7. Fingers'
  BY <1>1, <1>2, <1>3, FingersStay DEF HarmonyCreated, Inv
<1> QED
  BY <1>4, <1>5, <1>6, <1>7 DEF Inv

LEMMA ResizeKeeps ==
  ASSUME ShellAssumption, Inv, NEW size \in Sizes,
         SurfaceChanged(size) \/ LayoutSubviews(size)
  PROVE  Inv'
<1> DEFINE d == Resized(engine, size)
<1>1. WholeEngine(engine) /\ size # 0
  BY Sized DEF Inv, EngineInv
<1>2. /\ WholeEngine(d) /\ d.pending
      /\ d.compositor = (IF engine.compositor = 0 THEN 0 ELSE size)
      /\ d.safe = engine.safe /\ d.enabled = engine.enabled
      /\ d.class = engine.class /\ d.invoker = engine.invoker
      /\ d.stored = engine.stored /\ d.tracked = engine.tracked
      /\ d.mounted = engine.mounted
  BY <1>1, ResizedIs
<1>3. engine' = d /\ surface' = size
  BY DEF SurfaceChanged, LayoutSubviews
<1> HIDE DEF d
<1>4. UNCHANGED <<shell, systemVars, display, listening, loaded, shown, fingerVars>>
  BY DEF SurfaceChanged, LayoutSubviews
<1>5. TypesAround'
  BY <1>3, <1>4 DEF Inv, TypesAround, systemVars, fingerVars
<1>6. EngineInv'
  BY <1>2, <1>3 DEF EngineInv, OnItsWay
<1>7. KnowsTheSystem'
  BY <1>1, <1>2, <1>3, <1>4 DEF Inv, KnowsTheSystem, systemVars
<1>8. Fingers'
  BY <1>2, <1>3, <1>4, FingersStay DEF Inv
<1> QED
  BY <1>5, <1>6, <1>7, <1>8 DEF Inv

LEMMA DestroyedKeeps ==
  ASSUME ShellAssumption, Inv, AndroidDestroyed \/ HarmonyDestroyed PROVE Inv'
<1> DEFINE a == Destroyed(engine)
<1>1. engine \in Engine
  BY DEF Inv, EngineInv, WholeEngine
<1>2. /\ WholeEngine(a) /\ a.compositor = 0 /\ ~a.mounted
      /\ a.tracked = {} /\ a.safe = engine.safe
      /\ a.class = engine.class /\ a.invoker = engine.invoker /\ a.stored = engine.stored
  BY <1>1, DestroyedIs
<1> HIDE DEF a
<1>3. /\ WholeEngine(engine') /\ engine'.compositor = 0 /\ ~engine'.mounted
      /\ engine'.tracked = {} /\ engine'.safe = engine.safe /\ engine'.stored = engine.stored
      /\ \/ shell = "harmony" /\ engine'.invoker = engine.invoker
         \/ shell = "android" /\ ~engine'.class
  <2>1. CASE HarmonyDestroyed
    BY <1>2, <2>1 DEF HarmonyDestroyed, a
  <2>2. CASE AndroidDestroyed
    <3>1. engine' = WithoutInvoker(a) /\ shell = "android"
      BY <2>2 DEF AndroidDestroyed, a
    <3> QED
      BY <1>2, <3>1, WithoutInvokerIs
  <2> QED
    BY <2>1, <2>2
<1>4. /\ surface' = 0 /\ told' = {} /\ shown' = Nowhere
      /\ UNCHANGED <<shell, systemVars, loaded, touching, ids>>
      /\ listening' \in {listening, FALSE} /\ display' \in {display, FALSE}
      /\ shell \in {"android", "harmony"}
  BY DEF AndroidDestroyed, HarmonyDestroyed
<1>5. TypesAround'
  BY ZenonT(60), <1>4 DEF Inv, TypesAround, systemVars, Place
<1>6. EngineInv'
  BY <1>3, <1>4 DEF EngineInv, OnItsWay
<1>7. KnowsTheSystem'
  BY <1>3, <1>4 DEF Inv, KnowsTheSystem, systemVars
<1>8. Fingers'
  BY <1>3, <1>4, FingersForgotten, InvIs DEF Inv, IInv
<1> QED
  BY <1>5, <1>6, <1>7, <1>8 DEF Inv

\* startEngine of a view in its window, or of one that is not.
LEMMA StartEngineKeeps ==
  ASSUME ShellAssumption, Inv, NEW inWindow \in BOOLEAN, NEW starts \in BOOLEAN,
         StartEngine(inWindow, starts), shell = "ios", surface # 0,
         UNCHANGED <<shell, surface, insets, reader, loaded, mainWindow, shown, fingerVars>>,
         visible' \in BOOLEAN, foreground' \in BOOLEAN
  PROVE  Inv'
<1>1. CASE listening \/ ~inWindow
  <2>1. UNCHANGED <<listening, display, engine>>
    BY <1>1 DEF StartEngine
  <2>2. TypesAround'
    BY <2>1 DEF Inv, TypesAround, fingerVars
  <2>3. EngineInv'
    BY <2>1 DEF Inv, EngineInv
  <2>4. KnowsTheSystem'
    BY <2>1 DEF Inv, KnowsTheSystem
  <2>5. Fingers'
    BY <2>1, FingersStay DEF Inv
  <2> QED
    BY <2>2, <2>3, <2>4, <2>5 DEF Inv
<1>2. CASE ~listening /\ inWindow
  <2> DEFINE a == Stored(engine)
             b == Started(a, surface, starts)
             d == PushEnabled(b, reader)
  <2>1. /\ WholeEngine(engine) /\ ~engine.mounted /\ engine.invoker /\ told = {}
        /\ surface \in Sizes /\ reader \in BOOLEAN
    BY <1>2 DEF Inv, EngineInv, KnowsTheSystem, TypesAround, Fingers
  <2>2. /\ WholeEngine(a) /\ a.stored /\ ~a.mounted /\ a.safe = engine.safe
        /\ a.invoker /\ a.tracked = engine.tracked
    BY <2>1, StoredIs
  <2> HIDE DEF a
  <2>3. /\ WholeEngine(b) /\ b.compositor \in {0, surface} /\ (b.mounted => b.pending)
        /\ (b.tracked = {} \/ b.tracked = engine.tracked)
        /\ b.safe = engine.safe /\ b.invoker
    BY <2>1, <2>2, StartedIs
  <2> HIDE DEF b
  <2>4. /\ WholeEngine(d) /\ d.compositor \in {0, surface} /\ (d.mounted => d.pending)
        /\ (d.tracked = {} \/ d.tracked = engine.tracked)
        /\ d.safe = engine.safe /\ d.invoker /\ (d.mounted => d.enabled = reader)
    BY ZenonT(60), <2>1, <2>3, PushEnabledIs
  <2>5. engine' = d /\ listening' /\ display' = TRUE
    BY <1>2 DEF StartEngine, a, b
  <2> HIDE DEF d
  <2>6. TypesAround'
    <3>1. listening' \in BOOLEAN
      BY <1>2 DEF StartEngine
    <3> QED
      BY <2>5, <3>1 DEF Inv, TypesAround, fingerVars
  <2>7. EngineInv'
    BY <2>4, <2>5 DEF EngineInv, OnItsWay
  <2>8. KnowsTheSystem'
    BY <2>4, <2>5 DEF Inv, KnowsTheSystem
  <2>9. Fingers'
    BY <2>1, <2>4, <2>5, FingersStay DEF Inv
  <2> QED
    BY <2>6, <2>7, <2>8, <2>9 DEF Inv
<1> QED
  BY <1>1, <1>2

LEMMA StopEngineKeeps ==
  ASSUME ShellAssumption, Inv, StopEngine, shell = "ios",
         UNCHANGED <<shell, surface, insets, reader, loaded, mainWindow, touching>>,
         visible' \in BOOLEAN, visible' => visible, foreground' \in BOOLEAN
  PROVE  Inv'
<1>1. engine \in Engine /\ visible \in BOOLEAN
  BY DEF Inv, EngineInv, WholeEngine, TypesAround
<1>2. /\ WholeEngine(engine') /\ engine'.compositor = 0 /\ ~engine'.mounted
      /\ engine'.tracked = {} /\ engine'.safe = engine.safe /\ engine'.invoker = engine.invoker
  BY <1>1, DestroyedIs DEF StopEngine
<1>3. TypesAround'
  BY <1>1 DEF StopEngine, Inv, TypesAround, Place
<1>4. EngineInv'
  BY <1>2 DEF EngineInv, OnItsWay
<1>5. KnowsTheSystem'
  BY <1>2 DEF Inv, KnowsTheSystem
<1>6. Fingers'
  BY <1>2, FingersForgotten, InvIs DEF Inv, IInv, StopEngine
<1> QED
  BY <1>3, <1>4, <1>5, <1>6 DEF Inv

LEMMA IosKeeps ==
  ASSUME ShellAssumption, Inv, NEW starts \in BOOLEAN,
         ViewDidAppear(starts) \/ EnterForeground(starts) \/ ViewWillDisappear
           \/ EnterBackground
  PROVE  Inv'
<1>1. CASE ViewDidAppear(starts)
  <2>1. visible' \in BOOLEAN /\ foreground' \in BOOLEAN /\ TRUE \in BOOLEAN
    BY <1>1 DEF ViewDidAppear, Inv, TypesAround
  <2>2. StartEngine(TRUE, starts)
    BY <1>1 DEF ViewDidAppear
  <2>3. /\ shell = "ios" /\ surface # 0
        /\ UNCHANGED <<shell, surface, insets, reader, loaded, mainWindow, shown, fingerVars>>
    BY <1>1 DEF ViewDidAppear
  <2> QED
    BY <2>1, <2>2, <2>3, StartEngineKeeps
<1>2. CASE EnterForeground(starts)
  <2>1. visible' \in BOOLEAN /\ foreground' \in BOOLEAN /\ visible \in BOOLEAN
    BY <1>2 DEF EnterForeground, Inv, TypesAround
  <2>2. StartEngine(visible, starts)
    BY <1>2 DEF EnterForeground
  <2>3. /\ shell = "ios"
        /\ UNCHANGED <<shell, surface, insets, reader, loaded, mainWindow, shown, fingerVars>>
        /\ visible => surface # 0
    BY <1>2 DEF EnterForeground, Inv, KnowsTheSystem
  <2>4. CASE visible
    BY <2>1, <2>2, <2>3, <2>4, StartEngineKeeps
  <2>5. CASE ~visible
    <3>1. UNCHANGED <<listening, display, engine, visible>>
      BY <1>2, <2>2, <2>5 DEF StartEngine, EnterForeground
    <3>2. TypesAround'
      BY <2>1, <2>3, <3>1 DEF Inv, TypesAround, fingerVars
    <3>3. EngineInv'
      BY <2>3, <3>1 DEF Inv, EngineInv
    <3>4. KnowsTheSystem'
      BY <2>3, <3>1 DEF Inv, KnowsTheSystem
    <3>5. Fingers'
      BY <2>3, <3>1, FingersStay DEF Inv
    <3> QED
      BY <3>2, <3>3, <3>4, <3>5 DEF Inv
  <2> QED
    BY <2>4, <2>5
<1>3. CASE ViewWillDisappear
  <2>1. visible' \in BOOLEAN /\ (visible' => visible) /\ foreground' \in BOOLEAN
    BY <1>3 DEF ViewWillDisappear, Inv, TypesAround
  <2> QED
    BY <1>3, <2>1, StopEngineKeeps DEF ViewWillDisappear
<1>4. CASE EnterBackground
  <2>1. visible' \in BOOLEAN /\ (visible' => visible) /\ foreground' \in BOOLEAN
    BY <1>4 DEF EnterBackground, Inv, TypesAround
  <2> QED
    BY <1>4, <2>1, StopEngineKeeps DEF EnterBackground
<1> QED
  BY <1>1, <1>2, <1>3, <1>4

\* reportSafeArea tells a whole engine of the area, or says nothing.
LEMMA ReportedIs ==
  ASSUME ShellAssumption, NEW e, WholeEngine(e), NEW area \in Areas \cup {NoArea},
         NEW window, NEW bridge \in BOOLEAN, NEW place, OnItsWay(e, place)
  PROVE  LET d == Reported(e, area, window, bridge)
         IN  /\ WholeEngine(d) /\ OnItsWay(d, place)
             /\ d.safe = IF window = "here" /\ bridge THEN area ELSE e.safe
             /\ d.compositor = e.compositor /\ d.class = e.class /\ d.stored = e.stored
             /\ d.invoker = e.invoker /\ d.tracked = e.tracked /\ d.mounted = e.mounted
             /\ d.enabled = e.enabled
<1>1. CASE window = "here" /\ bridge
  BY <1>1, SafeAreaIs DEF Reported
<1>2. CASE ~(window = "here" /\ bridge)
  BY <1>2 DEF Reported
<1> QED
  BY <1>1, <1>2

LEMMA WindowIsHereKeeps ==
  ASSUME ShellAssumption, Inv, WindowIsHere PROVE Inv'
<1> DEFINE d == Reported(engine, insets, "here", loaded)
<1>1. /\ WholeEngine(engine) /\ OnItsWay(engine, shown) /\ insets \in Areas \cup {NoArea}
      /\ loaded \in BOOLEAN
  BY DEF Inv, EngineInv, TypesAround
<1>2. /\ WholeEngine(d) /\ OnItsWay(d, shown) 
      /\ (loaded => d.safe = insets) /\ (~loaded => d.safe = engine.safe)
      /\ d.compositor = engine.compositor /\ d.stored = engine.stored
      /\ d.invoker = engine.invoker /\ d.tracked = engine.tracked
      /\ d.mounted = engine.mounted /\ d.class = engine.class /\ d.enabled = engine.enabled
  BY <1>1, ReportedIs
<1>3. engine' = d
  BY DEF WindowIsHere
<1> HIDE DEF d
<1>4. TypesAround'
  BY DEF WindowIsHere, Inv, TypesAround, fingerVars
<1>5. EngineInv'
  BY <1>2, <1>3 DEF WindowIsHere, Inv, EngineInv
<1>6. KnowsTheSystem'
  <2>1. /\ UNCHANGED <<shell, surface, insets, reader, visible, listening, loaded>>
        /\ mainWindow' = "here" /\ KnowsTheSystem
    BY DEF WindowIsHere, Inv
  <2>2. (shell = "harmony" => loaded) => d.safe = insets
    BY <1>1, <1>2, <2>1 DEF KnowsTheSystem
  <2> QED
    BY <1>2, <1>3, <2>1, <2>2 DEF KnowsTheSystem
<1>7. Fingers'
  BY <1>2, <1>3, FingersStay DEF WindowIsHere, Inv
<1> QED
  BY <1>4, <1>5, <1>6, <1>7 DEF Inv

LEMMA OnLoadKeeps ==
  ASSUME ShellAssumption, Inv, OnLoad PROVE Inv'
<1> DEFINE a == Stored(engine)
           b == [a EXCEPT !.invoker = TRUE]
           d == Reported(b, insets, mainWindow, TRUE)
<1>1. /\ WholeEngine(engine) /\ OnItsWay(engine, shown) /\ insets \in Areas \cup {NoArea}
      /\ shell = "harmony" /\ TRUE \in BOOLEAN
  BY DEF OnLoad, Inv, EngineInv, TypesAround
<1>2. /\ WholeEngine(a) /\ a.stored /\ a.compositor = engine.compositor
      /\ a.tracked = engine.tracked /\ a.mounted = engine.mounted
      /\ a.pending = engine.pending /\ a.bounds = engine.bounds
  BY <1>1, StoredIs
<1> HIDE DEF a
<1>3. /\ WholeEngine(b) /\ b.stored /\ b.invoker /\ b.compositor = engine.compositor
      /\ b.tracked = engine.tracked /\ b.mounted = engine.mounted
      /\ OnItsWay(b, shown)
  <2>1. /\ b \in Engine /\ b.invoker
        /\ b.compositor = a.compositor /\ b.frameFunc = a.frameFunc
        /\ b.appStarted = a.appStarted /\ b.stored = a.stored /\ b.handler = a.handler
        /\ b.mounted = a.mounted /\ b.viewport = a.viewport /\ b.safe = a.safe
        /\ b.tracked = a.tracked /\ b.bounds = a.bounds /\ b.pending = a.pending
    BY <1>2 DEF Engine, WholeEngine
  <2> HIDE DEF b
  <2>2. WholeEngine(b)
    BY <1>2, <2>1 DEF WholeEngine, Wanted
  <2>3. OnItsWay(b, shown)
    BY <1>1, <1>2, <2>1 DEF OnItsWay
  <2> QED
    BY <1>2, <2>1, <2>2, <2>3
<1> HIDE DEF b
<1>4. /\ WholeEngine(d) /\ OnItsWay(d, shown) /\ (mainWindow = "here" => d.safe = insets)
      /\ d.compositor = engine.compositor /\ d.stored
      /\ d.invoker /\ d.tracked = engine.tracked
      /\ d.mounted = engine.mounted
  <2>1. CASE mainWindow = "here"
    <3>1. d = SetSafeAreaInsets(b, insets)
      BY <2>1 DEF Reported
    <3> HIDE DEF d
    <3> QED
      BY <1>1, <1>3, <3>1, SafeAreaIs
  <2>2. CASE mainWindow # "here"
    BY <1>3, <2>2 DEF Reported
  <2> QED
    BY <2>1, <2>2
<1>5. engine' = d
  BY DEF OnLoad, a, b
<1> HIDE DEF d
<1>6. TypesAround'
  BY DEF OnLoad, Inv, TypesAround, systemVars, fingerVars
<1>7. EngineInv'
  BY <1>4, <1>5 DEF OnLoad, Inv, EngineInv
<1>8. KnowsTheSystem'
  BY <1>1, <1>4, <1>5 DEF OnLoad, Inv, KnowsTheSystem, systemVars
<1>9. Fingers'
  BY <1>4, <1>5, FingersStay DEF OnLoad, Inv
<1> QED
  BY <1>6, <1>7, <1>8, <1>9 DEF Inv

\* The rest of HarmonyOS: the engine takes no notice.
LEMMA HarmonyKeeps ==
  ASSUME Inv, AboutToAppear \/ OnDestroy \/ AboutToDisappear PROVE Inv'
<1>1. UNCHANGED <<shell, surface, insets, reader, listening, engine, shown, fingerVars>>
      /\ shell = "harmony"
      /\ visible' \in BOOLEAN /\ foreground' \in BOOLEAN /\ display' \in BOOLEAN
      /\ (loaded' = FALSE \/ loaded' = loaded)
      /\ (mainWindow' \in {"asked", "none"} \/ mainWindow' = mainWindow)
  BY DEF AboutToAppear, OnDestroy, AboutToDisappear, systemVars, Inv, TypesAround
<1>2. TypesAround'
  BY <1>1 DEF Inv, TypesAround, fingerVars
<1>3. EngineInv'
  BY <1>1 DEF Inv, EngineInv
<1>4. KnowsTheSystem'
  BY <1>1 DEF Inv, KnowsTheSystem
<1>5. Fingers'
  BY <1>1, FingersStay DEF Inv
<1> QED
  BY <1>2, <1>3, <1>4, <1>5 DEF Inv

LEMMA SafeAreaKeeps ==
  ASSUME ShellAssumption, Inv, NEW area \in Areas, SafeAreaChanges(area) PROVE Inv'
<1>1. /\ WholeEngine(engine) /\ OnItsWay(engine, shown) /\ area \in Areas \cup {NoArea}
      /\ loaded \in BOOLEAN
  BY DEF Inv, EngineInv, TypesAround
<1>2. /\ WholeEngine(engine') /\ OnItsWay(engine', shown)
      /\ (shell = "harmony" => mainWindow = "here" /\ loaded) => engine'.safe = area
      /\ engine'.compositor = engine.compositor /\ engine'.stored = engine.stored
      /\ engine'.invoker = engine.invoker /\ engine'.tracked = engine.tracked
      /\ engine'.mounted = engine.mounted /\ engine'.class = engine.class
      /\ engine'.enabled = engine.enabled
  <2>1. CASE shell = "harmony"
    <3>1. engine' = Reported(engine, area, mainWindow, loaded)
      BY <2>1 DEF SafeAreaChanges
    <3> QED
      BY <1>1, <2>1, <3>1, ReportedIs
  <2>2. CASE shell # "harmony"
    <3>1. engine' = SetSafeAreaInsets(engine, area)
      BY <2>2 DEF SafeAreaChanges
    <3> QED
      BY <1>1, <2>2, <3>1, SafeAreaIs
  <2> QED
    BY <2>1, <2>2
<1>3. /\ insets' = area
      /\ UNCHANGED <<shell, surface, reader, visible, foreground, mainWindow, display, listening,
                     loaded, shown, fingerVars>>
  BY DEF SafeAreaChanges
<1>4. TypesAround'
  BY <1>1, <1>3 DEF Inv, TypesAround, fingerVars
<1>5. EngineInv'
  BY <1>2, <1>3 DEF Inv, EngineInv
<1>6. KnowsTheSystem'
  BY <1>2, <1>3 DEF Inv, KnowsTheSystem
<1>7. Fingers'
  BY <1>2, <1>3, FingersStay DEF Inv
<1> QED
  BY <1>4, <1>5, <1>6, <1>7 DEF Inv

LEMMA ReaderKeeps ==
  ASSUME ShellAssumption, Inv, ReaderSwitches PROVE Inv'
<1>1. /\ WholeEngine(engine) /\ OnItsWay(engine, shown) /\ reader' \in BOOLEAN
  BY DEF Inv, EngineInv, ReaderSwitches
<1>2. /\ WholeEngine(engine') /\ OnItsWay(engine', shown)
      /\ listening /\ engine.mounted => engine'.enabled = reader'
      /\ engine'.compositor = engine.compositor /\ engine'.stored = engine.stored
      /\ engine'.invoker = engine.invoker /\ engine'.tracked = engine.tracked
      /\ engine'.mounted = engine.mounted /\ engine'.class = engine.class
      /\ engine'.safe = engine.safe
  <2>1. CASE listening
    <3> DEFINE d == PushEnabled(engine, reader')
    <3>1. engine' = d
      BY <2>1 DEF ReaderSwitches
    <3>2. /\ WholeEngine(d) /\ (engine.mounted => d.enabled = reader')
          /\ d.compositor = engine.compositor /\ d.stored = engine.stored
          /\ d.invoker = engine.invoker /\ d.tracked = engine.tracked
          /\ d.mounted = engine.mounted /\ d.class = engine.class /\ d.safe = engine.safe
          /\ d.pending = engine.pending /\ d.bounds = engine.bounds
      BY <1>1, PushEnabledIs
    <3> HIDE DEF d
    <3>3. OnItsWay(d, shown)
      BY <1>1, <3>2 DEF OnItsWay
    <3> QED
      BY <3>1, <3>2, <3>3
  <2>2. CASE ~listening
    <3>1. engine' = engine
      BY <2>2 DEF ReaderSwitches
    <3> QED
      BY <1>1, <2>2, <3>1
  <2> QED
    BY <2>1, <2>2
<1>3. UNCHANGED <<shell, surface, insets, visible, foreground, mainWindow, display, listening,
                  loaded, shown, fingerVars>>
  BY DEF ReaderSwitches
<1>4. TypesAround'
  BY <1>1, <1>3 DEF Inv, TypesAround, fingerVars
<1>5. EngineInv'
  BY <1>2, <1>3 DEF Inv, EngineInv
<1>6. KnowsTheSystem'
  BY <1>2, <1>3 DEF Inv, KnowsTheSystem
<1>7. Fingers'
  BY <1>2, <1>3, FingersStay DEF Inv
<1> QED
  BY <1>4, <1>5, <1>6, <1>7 DEF Inv

LEMMA TouchBeginsKeeps ==
  ASSUME ShellAssumption, Inv, NEW f \in Finger, TouchBegins(f) PROVE Inv'
<1> DEFINE id == FreeId
           ts == IF engine.mounted THEN engine.tracked \cup {id} ELSE engine.tracked \ {id}
<1>1. /\ ids \in [Finger -> Ids \cup {0}] /\ ids[f] = 0 /\ f \notin touching
      /\ told \subseteq touching /\ touching \subseteq Finger
      /\ WholeEngine(engine) /\ OnItsWay(engine, shown)
  BY DEF TouchBegins, Inv, TypesAround, Fingers, EngineInv
<1>2. id \in Ids /\ id # 0 /\ \A g \in Finger : ids[g] # id
  BY <1>1, AnIdIsFree, Sized
<1> HIDE DEF id
<1>3. /\ touching' = touching \cup {f} /\ ids' = [ids EXCEPT ![f] = id]
      /\ engine' = [engine EXCEPT !.tracked = ts]
      /\ told' = (IF engine.mounted THEN told \cup {f} ELSE told)
      /\ UNCHANGED <<shell, surface, systemVars, display, listening, loaded, shown>>
  BY <1>1 DEF TouchBegins, id, WholeEngine, Engine
<1>4. ts \in SUBSET Ids
  BY <1>1, <1>2 DEF WholeEngine, Engine
<1>5. /\ WholeEngine(engine') /\ OnItsWay(engine', shown) /\ engine'.tracked = ts
      /\ engine'.compositor = engine.compositor /\ engine'.stored = engine.stored
      /\ engine'.invoker = engine.invoker /\ engine'.mounted = engine.mounted
      /\ engine'.class = engine.class /\ engine'.enabled = engine.enabled
      /\ engine'.safe = engine.safe
  BY <1>1, <1>3, <1>4, TrackedIs
<1>6. ids'[f] = id /\ \A g \in Finger : g # f => ids'[g] = ids[g]
  BY <1>1, <1>3
<1>7. TypesAround'
  BY <1>1, <1>2, <1>3 DEF Inv, TypesAround, systemVars
<1>8. EngineInv'
  BY <1>3, <1>5 DEF Inv, EngineInv
<1>9. KnowsTheSystem'
  BY <1>3, <1>5 DEF Inv, KnowsTheSystem, systemVars
<1>10. Fingers'
  <2>1. engine.tracked = {ids[g] : g \in told}
    BY DEF Inv, Fingers
  <2>2. f \notin told /\ \A g \in told : g \in Finger /\ ids'[g] = ids[g]
    BY <1>1, <1>6
  <2>3. ts = {ids'[g] : g \in told'}
    <3>1. CASE engine.mounted
      BY <1>3, <1>6, <2>1, <2>2, <3>1
    <3>2. CASE ~engine.mounted
      BY <1>2, <1>3, <2>1, <2>2, <3>2
    <3> QED
      BY <3>1, <3>2
  <2> HIDE DEF ts
  <2>4. \A g, h \in Finger : ids'[g] = ids'[h] /\ ids'[g] # 0 => g = h
    BY <1>2, <1>6 DEF Inv, Fingers
  <2>5. \A g \in Finger : ids'[g] # 0 => g \in touching'
    BY <1>3, <1>6 DEF Inv, Fingers
  <2>6. \A g \in told' : ids'[g] # 0
    BY <1>2, <1>3, <1>6, <2>2 DEF Inv, Fingers
  <2>7. ~engine'.mounted => told' = {}
    BY <1>3, <1>5 DEF Inv, Fingers
  <2> QED
    BY <1>5, <2>3, <2>4, <2>5, <2>6, <2>7 DEF Fingers
<1> QED
  BY <1>7, <1>8, <1>9, <1>10 DEF Inv

LEMMA TouchEndsKeeps ==
  ASSUME ShellAssumption, Inv, NEW f \in Finger, TouchEnds(f) PROVE Inv'
<1> DEFINE ts == engine.tracked \ {ids[f]}
<1>1. /\ ids \in [Finger -> Ids \cup {0}]
      /\ told \subseteq touching /\ touching \subseteq Finger
      /\ WholeEngine(engine) /\ OnItsWay(engine, shown)
  BY DEF Inv, TypesAround, EngineInv
<1>2. /\ touching' = touching \ {f} /\ ids' = [ids EXCEPT ![f] = 0] /\ told' = told \ {f}
      /\ engine' = [engine EXCEPT !.tracked = ts]
      /\ UNCHANGED <<shell, surface, systemVars, display, listening, loaded, shown>>
  BY <1>1 DEF TouchEnds, IdForTouch, WholeEngine, Engine
<1>3. ts \in SUBSET Ids
  BY <1>1 DEF WholeEngine, Engine
<1>4. /\ WholeEngine(engine') /\ OnItsWay(engine', shown) /\ engine'.tracked = ts
      /\ engine'.compositor = engine.compositor /\ engine'.stored = engine.stored
      /\ engine'.invoker = engine.invoker /\ engine'.mounted = engine.mounted
      /\ engine'.class = engine.class /\ engine'.enabled = engine.enabled
      /\ engine'.safe = engine.safe
  BY <1>1, <1>2, <1>3, TrackedIs
<1>5. ids'[f] = 0 /\ \A g \in Finger : g # f => ids'[g] = ids[g]
  BY <1>1, <1>2
<1>6. TypesAround'
  BY <1>1, <1>2 DEF Inv, TypesAround, systemVars
<1>7. EngineInv'
  BY <1>2, <1>4 DEF Inv, EngineInv
<1>8. KnowsTheSystem'
  BY <1>2, <1>4 DEF Inv, KnowsTheSystem, systemVars
<1>9. Fingers'
  <2>1. engine.tracked = {ids[g] : g \in told} /\ \A g \in told : g \in Finger /\ ids[g] # 0
    BY <1>1 DEF Inv, Fingers
  <2>2. \A g \in told : ids[g] = ids[f] => g = f
    BY <2>1 DEF Inv, Fingers
  <2>3. ts = {ids'[g] : g \in told'}
    BY <1>2, <1>5, <2>1, <2>2
  <2> HIDE DEF ts
  <2>4. \A g, h \in Finger : ids'[g] = ids'[h] /\ ids'[g] # 0 => g = h
    BY <1>5 DEF Inv, Fingers
  <2>5. \A g \in Finger : ids'[g] # 0 => g \in touching'
    BY <1>2, <1>5 DEF Inv, Fingers
  <2>6. \A g \in told' : ids'[g] # 0
    BY <1>2, <1>5, <2>1
  <2>7. ~engine'.mounted => told' = {}
    BY <1>2, <1>4 DEF Inv, Fingers
  <2> QED
    BY <1>4, <2>3, <2>4, <2>5, <2>6, <2>7 DEF Fingers
<1> QED
  BY <1>6, <1>7, <1>8, <1>9 DEF Inv

-----------------------------------------------------------------------------
(* The theorems *)

LEMMA Initially == ShellAssumption /\ Init => IInv
<1> SUFFICES ASSUME ShellAssumption, Init PROVE Inv
  BY InvIs
<1>1. TypesAround
  BY DEF Init, TypesAround, Place
<1>2. WholeEngine(engine)
  BY DEF Init, WholeEngine, Engine, Place, Nowhere, NoArea
<1>3. EngineInv
  BY <1>2 DEF Init, EngineInv, OnItsWay
<1>4. KnowsTheSystem
  BY DEF Init, KnowsTheSystem
<1>5. Fingers
  BY DEF Init, Fingers
<1> QED
  BY <1>1, <1>3, <1>4, <1>5 DEF Inv

LEMMA Step == ShellAssumption /\ IInv /\ [Next]_vars => IInv'
<1> SUFFICES ASSUME ShellAssumption, Inv, [Next]_vars PROVE Inv'
  <2>1. Inv' <=> IInv'
    <3>1. TypeOK' <=> TypesAround' /\ engine' \in Engine
      BY DEF TypeOK, TypesAround, Engine
    <3> QED
      BY <3>1 DEF Inv, IInv, EngineInv, WholeEngine
  <2> QED
    BY <2>1, InvIs
<1>1. CASE UNCHANGED vars
  BY <1>1 DEF vars, shellVars, systemVars, fingerVars, Inv, TypesAround, EngineInv, KnowsTheSystem,
     Fingers
<1>2. CASE \E starts \in BOOLEAN : ViewDidAppear(starts) \/ EnterForeground(starts)
  BY <1>2, IosKeeps
<1>3. CASE ViewWillDisappear \/ EnterBackground
  <2>1. TRUE \in BOOLEAN
    OBVIOUS
  <2> QED
    BY <1>3, <2>1, IosKeeps
<1> QED
  BY <1>1, <1>2, <1>3, FrameKeeps, AndroidCreatedKeeps, HarmonyCreatedKeeps, ResizeKeeps,
     DestroyedKeeps, WindowIsHereKeeps, OnLoadKeeps, HarmonyKeeps, SafeAreaKeeps, ReaderKeeps,
     TouchBeginsKeeps, TouchEndsKeeps DEF Next

\* The engine is whole by itself, knows the system it runs on, mounted or not, and
\* every finger with an id is on the screen and has it alone (ui_application.cpp and
\* the bridges).
THEOREM ShellInvariant == ShellAssumption => (Spec => []IInv)
<1> SUFFICES ASSUME ShellAssumption PROVE Spec => []IInv
  OBVIOUS
<1>1. Init => IInv
  BY Initially
<1>2. IInv /\ [Next]_vars => IInv'
  BY Step
<1> QED
  BY <1>1, <1>2, PTL DEF Spec

\* On any of the three platforms, whatever the order of surfaces, sizes, bars, starts
\* that fail and fingers that stay over them: the application fills its window, the
\* engine is there as a whole or not at all, the pointers followed are the fingers
\* told of, and what is not shown as laid out has a frame on its way.
THEOREM EngineFollowsItsShell == ShellAssumption => (Spec => []ShellIsInStep)
<1> SUFFICES ASSUME ShellAssumption PROVE Spec => []ShellIsInStep
  OBVIOUS
<1>1. IInv => ShellIsInStep
  <2> SUFFICES ASSUME Inv PROVE ShellIsInStep
    BY InvIs
  <2>1. WholeEngine(engine) /\ engine.compositor \in {0, surface} /\ engine \in Engine
    BY DEF Inv, EngineInv, WholeEngine
  <2>2. FillsTheWindow
    BY <2>1 DEF FillsTheWindow, WholeEngine, Inv, KnowsTheSystem
  <2>3. EngineIsWhole
    <3>1. /\ engine.frameFunc \in BOOLEAN /\ engine.appStarted \in BOOLEAN
          /\ engine.mounted \in BOOLEAN
      BY <2>1 DEF Engine
    <3>2. /\ engine.frameFunc = (engine.compositor # 0)
          /\ engine.appStarted = (engine.compositor # 0)
          /\ engine.mounted = (engine.compositor # 0)
      BY <2>1, <3>1 DEF WholeEngine
    <3>3. engine.mounted =>
            engine.stored /\ engine.invoker /\ (shell # "harmony" => engine.enabled = reader)
      BY <2>1 DEF WholeEngine, Inv, KnowsTheSystem
    <3> QED
      BY <2>1, <3>2, <3>3 DEF EngineIsWhole
  <2>4. FollowsTheFingers
    BY DEF FollowsTheFingers, Inv, Fingers, TypesAround
  <2>5. StaleIsPending
    BY DEF StaleIsPending, Inv, EngineInv, OnItsWay
  <2> QED
    BY <2>2, <2>3, <2>4, <2>5 DEF ShellIsInStep
<1> QED
  BY <1>1, ShellInvariant, PTL

\* The types of the shell and of the engine.
THEOREM ShellTypes == ShellAssumption => (Spec => []TypeOK)
<1> SUFFICES ASSUME ShellAssumption PROVE Spec => []TypeOK
  OBVIOUS
<1>1. IInv => TypeOK
  BY DEF IInv
<1> QED
  BY <1>1, ShellInvariant, PTL
=============================================================================
