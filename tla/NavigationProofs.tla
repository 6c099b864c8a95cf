--------------------------- MODULE NavigationProofs ---------------------------
(***************************************************************************)
(* Theorems about Navigation, for any number of pages and of animation     *)
(* steps, any depth of calls nested in callbacks and any number of ticks   *)
(* that outlive their transition.                                          *)
(*                                                                         *)
(* The inductive invariant says where the call the callbacks of which run  *)
(* stands: which pages it works on, what they were told, and what is left  *)
(* of the stack and the routes until it is over.  Only the innermost call  *)
(* may be between its callbacks, since the others are in their last one;   *)
(* a transition is one that both its pages have been announced; and, while *)
(* no tick has outlived its transition, a tick belongs to the transition   *)
(* under way, and the pages are where they belong and were told so.        *)
(***************************************************************************)
EXTENDS Navigation, SequenceTheorems, TLAPS

\* The last callbacks of a call: only a return is behind them.
Closing == {"entered", "popRestore", "undoEntered", "popEntered"}

\* Application code navigates in its turn only from these.  From an earlier one,
\* the restoring DidEnter of a push that fails for instance, a second call would
\* run in the middle of the first, and RoutesArePages is false.
NavHypothesis == NavigationAssumption /\ CallsFrom \subseteq Closing

Pushing == {"leave", "enter", "restore"}
Ending == {"popLeft", "popEntered", "undoLeft", "undoEntered"}
Removing == {"popLeft", "popEntered"}
Stand == Closing \cup Pushing \cup Ending \cup {"left", "popLeave", "popEnter"}
Lives == {"new", "WillEnter", "DidEnter", "WillLeave", "DidLeave", "gone"}

View ==
  [pages : Seq(Page), transitioning : BOOLEAN, transitionKind : {"None", "Push", "Pop"},
   popLifecycleActive : BOOLEAN, progress : 0 .. Steps, x : [Page -> -Steps .. Steps],
   visible : [Page -> BOOLEAN]]
Call ==
  [at : Stand, page : Page, below : Page \cup {0}, animated : BOOLEAN,
   was : Lives]
Tick == [kind : {"Push", "Pop"}, time : -1 .. Steps, stale : BOOLEAN]

NavTypes ==
  /\ nav \in View /\ routes \in Seq(Page)
  /\ anims \in Seq(Tick) /\ running \in Seq(Tick)
  /\ \A i \in 1 .. Len(running) : running[i].time # -1
  /\ calls \in Seq(Call)
  /\ life \in [Page -> Lives] /\ made \in 0 .. MaxPages /\ spoiled \in BOOLEAN

\* Only the innermost call may be between its callbacks, and the end of a pop is
\* the outermost.
CallsNest ==
  /\ \A i \in 2 .. Len(calls) : calls[i].at \in Closing
  /\ \A i \in 1 .. Len(calls) : calls[i].at \in Ending => i = Len(calls)

\* Where the innermost call stands, and where the outermost.
Here == IF calls = << >> THEN "none" ELSE calls[1].at
There == IF calls = << >> THEN "none" ELSE calls[Len(calls)].at

Without(s, k) == [i \in 1 .. Len(s) - 1 |-> IF i < k THEN s[i] ELSE s[i + 1]]
Ascending(s) == \A i, j \in 1 .. Len(s) : i < j => s[i] < s[j]

\* The routes but for one that is not pushed yet.
Based == IF Here \in Pushing THEN SubSeq(routes, 1, Len(routes) - 1) ELSE routes

RoutesMatch ==
  /\ Ascending(routes) /\ \A i \in 1 .. Len(routes) : routes[i] <= made
  /\ Here \in Pushing => routes # << >> /\ routes[Len(routes)] = calls[1].page
  /\ There \notin Removing => nav.pages = Based
  /\ There \in Removing =>
       \E k \in 1 .. Len(Based) :
         Based[k] = calls[Len(calls)].page /\ nav.pages = Without(Based, k)

Moves(kind) == nav.transitioning /\ nav.transitionKind = kind
Upper == nav.pages[Len(nav.pages)]
Lower == nav.pages[Len(nav.pages) - 1]

MotionIsWhole ==
  /\ nav.transitioning <=> nav.transitionKind # "None"
  /\ nav.transitioning => Len(nav.pages) >= 2
  /\ nav.popLifecycleActive <=> (There \in Ending \/ Moves("Pop"))
  /\ There \in Ending => ~Moves("Pop")
  /\ Moves("Push") => life[Upper] = "WillEnter" /\ life[Lower] = "WillLeave"
  /\ Moves("Pop") => life[Upper] = "WillLeave" /\ life[Lower] = "WillEnter"

\* Where the innermost call stands.
CallIsAnnounced ==
  /\ Here \notin Closing \cup {"none"} => ~nav.transitioning
  /\ Here \in {"leave", "restore"} => nav.pages # << >> /\ calls[1].below = Upper
  /\ Here = "leave" => life[calls[1].below] = "WillLeave"
  /\ Here = "enter" =>
       /\ life[calls[1].page] = "WillEnter"
       /\ nav.pages = << >> => calls[1].below = 0
       /\ nav.pages # << >> => calls[1].below = Upper /\ life[Upper] = "WillLeave"
  /\ Here \in {"left", "undoLeft", "popLeave", "popEnter"} =>
       Len(nav.pages) >= 2 /\ calls[1].page = Upper /\ calls[1].below = Lower
  /\ Here = "left" => life[Upper] = "WillEnter"
  /\ Here \in {"undoLeft", "popLeave", "popEnter"} => life[Upper] = "WillLeave"
  /\ Here = "popEnter" => life[Lower] = "WillEnter"
  /\ Here \in {"popLeave", "popEnter"} =>
       ~nav.popLifecycleActive /\ (calls[1].animated \/ Len(calls) = 1)
  /\ Here = "popLeft" =>
       nav.pages # << >> /\ calls[1].below = Upper /\ life[Upper] = "WillEnter"

\* While no tick has run late: a tick belongs to the transition under way,
TicksBelong ==
  /\ \A i \in 1 .. Len(anims) : ~anims[i].stale => Moves(anims[i].kind)
  /\ \A i \in 1 .. Len(running) : ~running[i].stale => Moves(running[i].kind)
  /\ \A i, j \in 1 .. Len(anims) : ~anims[i].stale /\ ~anims[j].stale => i = j
  /\ \A i, j \in 1 .. Len(running) : ~running[i].stale /\ ~running[j].stale => i = j
  /\ \A i \in 1 .. Len(anims), j \in 1 .. Len(running) : anims[i].stale \/ running[j].stale

\* ... the pages are where they belong,
PagesInPlace ==
  /\ \A i \in 1 .. Len(nav.pages) : i < Len(nav.pages) - 1 => ~nav.visible[nav.pages[i]]
  /\ ~nav.transitioning /\ Len(nav.pages) >= 2 => ~nav.visible[Lower]
  /\ nav.pages # << >> => nav.visible[Upper]
  /\ ~nav.transitioning /\ nav.pages # << >> => nav.x[Upper] = 0

\* ... and were told so.
PagesTold ==
  /\ \A i \in 1 .. Len(nav.pages) : i < Len(nav.pages) - 1 => life[nav.pages[i]] = "DidLeave"
  /\ ~nav.transitioning /\ Here # "popEnter" /\ Len(nav.pages) >= 2 => life[Lower] = "DidLeave"
  /\ ~nav.transitioning /\ nav.pages # << >> /\ Here \in Closing \cup {"restore", "none"}
       => life[Upper] = "DidEnter"
  /\ Here \in {"leave", "popLeave"} => calls[1].was = "DidEnter"
  /\ Here = "popEnter" => calls[1].was = "DidLeave"

NavInv ==
  /\ NavTypes /\ CallsNest /\ RoutesMatch /\ MotionIsWhole /\ CallIsAnnounced
  /\ ~spoiled => TicksBelong /\ PagesInPlace /\ PagesTold


LEMMA WithoutLast ==
  ASSUME NEW S, NEW s \in Seq(S), s # << >>
  PROVE  /\ SubSeq(s, 1, Len(s) - 1) \in Seq(S)
         /\ Len(SubSeq(s, 1, Len(s) - 1)) = Len(s) - 1
         /\ \A i \in 1 .. Len(s) - 1 : SubSeq(s, 1, Len(s) - 1)[i] = s[i]
<1>1. Len(s) \in Nat /\ Len(s) >= 1 /\ \A i \in 1 .. Len(s) - 1 : s[i] \in S
  OBVIOUS
<1> DEFINE n == Len(s) - 1
<1>2. n \in Nat
  BY <1>1
<1> HIDE DEF n
<1>3. /\ SubSeq(s, 1, n) \in Seq(S)
      /\ Len(SubSeq(s, 1, n)) = IF 1 <= n THEN n - 1 + 1 ELSE 0
      /\ \A i \in 1 .. n - 1 + 1 : SubSeq(s, 1, n)[i] = s[1 + i - 1]
  <2>1. \A i \in 1 .. n : s[i] \in S
    BY <1>1, <1>2 DEF n
  <2> QED
    BY <1>2, <2>1, SubSeqProperties
<1>4. /\ SubSeq(s, 1, n) \in Seq(S) /\ Len(SubSeq(s, 1, n)) = n
      /\ \A i \in 1 .. n : SubSeq(s, 1, n)[i] = s[i]
  BY <1>2, <1>3
<1> QED
  BY <1>4 DEF n

LEMMA LastTaken ==
  ASSUME NEW S, NEW s \in Seq(S), NEW x \in S
  PROVE  SubSeq(Append(s, x), 1, Len(Append(s, x)) - 1) = s
<1> DEFINE t == Append(s, x)
           f == SubSeq(t, 1, Len(t) - 1)
<1>1. t \in Seq(S) /\ t # << >> /\ Len(t) = Len(s) + 1 /\ Len(s) \in Nat
      /\ \A i \in 1 .. Len(s) : t[i] = s[i]
  OBVIOUS
<1> HIDE DEF t
<1>2. f \in Seq(S) /\ Len(f) = Len(t) - 1 /\ \A i \in 1 .. Len(t) - 1 : f[i] = t[i]
  BY <1>1, WithoutLast
<1> HIDE DEF f
<1>3. f = s
  BY <1>1, <1>2
<1> QED
  BY <1>3 DEF f, t

LEMMA RouteNumbers ==
  ASSUME NavInv
  PROVE  /\ made \in Nat /\ routes \in Seq(Page) /\ Len(routes) \in Nat
         /\ \A i \in 1 .. Len(routes) : routes[i] \in Nat /\ routes[i] <= made
         /\ \A i, j \in 1 .. Len(routes) : i < j => routes[i] < routes[j]
<1>1. made \in Nat /\ routes \in Seq(Page)
  BY DEF NavInv, NavTypes
<1>2. \A i \in 1 .. Len(routes) : routes[i] \in Page
  BY <1>1
<1>3. \A p \in Page : p \in Nat
  BY DEF Page
<1>4. \A i \in 1 .. Len(routes) : routes[i] <= made
  BY DEF NavInv, RoutesMatch
<1>5. \A i, j \in 1 .. Len(routes) : i < j => routes[i] < routes[j]
  BY DEF NavInv, RoutesMatch, Ascending
<1>6. Len(routes) \in Nat
  BY <1>1
<1>7. \A i \in 1 .. Len(routes) : routes[i] \in Nat
  BY <1>2, <1>3
<1> QED
  BY <1>1, <1>4, <1>5, <1>6, <1>7

LEMMA BasedIsRoutes ==
  ASSUME NavInv
  PROVE  /\ Based \in Seq(Page) /\ Len(Based) <= Len(routes)
         /\ Here \in Pushing => Len(routes) > 0 /\ Len(Based) = Len(routes) - 1
         /\ Here \notin Pushing => Based = routes
         /\ \A i \in 1 .. Len(Based) : Based[i] = routes[i]
<1>1. routes \in Seq(Page) /\ (Here \in Pushing => Len(routes) > 0)
  BY DEF NavInv, NavTypes, RoutesMatch
<1>2. CASE Here \in Pushing
  <2>1. Based = SubSeq(routes, 1, Len(routes) - 1)
    BY <1>2 DEF Based
  <2>2. routes # << >>
    BY <1>1, <1>2
  <2> QED
    BY <1>1, <1>2, <2>1, <2>2, WithoutLast
<1>3. CASE Here \notin Pushing
  BY <1>1, <1>3 DEF Based
<1> QED
  BY <1>2, <1>3

\* The pages are in the order they were pushed in; the one that is not pushed yet
\* and the one that was popped are none of them.
LEMMA PagesAreApart ==
  ASSUME NavInv
  PROVE  /\ Ascending(nav.pages)
         /\ \A i \in 1 .. Len(nav.pages) :
              /\ nav.pages[i] \in Page /\ nav.pages[i] <= made
              /\ Here \in Pushing => nav.pages[i] # calls[1].page
              /\ There \in Removing => nav.pages[i] # calls[Len(calls)].page
<1>1. /\ routes \in Seq(Page) /\ nav.pages \in Seq(Page)
      /\ Ascending(routes) /\ \A i \in 1 .. Len(routes) : routes[i] <= made
      /\ Here \in Pushing => routes[Len(routes)] = calls[1].page
  BY DEF NavInv, NavTypes, RoutesMatch, View
<1>2. /\ Based \in Seq(Page) /\ Len(Based) <= Len(routes)
      /\ Here \in Pushing => Len(routes) > 0 /\ Len(Based) = Len(routes) - 1
      /\ \A i \in 1 .. Len(Based) : Based[i] = routes[i]
  BY BasedIsRoutes
<1>3. /\ \A i, j \in 1 .. Len(Based) : i < j => Based[i] < Based[j]
      /\ \A i \in 1 .. Len(Based) : Based[i] \in Page /\ Based[i] <= made
      /\ Here \in Pushing => \A i \in 1 .. Len(Based) : Based[i] # calls[1].page
  <2>1. ASSUME Here \in Pushing, NEW i \in 1 .. Len(Based) PROVE Based[i] # calls[1].page
    <3>1. routes[i] < routes[Len(routes)]
      BY <1>1, <1>2, <2>1 DEF Ascending
    <3>2. routes[i] \in Int /\ routes[Len(routes)] \in Int
      <4>1. Page \subseteq Int
        BY DEF Page
      <4>2. Len(routes) \in 1 .. Len(routes) /\ i \in 1 .. Len(routes)
        BY <1>1, <1>2, <2>1
      <4>3. routes[i] \in Page /\ routes[Len(routes)] \in Page
        BY <1>1, <4>2
      <4> QED
        BY <4>1, <4>3
    <3> QED
      BY <1>1, <1>2, <2>1, <3>1, <3>2
  <2> QED
    BY <1>1, <1>2, <2>1 DEF Ascending
<1>4. CASE There \notin Removing
  BY <1>3, <1>4 DEF NavInv, RoutesMatch, Ascending
<1>5. CASE There \in Removing
  <2>1. PICK k \in 1 .. Len(Based) :
          Based[k] = calls[Len(calls)].page /\ nav.pages = Without(Based, k)
    BY <1>5 DEF NavInv, RoutesMatch
  <2>2. /\ Len(nav.pages) = Len(Based) - 1
        /\ \A i \in 1 .. Len(nav.pages) :
             nav.pages[i] = IF i < k THEN Based[i] ELSE Based[i + 1]
    BY <1>1, <1>2, <2>1 DEF Without
  <2>3. \A i, j \in 1 .. Len(nav.pages) : i < j => nav.pages[i] < nav.pages[j]
    BY <1>2, <1>3, <2>1, <2>2
  <2>4. ASSUME NEW i \in 1 .. Len(nav.pages) PROVE nav.pages[i] # Based[k]
    <3>1. CASE i < k
      BY <1>2, <1>3, <2>1, <2>2, <3>1 DEF Page
    <3>2. CASE ~(i < k)
      <4>1. Based[k] < Based[i + 1]
        BY <1>2, <1>3, <2>1, <2>2, <3>2
      <4>2. Based[k] \in Int /\ Based[i + 1] \in Int /\ nav.pages[i] = Based[i + 1]
        BY <1>2, <1>3, <2>1, <2>2, <3>2 DEF Page
      <4> QED
        BY <4>1, <4>2
    <3> QED
      BY <3>1, <3>2
  <2>5. ASSUME NEW i \in 1 .. Len(nav.pages)
        PROVE  \E j \in 1 .. Len(Based) : nav.pages[i] = Based[j]
    BY <1>2, <2>1, <2>2
  <2> QED
    BY <1>3, <1>5, <2>1, <2>3, <2>4, <2>5 DEF Ascending
<1> QED
  BY <1>4, <1>5

\* What the pages that move are.
LEMMA TopPages ==
  ASSUME NavInv
  PROVE  /\ nav.pages \in Seq(Page) /\ Len(nav.pages) \in Nat
         /\ nav.pages # << >> => Upper \in Page /\ Len(nav.pages) >= 1
         /\ Len(nav.pages) >= 2 =>
              /\ Upper \in Page /\ Lower \in Page /\ Lower # Upper
              /\ \A i \in 1 .. Len(nav.pages) :
                   i < Len(nav.pages) - 1 => nav.pages[i] # Upper /\ nav.pages[i] # Lower
              /\ \A i \in 1 .. Len(nav.pages) : i < Len(nav.pages) => nav.pages[i] # Upper
<1>1. nav.pages \in Seq(Page)
  BY DEF NavInv, NavTypes, View
<1>2. \A i, j \in 1 .. Len(nav.pages) :
        /\ nav.pages[i] \in Int
        /\ i < j => nav.pages[i] < nav.pages[j]
  BY <1>1, PagesAreApart DEF Ascending, Page
<1>3. \A i, j \in 1 .. Len(nav.pages) : i < j => nav.pages[i] # nav.pages[j]
  BY <1>2
<1> QED
  BY <1>1, <1>3 DEF Upper, Lower

LEMMA Events ==
  ASSUME NEW c \in Call
  PROVE  /\ c.at \in Stand
         /\ c.at = "leave" => Event(c) = "WillLeave" /\ Target(c) = c.below
         /\ c.at = "enter" => Event(c) = "WillEnter" /\ Target(c) = c.page
         /\ c.at = "restore" => Event(c) = "DidEnter" /\ Target(c) = c.below
         /\ c.at = "left" => Event(c) = "DidLeave" /\ Target(c) = c.below
         /\ c.at = "entered" => Event(c) = "DidEnter" /\ Target(c) = c.page
         /\ c.at = "popLeave" => Event(c) = "WillLeave" /\ Target(c) = c.page
         /\ c.at = "popEnter" => Event(c) = "WillEnter" /\ Target(c) = c.below
         /\ c.at = "popRestore" => Event(c) = "DidEnter" /\ Target(c) = c.page
         /\ c.at = "undoLeft" => Event(c) = "DidLeave" /\ Target(c) = c.below
         /\ c.at = "undoEntered" => Event(c) = "DidEnter" /\ Target(c) = c.page
         /\ c.at = "popLeft" => Event(c) = "DidLeave" /\ Target(c) = c.page
         /\ c.at = "popEntered" => Event(c) = "DidEnter" /\ Target(c) = c.below
<1>1. c.at \in Stand
  BY DEF Call
<1> QED
  BY <1>1 DEF Event, EventAt, Target

-----------------------------------------------------------------------------
(* What the view does to itself *)

Same(m, n) ==
  /\ m \in View /\ m.pages = n.pages
  /\ m.transitioning = n.transitioning /\ m.transitionKind = n.transitionKind
  /\ m.popLifecycleActive = n.popLifecycleActive

TopOf(n) == n.pages[Len(n.pages)]
NextOf(n) == n.pages[Len(n.pages) - 1]

LEMMA StackTypes ==
  ASSUME NEW n \in View
  PROVE  /\ n.pages \in Seq(Page) /\ Len(n.pages) \in Nat
         /\ Top(n) = TopOf(n) /\ Below(n) = NextOf(n)
         /\ Len(n.pages) >= 1 => TopOf(n) \in Page
         /\ Len(n.pages) >= 2 => NextOf(n) \in Page
         /\ n.pages = << >> <=> Len(n.pages) = 0
         /\ n.pages # << >> <=> Len(n.pages) >= 1
         /\ Len(n.pages) > 1 <=> Len(n.pages) >= 2
         /\ Len(n.pages) < 2 <=> ~(Len(n.pages) >= 2)
  BY DEF View, Top, Below, Last, TopOf, NextOf

\* Slip-free moves: only positions change, and the page below comes to be seen.
LEMMA ApplyMoves ==
  ASSUME NavigationAssumption, NEW n \in View, NEW p \in 0 .. Steps, NEW kind
  PROVE  LET m == Apply(n, kind, p)
         IN /\ Same(m, n)
            /\ \A q \in Page :
                 m.visible[q] <=> n.visible[q] \/ (Len(n.pages) >= 2 /\ q = NextOf(n))
<1>1. Steps \in Nat /\ 0 - p \in -Steps .. Steps /\ Steps - p \in -Steps .. Steps
      /\ p - Steps \in -Steps .. Steps /\ p \in -Steps .. Steps /\ -p = 0 - p
  BY DEF NavigationAssumption
<1>2. CASE Len(n.pages) < 2
  BY <1>2, StackTypes DEF Apply, ApplyPush, ApplyPop, Same, View
<1>3. CASE ~(Len(n.pages) < 2)
  <2>1. /\ TopOf(n) \in Page /\ NextOf(n) \in Page
        /\ Top(n) = TopOf(n) /\ Below(n) = NextOf(n) /\ Len(n.pages) >= 2
    BY <1>3, StackTypes
  <2> DEFINE t == TopOf(n)
             b == NextOf(n)
  <2> HIDE DEF t, b
  <2>2. ApplyPush(n, p) =
          [n EXCEPT !.visible = [n.visible EXCEPT ![b] = TRUE],
                    !.x = [[n.x EXCEPT ![b] = 0 - p] EXCEPT ![t] = Steps - p],
                    !.progress = p]
    BY <1>1, <1>3, <2>1 DEF ApplyPush, Place, Show, View, t, b
  <2>3. ApplyPop(n, p) =
          [n EXCEPT !.visible = [n.visible EXCEPT ![b] = TRUE],
                    !.x = [[n.x EXCEPT ![b] = p - Steps] EXCEPT ![t] = p],
                    !.progress = p]
    BY <1>1, <1>3, <2>1 DEF ApplyPop, Place, Show, View, t, b
  <2>4. Apply(n, kind, p) \in {ApplyPush(n, p), ApplyPop(n, p)}
    BY DEF Apply
  <2>5. /\ n.visible \in [Page -> BOOLEAN] /\ n.x \in [Page -> -Steps .. Steps]
    BY DEF View
  <2>6. t \in Page /\ b \in Page
    BY <2>1 DEF t, b
  <2>7. ASSUME NEW xs \in [Page -> -Steps .. Steps], NEW m,
               m = [n EXCEPT !.visible = [n.visible EXCEPT ![b] = TRUE], !.x = xs,
                             !.progress = p]
        PROVE  /\ Same(m, n)
               /\ \A q \in Page : m.visible[q] <=> n.visible[q] \/ q = b
    BY <2>5, <2>6, <2>7 DEF Same, View
  <2>8. /\ [[n.x EXCEPT ![b] = 0 - p] EXCEPT ![t] = Steps - p] \in [Page -> -Steps .. Steps]
        /\ [[n.x EXCEPT ![b] = p - Steps] EXCEPT ![t] = p] \in [Page -> -Steps .. Steps]
    BY <1>1, <2>5, <2>6
  <2> QED
    BY <2>1, <2>2, <2>3, <2>4, <2>7, <2>8 DEF b
<1> QED
  BY <1>2, <1>3

LEMMA RelayoutMoves ==
  ASSUME NavigationAssumption, NEW n \in View
  PROVE  LET m == Relayout(n)
         IN /\ Same(m, n)
            /\ ~n.transitioning => m = n
            /\ \A q \in Page :
                 m.visible[q] <=> n.visible[q]
                                  \/ (n.transitioning /\ Len(n.pages) >= 2 /\ q = NextOf(n))
<1>1. n.progress \in 0 .. Steps
  BY DEF View
<1> QED
  BY <1>1, ApplyMoves DEF Relayout, Same

\* At rest, with other pages, places and appearances.
Rest(n, ps, t, b, vs) ==
  [n EXCEPT !.transitioning = FALSE, !.transitionKind = "None",
            !.x = [[n.x EXCEPT ![t] = 0] EXCEPT ![b] = 0],
            !.visible = vs, !.pages = ps]

LEMMA Rested ==
  ASSUME NavigationAssumption, NEW n \in View, NEW ps \in Seq(Page),
         NEW t \in Page, NEW b \in Page, NEW vs \in [Page -> BOOLEAN],
         NEW m, m = Rest(n, ps, t, b, vs)
  PROVE  /\ m \in View /\ m.pages = ps /\ m.popLifecycleActive = n.popLifecycleActive
         /\ ~m.transitioning /\ m.transitionKind = "None"
         /\ m.x[t] = 0 /\ m.x[b] = 0
         /\ m.visible = vs
<1> DEFINE xs == [[n.x EXCEPT ![t] = 0] EXCEPT ![b] = 0]
<1>1. Steps \in Nat /\ 0 \in -Steps .. Steps
  BY DEF NavigationAssumption
<1>2. n.x \in [Page -> -Steps .. Steps] /\ n.visible \in [Page -> BOOLEAN]
  BY DEF View
<1>3. xs \in [Page -> -Steps .. Steps] /\ xs[t] = 0 /\ xs[b] = 0
  BY <1>1, <1>2
<1> HIDE DEF xs
<1>4. /\ m = [n EXCEPT !.transitioning = FALSE, !.transitionKind = "None", !.x = xs,
                       !.visible = vs, !.pages = ps]
  BY DEF xs, Rest
<1>5. m \in View /\ m.pages = ps /\ m.popLifecycleActive = n.popLifecycleActive
      /\ ~m.transitioning /\ m.transitionKind = "None" /\ m.x = xs /\ m.visible = vs
  BY <1>3, <1>4 DEF View
<1> QED
  BY <1>3, <1>5

LEMMA LandPushRests ==
  ASSUME NavigationAssumption, NEW n \in View, Len(n.pages) >= 2, TopOf(n) # NextOf(n)
  PROVE  LET m == LandPush(n)
         IN /\ m \in View /\ m.pages = n.pages /\ m.popLifecycleActive = n.popLifecycleActive
            /\ ~m.transitioning /\ m.transitionKind = "None"
            /\ m.x[TopOf(n)] = 0
            /\ m.visible = [n.visible EXCEPT ![NextOf(n)] = FALSE]
<1> DEFINE vs == [n.visible EXCEPT ![NextOf(n)] = FALSE]
<1>1. TopOf(n) \in Page /\ NextOf(n) \in Page /\ Steps \in Nat
      /\ 0 \in -Steps .. Steps
  BY StackTypes DEF NavigationAssumption
<1>2. LandPush(n) = Rest(n, n.pages, TopOf(n), NextOf(n), vs)
  <2>1. /\ Top(n) = TopOf(n) /\ Below(n) = NextOf(n) /\ Len(n.pages) > 1
    BY StackTypes
  <2> QED
    BY <1>1, <2>1 DEF LandPush, Place, Hide, AtRest, Rest, View
<1>3. n.pages \in Seq(Page) /\ vs \in [Page -> BOOLEAN]
  BY <1>1, StackTypes DEF View
<1> HIDE DEF vs
<1> DEFINE t == TopOf(n)
           b == NextOf(n)
           ps == n.pages
           m == LandPush(n)
<1> HIDE DEF t, b, ps, m
<1>4. /\ t \in Page /\ b \in Page /\ ps \in Seq(Page) /\ vs \in [Page -> BOOLEAN]
      /\ m = Rest(n, ps, t, b, vs)
  BY <1>1, <1>2, <1>3 DEF t, b, ps, m
<1>5. /\ m \in View /\ m.pages = ps /\ m.popLifecycleActive = n.popLifecycleActive
      /\ ~m.transitioning /\ m.transitionKind = "None"
      /\ m.x[t] = 0 /\ m.visible = vs
  BY <1>4, Rested
<1> QED
  BY <1>5 DEF vs, t, ps, m

LEMMA UndoPopRests ==
  ASSUME NavigationAssumption, NEW n \in View, Len(n.pages) >= 2, TopOf(n) # NextOf(n)
  PROVE  LET m == UndoPop(n)
         IN /\ m \in View /\ m.pages = n.pages /\ m.popLifecycleActive = n.popLifecycleActive
            /\ ~m.transitioning /\ m.transitionKind = "None"
            /\ m.x[TopOf(n)] = 0
            /\ m.visible = [n.visible EXCEPT ![NextOf(n)] = FALSE]
<1> DEFINE vs == [n.visible EXCEPT ![NextOf(n)] = FALSE]
<1>1. TopOf(n) \in Page /\ NextOf(n) \in Page /\ Steps \in Nat
      /\ 0 \in -Steps .. Steps
  BY StackTypes DEF NavigationAssumption
<1>2. UndoPop(n) = Rest(n, n.pages, TopOf(n), NextOf(n), vs)
  <2>1. /\ Top(n) = TopOf(n) /\ Below(n) = NextOf(n)
    BY StackTypes
  <2> QED
    BY <1>1, <2>1 DEF UndoPop, Place, Hide, AtRest, Rest, View
<1>3. n.pages \in Seq(Page) /\ vs \in [Page -> BOOLEAN]
  BY <1>1, StackTypes DEF View
<1> HIDE DEF vs
<1> DEFINE t == TopOf(n)
           b == NextOf(n)
           ps == n.pages
           m == UndoPop(n)
<1> HIDE DEF t, b, ps, m
<1>4. /\ t \in Page /\ b \in Page /\ ps \in Seq(Page) /\ vs \in [Page -> BOOLEAN]
      /\ m = Rest(n, ps, t, b, vs)
  BY <1>1, <1>2, <1>3 DEF t, b, ps, m
<1>5. /\ m \in View /\ m.pages = ps /\ m.popLifecycleActive = n.popLifecycleActive
      /\ ~m.transitioning /\ m.transitionKind = "None"
      /\ m.x[t] = 0 /\ m.visible = vs
  BY <1>4, Rested
<1> QED
  BY <1>5 DEF vs, t, ps, m

LEMMA LandPopRests ==
  ASSUME NavigationAssumption, NEW n \in View, Len(n.pages) >= 2
  PROVE  LET m == LandPop(n)
         IN /\ m \in View /\ m.popLifecycleActive = n.popLifecycleActive
            /\ m.pages = SubSeq(n.pages, 1, Len(n.pages) - 1)
            /\ ~m.transitioning /\ m.transitionKind = "None"
            /\ m.x[NextOf(n)] = 0
            /\ m.visible = [n.visible EXCEPT ![NextOf(n)] = TRUE]
<1>1. NextOf(n) \in Page /\ Steps \in Nat /\ 0 \in -Steps .. Steps
  BY StackTypes DEF NavigationAssumption
<1> DEFINE front == SubSeq(n.pages, 1, Len(n.pages) - 1)
           vs == [n.visible EXCEPT ![NextOf(n)] = TRUE]
<1>2. LandPop(n) = Rest(n, front, NextOf(n), NextOf(n), vs)
  <2>1. /\ Below(n) = NextOf(n)
    BY StackTypes
  <2> QED
    BY <1>1, <2>1 DEF LandPop, Place, Show, AtRest, Front, Rest, View
<1>3. front \in Seq(Page)
  <2>1. n.pages \in Seq(Page) /\ n.pages # << >>
    BY StackTypes
  <2> QED
    BY <2>1, WithoutLast
<1>4. vs \in [Page -> BOOLEAN]
  BY <1>1 DEF View
<1> DEFINE b == NextOf(n)
           m == LandPop(n)
<1> HIDE DEF front, vs, b, m
<1>5. b \in Page /\ m = Rest(n, front, b, b, vs)
  BY <1>1, <1>2 DEF b, m
<1>6. /\ m \in View /\ m.popLifecycleActive = n.popLifecycleActive /\ m.pages = front
      /\ ~m.transitioning /\ m.transitionKind = "None"
      /\ m.x[b] = 0 /\ m.visible = vs
  BY <1>3, <1>4, <1>5, Rested
<1> QED
  BY <1>6 DEF front, vs, b, m

LEMMA DestroyLeaves ==
  ASSUME NavigationAssumption, NEW n \in View, NEW ps
  PROVE  LET m == Destroy(n, ps)
         IN /\ Same(m, n)
            /\ \A q \in Page \ ps : m.x[q] = n.x[q] /\ m.visible[q] = n.visible[q]
<1>1. Steps \in Nat /\ 0 \in -Steps .. Steps
  BY DEF NavigationAssumption
<1>2. [p \in Page |-> IF p \in ps THEN 0 ELSE n.x[p]] \in [Page -> -Steps .. Steps]
      /\ [p \in Page |-> p \in ps \/ n.visible[p]] \in [Page -> BOOLEAN]
  BY <1>1 DEF View
<1> QED
  BY <1>2 DEF Destroy, Same, View

-----------------------------------------------------------------------------
(* Calls *)

LEMMA CallTypes ==
  ASSUME NavInv
  PROVE  /\ calls \in Seq(Call) /\ Len(calls) \in Nat
         /\ calls # << >> =>
              /\ Head(calls) = calls[1] /\ calls[1] \in Call /\ calls[Len(calls)] \in Call
              /\ Here = calls[1].at /\ There = calls[Len(calls)].at /\ Len(calls) >= 1
         /\ calls = << >> => Here = "none" /\ There = "none"
         /\ Here = "none" => calls = << >>
         /\ Here \in Stand => calls # << >>
         /\ Here \in Stand \cup {"none"} /\ There \in Stand \cup {"none"}
         /\ Here \in Ending => Len(calls) = 1
         /\ Len(calls) = 1 => There = Here
<1>1. calls \in Seq(Call)
  BY DEF NavInv, NavTypes
<1>2. ASSUME calls # << >>
      PROVE  /\ Head(calls) = calls[1] /\ calls[1] \in Call /\ calls[Len(calls)] \in Call
             /\ Len(calls) >= 1
  BY <1>1, <1>2
<1>3. \A c \in Call : c.at \in Stand
  BY DEF Call
<1>4. "none" \notin Stand
  BY DEF Stand, Closing, Pushing, Ending
<1>5. \A i \in 1 .. Len(calls) : calls[i].at \in Ending => i = Len(calls)
  BY DEF NavInv, CallsNest
<1>6. Ending \subseteq Stand
  BY DEF Stand
<1>7. CASE calls = << >>
  BY <1>4, <1>6, <1>7 DEF Here, There
<1>8. CASE calls # << >>
  <2>1. /\ Here = calls[1].at /\ There = calls[Len(calls)].at /\ Here \in Stand /\ There \in Stand
    BY <1>2, <1>3, <1>8 DEF Here, There
  <2>2. Len(calls) \in Nat /\ 1 \in 1 .. Len(calls)
    BY <1>1, <1>2, <1>8
  <2>3. Here \in Ending => 1 = Len(calls)
    BY <1>5, <2>1, <2>2
  <2> QED
    BY <1>1, <1>2, <1>4, <1>8, <2>1, <2>2, <2>3
<1> QED
  BY <1>7, <1>8

\* A callback of c starts above the calls in rest.
LEMMA Dispatched ==
  ASSUME NavInv, NEW c \in Call, NEW rest \in Seq(Call), Dispatch(c, rest),
         Target(c) \in Page, Event(c) \in Lives
  PROVE  /\ calls' \in Seq(Call) /\ Len(calls') = Len(rest) + 1
         /\ calls'[1].at = c.at /\ calls'[1].page = c.page /\ calls'[1].below = c.below
         /\ calls'[1].animated = c.animated
         /\ Event(c) \in {"WillEnter", "WillLeave"} =>
              calls'[1].was = life[Target(c)]
         /\ \A i \in 1 .. Len(rest) : calls'[i + 1] = rest[i]
         /\ life' = [life EXCEPT ![Target(c)] = Event(c)]
         /\ life' \in [Page -> Lives]
<1> DEFINE was == IF Event(c) \in {"WillEnter", "WillLeave"}
                  THEN life[Target(c)] ELSE "new"
           d == [c EXCEPT !.was = was]
<1>1. life \in [Page -> Lives]
  BY DEF NavInv, NavTypes
<1>2. was \in Lives
  BY <1>1 DEF Lives
<1>3. calls' = <<d>> \o rest /\ life' = [life EXCEPT ![Target(c)] = Event(c)]
  BY DEF Dispatch
<1> HIDE DEF was
<1>4. /\ d \in Call /\ d.at = c.at /\ d.page = c.page /\ d.below = c.below
      /\ d.animated = c.animated /\ d.was = was
  BY <1>2 DEF Call
<1> HIDE DEF d
<1>5. <<d>> \in Seq(Call) /\ Len(<<d>>) = 1 /\ <<d>>[1] = d
  BY <1>4
<1>6. /\ calls' \in Seq(Call) /\ Len(calls') = Len(rest) + 1 /\ calls'[1] = d
      /\ \A i \in 1 .. Len(rest) : calls'[i + 1] = rest[i]
  BY <1>3, <1>5
<1> QED
  BY <1>1, <1>3, <1>4, <1>6 DEF was

\* The stack with c on top of rest is nested.
LEMMA Nested ==
  ASSUME NEW rest \in Seq(Call), NEW at \in Stand,
         calls' \in Seq(Call), Len(calls') = Len(rest) + 1, calls'[1].at = at,
         \A i \in 1 .. Len(rest) : calls'[i + 1] = rest[i],
         \A i \in 1 .. Len(rest) :
           rest[i].at \in Closing /\ (rest[i].at \in Ending => i = Len(rest)),
         at \in Ending => rest = << >>
  PROVE  /\ CallsNest' /\ calls' # << >> /\ Here' = at
         /\ rest = << >> => There' = at /\ Len(calls') = 1
         /\ rest # << >> => /\ calls'[Len(calls')] = rest[Len(rest)]
                            /\ There' = rest[Len(rest)].at
<1>1. Len(rest) \in Nat /\ (rest = << >> <=> Len(rest) = 0)
  OBVIOUS
<1>2. \A i \in 2 .. Len(calls') : i - 1 \in 1 .. Len(rest) /\ calls'[i] = rest[i - 1]
  <2>1. ASSUME NEW i \in 2 .. Len(calls')
        PROVE  i - 1 \in 1 .. Len(rest) /\ calls'[i] = rest[i - 1]
    <3>1. i - 1 \in 1 .. Len(rest) /\ (i - 1) + 1 = i
      BY <1>1
    <3> QED
      BY <3>1
  <2> QED
    BY <2>1
<1>3. \A i \in 2 .. Len(calls') : calls'[i].at \in Closing
  BY <1>2
<1>4. ASSUME NEW i \in 1 .. Len(calls'), calls'[i].at \in Ending PROVE i = Len(calls')
  <2>1. CASE i = 1
    BY <1>1, <1>4, <2>1
  <2>2. CASE i # 1
    <3>1. i \in 2 .. Len(calls')
      BY <1>1, <2>2
    <3>2. i - 1 = Len(rest)
      BY <1>2, <1>4, <3>1
    <3> QED
      BY <1>1, <3>1, <3>2
  <2> QED
    BY <2>1, <2>2
<1>5. CallsNest'
  BY <1>3, <1>4 DEF CallsNest
<1>6. calls' # << >> /\ Here' = at
  BY <1>1 DEF Here
<1>7. rest = << >> => There' = at /\ Len(calls') = 1
  BY <1>1, <1>6 DEF There
<1>8. ASSUME rest # << >>
      PROVE  calls'[Len(calls')] = rest[Len(rest)] /\ There' = rest[Len(rest)].at
  <2>1. Len(rest) \in 1 .. Len(rest)
    BY <1>1, <1>8
  <2>2. calls'[Len(calls')] = rest[Len(rest)]
    BY <2>1
  <2> QED
    BY <1>6, <2>2 DEF There
<1> QED
  BY <1>5, <1>6, <1>7, <1>8

LEMMA CallBegins ==
  ASSUME NavInv, NEW c \in Call, Dispatch(c, calls), Target(c) \in Page,
         Here \in Closing \cup {"none"}, c.at \in Ending => calls = << >>
  PROVE  /\ calls' \in Seq(Call) /\ CallsNest' /\ calls' # << >> /\ Here' = c.at
         /\ calls = << >> => There' = c.at /\ Len(calls') = 1
         /\ calls # << >> => There' = There /\ calls'[Len(calls')] = calls[Len(calls)]
         /\ calls'[1].at = c.at /\ calls'[1].page = c.page /\ calls'[1].below = c.below
         /\ calls'[1].animated = c.animated
         /\ Event(c) \in {"WillEnter", "WillLeave"} =>
              calls'[1].was = life[Target(c)]
         /\ life' = [life EXCEPT ![Target(c)] = Event(c)]
         /\ life' \in [Page -> Lives]
         /\ Len(calls') = Len(calls) + 1
<1>1. Event(c) \in Lives /\ c.at \in Stand
  BY Events DEF Lives, Stand, Closing, Pushing, Ending
<1>2. calls \in Seq(Call)
  BY CallTypes
<1>3. ASSUME NEW i \in 1 .. Len(calls)
      PROVE  calls[i].at \in Closing /\ (calls[i].at \in Ending => i = Len(calls))
  <2>1. calls[i].at \in Ending => i = Len(calls)
    BY DEF NavInv, CallsNest
  <2>2. calls[i].at \in Closing
    <3>1. CASE i = 1
      <4>1. calls # << >>
        BY <1>2
      <4>2. Here = calls[1].at /\ Here # "none"
        BY <4>1, CallTypes DEF Stand, Closing, Pushing, Ending, Call
      <4> QED
        BY <3>1, <4>2
    <3>2. CASE i # 1
      BY <1>2, <3>2 DEF NavInv, CallsNest
    <3> QED
      BY <3>1, <3>2
  <2> QED
    BY <2>1, <2>2
<1>4. /\ calls' \in Seq(Call) /\ Len(calls') = Len(calls) + 1
      /\ calls'[1].at = c.at /\ calls'[1].page = c.page /\ calls'[1].below = c.below
      /\ calls'[1].animated = c.animated
      /\ Event(c) \in {"WillEnter", "WillLeave"} =>
           calls'[1].was = life[Target(c)]
      /\ \A i \in 1 .. Len(calls) : calls'[i + 1] = calls[i]
      /\ life' = [life EXCEPT ![Target(c)] = Event(c)]
      /\ life' \in [Page -> Lives]
  BY <1>1, <1>2, Dispatched
<1>5. /\ CallsNest' /\ calls' # << >> /\ Here' = c.at
      /\ calls = << >> => There' = c.at /\ Len(calls') = 1
      /\ calls # << >> => /\ calls'[Len(calls')] = calls[Len(calls)]
                          /\ There' = calls[Len(calls)].at
  BY <1>1, <1>2, <1>3, <1>4, Nested
<1> QED
  BY <1>4, <1>5, CallTypes

\* What is below the innermost call.
LEMMA CallsBelow ==
  ASSUME NavInv, calls # << >>
  PROVE  /\ Tail(calls) \in Seq(Call) /\ Len(Tail(calls)) = Len(calls) - 1
         /\ \A i \in 1 .. Len(Tail(calls)) :
              /\ Tail(calls)[i] = calls[i + 1]
              /\ Tail(calls)[i].at \in Closing
              /\ Tail(calls)[i].at \in Ending => i = Len(Tail(calls))
         /\ Tail(calls) = << >> <=> Len(calls) = 1
         /\ Tail(calls) # << >> => Tail(calls)[Len(Tail(calls))] = calls[Len(calls)]
<1>1. calls \in Seq(Call) /\ Len(calls) \in Nat /\ Len(calls) >= 1
  BY CallTypes
<1>2. /\ Tail(calls) \in Seq(Call) /\ Len(Tail(calls)) = Len(calls) - 1
      /\ \A i \in 1 .. Len(Tail(calls)) : Tail(calls)[i] = calls[i + 1]
  BY <1>1, HeadTailProperties
<1>3. /\ \A i \in 2 .. Len(calls) : calls[i].at \in Closing
      /\ \A i \in 1 .. Len(calls) : calls[i].at \in Ending => i = Len(calls)
  BY DEF NavInv, CallsNest
<1>4. Tail(calls) = << >> <=> Len(calls) = 1
  BY <1>1, <1>2
<1>5. Tail(calls) # << >> => Tail(calls)[Len(Tail(calls))] = calls[Len(calls)]
  BY <1>1, <1>2, <1>4
<1>6. ASSUME NEW i \in 1 .. Len(Tail(calls))
      PROVE  /\ Tail(calls)[i] = calls[i + 1]
             /\ Tail(calls)[i].at \in Closing
             /\ Tail(calls)[i].at \in Ending => i = Len(Tail(calls))
  <2>1. i + 1 \in 2 .. Len(calls) /\ i + 1 \in 1 .. Len(calls) /\ Tail(calls)[i] = calls[i + 1]
    BY <1>1, <1>2
  <2>2. calls[i + 1].at \in Closing /\ (calls[i + 1].at \in Ending => i + 1 = Len(calls))
    BY <1>3, <2>1
  <2>3. i \in Nat /\ Len(calls) \in Nat /\ Len(Tail(calls)) = Len(calls) - 1
    BY <1>1, <1>2
  <2>4. i + 1 = Len(calls) => i = Len(Tail(calls))
    <3> DEFINE m == Len(calls)
               n == Len(Tail(calls))
    <3>1. i \in Nat /\ m \in Nat /\ n = m - 1
      BY <2>3
    <3> HIDE DEF m, n
    <3>2. i + 1 = m => i = n
      BY <3>1
    <3> QED
      BY <3>2 DEF m, n
  <2>5. Tail(calls)[i] = calls[i + 1] /\ Tail(calls)[i].at = calls[i + 1].at
    BY <2>1
  <2> QED
    BY <2>2, <2>4, <2>5, Zenon
<1> QED
  BY <1>2, <1>4, <1>5, <1>6

\* The innermost call comes to its next callback.
LEMMA CallGoesOn ==
  ASSUME NavInv, calls # << >>, NEW at \in Stand, GoOn(at),
         NEW c, c = [calls[1] EXCEPT !.at = at], Target(c) \in Page,
         at \in Ending => Len(calls) = 1
  PROVE  /\ calls' \in Seq(Call) /\ CallsNest' /\ calls' # << >> /\ Here' = at
         /\ Len(calls) = 1 => There' = at
         /\ Len(calls) # 1 => There' = There /\ calls'[Len(calls')] = calls[Len(calls)]
         /\ calls'[1].at = at /\ calls'[1].page = calls[1].page
         /\ calls'[1].below = calls[1].below /\ calls'[1].animated = calls[1].animated
         /\ Event(c) \in {"WillEnter", "WillLeave"} =>
              calls'[1].was = life[Target(c)]
         /\ life' = [life EXCEPT ![Target(c)] = Event(c)]
         /\ life' \in [Page -> Lives]
         /\ Len(calls') = Len(calls)
<1>1. Head(calls) = calls[1] /\ calls[1] \in Call
  BY CallTypes
<1>2. /\ c \in Call /\ c.at = at /\ c.page = calls[1].page /\ c.below = calls[1].below
      /\ c.animated = calls[1].animated
  BY <1>1 DEF Call
<1>3. Event(c) \in Lives
  BY <1>2, Events DEF Lives, Stand, Closing, Pushing, Ending
<1>4. Dispatch(c, Tail(calls))
  BY <1>1 DEF GoOn
<1>5. Tail(calls) \in Seq(Call) /\ Len(Tail(calls)) = Len(calls) - 1 /\ Len(calls) \in Nat
  BY CallsBelow, CallTypes
<1>6. /\ calls' \in Seq(Call) /\ Len(calls') = Len(Tail(calls)) + 1
      /\ calls'[1].at = c.at /\ calls'[1].page = c.page /\ calls'[1].below = c.below
      /\ calls'[1].animated = c.animated
      /\ Event(c) \in {"WillEnter", "WillLeave"} =>
           calls'[1].was = life[Target(c)]
      /\ \A i \in 1 .. Len(Tail(calls)) : calls'[i + 1] = Tail(calls)[i]
      /\ life' = [life EXCEPT ![Target(c)] = Event(c)]
      /\ life' \in [Page -> Lives]
  BY <1>2, <1>3, <1>4, <1>5, Dispatched
<1>7. /\ CallsNest' /\ calls' # << >> /\ Here' = at
      /\ Tail(calls) = << >> => There' = at /\ Len(calls') = 1
      /\ Tail(calls) # << >> => /\ calls'[Len(calls')] = Tail(calls)[Len(Tail(calls))]
                                /\ There' = Tail(calls)[Len(Tail(calls))].at
  BY <1>2, <1>5, <1>6, CallsBelow, Nested
<1>8. /\ Len(calls') = Len(calls)
      /\ Len(calls) = 1 => There' = at
      /\ Len(calls) # 1 => There' = There /\ calls'[Len(calls')] = calls[Len(calls)]
  <2>1. Tail(calls) = << >> <=> Len(calls) = 1
    BY CallsBelow
  <2>2. Tail(calls) # << >> => Tail(calls)[Len(Tail(calls))] = calls[Len(calls)]
    BY CallsBelow
  <2>3. There = calls[Len(calls)].at
    BY CallTypes
  <2> HIDE DEF There
  <2>4. Len(calls') = Len(calls)
    BY <1>5, <1>6
  <2> QED
    BY <1>7, <2>1, <2>2, <2>3, <2>4
<1> QED
  BY <1>2, <1>6, <1>7, <1>8

\* The innermost call returns.
LEMMA CallEnds ==
  ASSUME NavInv, calls # << >>, calls' = Tail(calls)
  PROVE  /\ calls' \in Seq(Call) /\ CallsNest' /\ Here' \in Closing \cup {"none"}
         /\ Len(calls) = 1 => calls' = << >> /\ Here' = "none" /\ There' = "none"
         /\ Len(calls) # 1 => /\ calls' # << >> /\ There' = There
                              /\ calls'[Len(calls')] = calls[Len(calls)]
<1>0. calls' \in Seq(Call)
  BY CallsBelow
<1>1. /\ calls' \in Seq(Call) /\ Len(calls') = Len(calls) - 1 /\ Len(calls) \in Nat
      /\ \A i \in 1 .. Len(calls') :
           /\ calls'[i].at \in Closing
           /\ calls'[i].at \in Ending => i = Len(calls')
      /\ calls' = << >> <=> Len(calls) = 1
      /\ calls' # << >> => calls'[Len(calls')] = calls[Len(calls)]
  BY CallsBelow, CallTypes
<1>2. CallsNest'
  <2>1. \A i \in 2 .. Len(calls') : calls'[i].at \in Closing
    <3>1. Len(calls') \in Nat
      BY <1>0
    <3>2. \A i \in 2 .. Len(calls') : i \in 1 .. Len(calls')
      BY <3>1
    <3> QED
      BY <1>1, <3>2
  <2>2. \A i \in 1 .. Len(calls') : calls'[i].at \in Ending => i = Len(calls')
    BY <1>1
  <2> QED
    BY <2>1, <2>2 DEF CallsNest
<1>3. Here' \in Closing \cup {"none"}
  <2>1. calls' # << >> => 1 \in 1 .. Len(calls')
    <3>1. calls' \in Seq(Call)
      BY <1>0
    <3> QED
      BY <3>1
  <2>2. calls' # << >> => calls'[1].at \in Closing
    BY <1>1, <2>1
  <2> QED
    BY <2>2 DEF Here
<1> QED
  BY <1>1, <1>2, <1>3, CallTypes DEF Here, There

-----------------------------------------------------------------------------
(* The steps *)

LEMMA RoutesStay ==
  ASSUME NavInv, nav'.pages = nav.pages, routes' = routes, made' \in Int, made' >= made,
         Here \in Pushing <=> Here' \in Pushing,
         Here \in Pushing => calls'[1].page = calls[1].page,
         There \in Removing <=> There' \in Removing,
         There \in Removing => calls'[Len(calls')].page = calls[Len(calls)].page
  PROVE  RoutesMatch'
<1>1. Based' = Based
  BY DEF Based
<1>2. Ascending(routes') /\ \A i \in 1 .. Len(routes') : routes'[i] <= made'
  <2>1. made \in Nat /\ \A i \in 1 .. Len(routes) : routes[i] \in Nat /\ routes[i] <= made
    BY RouteNumbers
  <2>2. \A i \in 1 .. Len(routes) : routes[i] <= made'
    BY <2>1
  <2> QED
    BY <2>2 DEF NavInv, RoutesMatch
<1>3. Here' \in Pushing => routes' # << >> /\ routes'[Len(routes')] = calls'[1].page
  BY DEF NavInv, RoutesMatch
<1>4. There' \notin Removing => nav'.pages = Based'
  BY <1>1 DEF NavInv, RoutesMatch
<1>5. There' \in Removing =>
        \E k \in 1 .. Len(Based') :
          Based'[k] = calls'[Len(calls')].page /\ nav'.pages = Without(Based', k)
  BY <1>1 DEF NavInv, RoutesMatch
<1> QED
  BY <1>2, <1>3, <1>4, <1>5 DEF RoutesMatch, Ascending, Without

LEMMA VetoPopLeaveKeeps ==
  ASSUME NavHypothesis, NavInv, VetoPopLeave
  PROVE  NavInv'
<1> USE DEF Closing, Pushing, Ending, Removing
<1>1. /\ calls # << >> /\ Here = "popLeave"
      /\ calls' = Tail(calls) /\ life' = [life EXCEPT ![Upper] = calls[1].was]
      /\ nav' = nav /\ routes' = routes /\ anims' = anims /\ running' = running
      /\ made' = made /\ spoiled' = spoiled
  BY CallTypes DEF VetoPopLeave, NavInv, CallIsAnnounced
<1>2. /\ Len(nav.pages) >= 2 /\ ~nav.transitioning /\ ~nav.popLifecycleActive
      /\ There \notin Ending
  BY <1>1 DEF NavInv, CallIsAnnounced, MotionIsWhole
<1>3. /\ calls' \in Seq(Call) /\ CallsNest' /\ Here' \in Closing \cup {"none"}
      /\ There' \notin Ending
  BY <1>1, <1>2, CallEnds
<1>4. NavTypes'
  <2>1. calls[1].was \in Lives /\ Upper \in Page
    BY <1>1, <1>2, CallTypes, TopPages DEF Call
  <2> QED
    BY <1>1, <1>3, <2>1 DEF NavInv, NavTypes
<1>5. RoutesMatch'
  BY <1>1, <1>2, <1>3, RoutesStay DEF NavInv, NavTypes
<1>6. MotionIsWhole'
  BY <1>1, <1>2, <1>3 DEF NavInv, MotionIsWhole, Moves
<1>7. CallIsAnnounced'
  BY <1>1, <1>2, <1>3 DEF NavInv, CallIsAnnounced
<1>8. ASSUME ~spoiled' PROVE TicksBelong' /\ PagesInPlace' /\ PagesTold'
  <2>1. TicksBelong /\ PagesInPlace /\ PagesTold
    BY <1>1, <1>8 DEF NavInv
  <2>2. TicksBelong'
    BY <1>1, <2>1 DEF TicksBelong, Moves
  <2>3. PagesInPlace'
    BY <1>1, <2>1 DEF PagesInPlace, Upper, Lower
  <2>4. life \in [Page -> Lives]
    BY DEF NavInv, NavTypes
  <2>5. PagesTold'
    BY <1>1, <1>2, <1>3, <2>1, <2>4, TopPages DEF PagesTold, Upper, Lower
  <2> QED
    BY <2>2, <2>3, <2>5
<1> QED
  BY <1>3, <1>4, <1>5, <1>6, <1>7, <1>8 DEF NavInv

\* Where the application may call.
LEMMA Applies ==
  ASSUME NavHypothesis, NavInv, InApplication
  PROVE  /\ Here \in Closing \cup {"none"} /\ Here \notin Pushing
         /\ Here \notin {"popLeave", "popEnter", "left", "popLeft", "undoLeft"}
         /\ calls # << >> => Here \in Closing
  BY CallTypes DEF InApplication, Idle, NavHypothesis, Closing, Pushing

\* The view moves, but nobody is told and no page comes or goes.
LEMMA NothingIsTold ==
  ASSUME NavInv, Same(nav', nav), calls' = calls, routes' = routes,
         made' \in Int, made' >= made,
         life' = life \/ Here \in Closing \cup {"none"},
         \A i \in 1 .. Len(nav.pages) : life'[nav.pages[i]] = life[nav.pages[i]]
  PROVE  /\ CallsNest' /\ RoutesMatch' /\ MotionIsWhole' /\ CallIsAnnounced'
         /\ PagesTold => PagesTold'
<1>1. Here' = Here /\ There' = There
  BY DEF Here, There
<1>2. CallsNest'
  BY DEF NavInv, CallsNest
<1>3. RoutesMatch'
  BY <1>1, RoutesStay DEF Same
<1>4. nav'.pages = nav.pages /\ Upper' = Upper /\ Lower' = Lower
  BY DEF Same, Upper, Lower
<1>5. /\ nav.pages # << >> => life'[Upper] = life[Upper]
      /\ Len(nav.pages) >= 2 => life'[Lower] = life[Lower]
  <2>1. Len(nav.pages) \in Nat /\ (nav.pages # << >> => Len(nav.pages) >= 1)
    BY TopPages
  <2> QED
    BY <2>1 DEF Upper, Lower
<1>6. MotionIsWhole'
  <2>1. nav.transitioning => Len(nav.pages) >= 2 /\ nav.pages # << >>
    BY TopPages DEF NavInv, MotionIsWhole
  <2> QED
    BY <1>1, <1>4, <1>5, <2>1 DEF NavInv, MotionIsWhole, Moves, Same
<1>7. CallIsAnnounced'
  <2>1. Len(nav.pages) >= 2 => nav.pages # << >>
    BY TopPages
  <2>2. CASE life' = life
    BY <1>1, <1>4, <2>2 DEF NavInv, CallIsAnnounced, Same
  <2>3. CASE Here \in Closing \cup {"none"}
    BY <1>1, <1>4, <1>5, <2>1, <2>3 DEF NavInv, CallIsAnnounced, Same, Closing
  <2> QED
    BY <2>2, <2>3
<1>8. ASSUME PagesTold PROVE PagesTold'
  <2>1. Len(nav.pages) >= 2 => nav.pages # << >>
    BY TopPages
  <2>2. \A i \in 1 .. Len(nav.pages) : i < Len(nav.pages) - 1 => life'[nav.pages[i]] = "DidLeave"
    BY <1>8 DEF PagesTold
  <2> QED
    BY <1>1, <1>4, <1>5, <1>8, <2>1, <2>2 DEF PagesTold, Same
<1> QED
  BY <1>2, <1>3, <1>6, <1>7, <1>8

LEMMA RebuildKeeps ==
  ASSUME NavHypothesis, NavInv, Rebuild
  PROVE  NavInv'
<1>1. /\ nav' = Relayout(nav) /\ calls' = calls /\ routes' = routes /\ anims' = anims
      /\ running' = running /\ life' = life /\ made' = made /\ spoiled' = spoiled
  BY DEF Rebuild
<1>2. nav \in View /\ made \in Int /\ made >= made
  BY DEF NavInv, NavTypes
<1>3. /\ Same(nav', nav)
      /\ ~nav.transitioning => nav' = nav
      /\ \A q \in Page :
           nav'.visible[q] <=> nav.visible[q]
                               \/ (nav.transitioning /\ Len(nav.pages) >= 2 /\ q = Lower)
  BY <1>1, <1>2, RelayoutMoves DEF NavHypothesis, Lower, NextOf
<1>4. CallsNest' /\ RoutesMatch' /\ MotionIsWhole' /\ CallIsAnnounced' /\ (PagesTold => PagesTold')
  BY <1>1, <1>2, <1>3, NothingIsTold
<1>5. NavTypes'
  BY <1>1, <1>3 DEF NavInv, NavTypes, Same
<1>6. ASSUME ~spoiled' PROVE TicksBelong' /\ PagesInPlace' /\ PagesTold'
  <2>1. TicksBelong /\ PagesInPlace /\ PagesTold
    BY <1>1, <1>6 DEF NavInv
  <2>2. TicksBelong'
    BY <1>1, <1>3, <2>1 DEF TicksBelong, Moves, Same
  <2>3. PagesInPlace'
    <3>1. CASE ~nav.transitioning
      <4>1. nav' = nav
        BY <1>3, <3>1
      <4> QED
        BY <4>1, <2>1 DEF PagesInPlace, Upper, Lower
    <3>2. CASE nav.transitioning
      <4>1. nav'.pages = nav.pages /\ nav'.transitioning
        BY <1>3, <3>2 DEF Same
      <4>2. \A i \in 1 .. Len(nav.pages) : nav.pages[i] \in Page
        BY TopPages
      <4>3. \A i \in 1 .. Len(nav.pages) :
              i < Len(nav.pages) - 1 => ~nav'.visible[nav.pages[i]]
        BY <1>3, <2>1, <4>2, TopPages DEF PagesInPlace
      <4>4. nav.pages # << >> => nav'.visible[Upper]
        BY <1>3, <2>1, TopPages DEF PagesInPlace
      <4> QED
        BY <4>1, <4>3, <4>4 DEF PagesInPlace, Upper
    <3> QED
      BY <3>1, <3>2
  <2> QED
    BY <1>4, <2>1, <2>2, <2>3
<1> QED
  BY <1>4, <1>5, <1>6 DEF NavInv

LEMMA RefusePushKeeps ==
  ASSUME NavHypothesis, NavInv, RefusePush
  PROVE  NavInv'
<1>1. /\ nav' = Relayout(nav) /\ calls' = calls /\ routes' = routes /\ anims' = anims
      /\ running' = running /\ life' = [life EXCEPT ![made'] = "gone"] /\ made' = made + 1
      /\ made < MaxPages /\ nav.transitioning
      /\ spoiled' = spoiled /\ Here \in Closing \cup {"none"}
  BY Applies DEF RefusePush
<1>2. nav \in View /\ made \in Nat /\ MaxPages \in Nat
  BY DEF NavInv, NavTypes, NavHypothesis, NavigationAssumption
<1>3. /\ Same(nav', nav)
      /\ \A q \in Page :
           nav'.visible[q] <=> nav.visible[q] \/ (Len(nav.pages) >= 2 /\ q = Lower)
  BY <1>1, <1>2, RelayoutMoves DEF NavHypothesis, Lower, NextOf
<1>4. /\ made' \in Int /\ made' >= made /\ made' \in 0 .. MaxPages
      /\ life' \in [Page -> Lives]
      /\ \A i \in 1 .. Len(nav.pages) : life'[nav.pages[i]] = life[nav.pages[i]]
  <2>1. life \in [Page -> Lives] /\ "gone" \in Lives
    BY DEF NavInv, NavTypes, Lives
  <2>2. \A i \in 1 .. Len(nav.pages) : nav.pages[i] \in Page /\ nav.pages[i] # made + 1
    <3>1. ASSUME NEW i \in 1 .. Len(nav.pages)
          PROVE  nav.pages[i] \in Page /\ nav.pages[i] # made + 1
      <4>1. nav.pages[i] \in Page /\ nav.pages[i] <= made
        BY PagesAreApart
      <4>2. nav.pages[i] \in Nat
        BY <4>1 DEF Page
      <4> QED
        BY <1>2, <4>1, <4>2
    <3> QED
      BY <3>1
  <2>3. made' \in Int /\ made' >= made /\ made' \in 0 .. MaxPages
    BY <1>1, <1>2
  <2> QED
    BY <1>1, <2>1, <2>2, <2>3
<1>5. CallsNest' /\ RoutesMatch' /\ MotionIsWhole' /\ CallIsAnnounced' /\ (PagesTold => PagesTold')
  BY <1>1, <1>3, <1>4, NothingIsTold
<1>6. NavTypes'
  BY <1>1, <1>3, <1>4 DEF NavInv, NavTypes, Same
<1>7. ASSUME ~spoiled' PROVE TicksBelong' /\ PagesInPlace' /\ PagesTold'
  <2>1. TicksBelong /\ PagesInPlace /\ PagesTold
    BY <1>1, <1>7 DEF NavInv
  <2>2. TicksBelong'
    BY <1>1, <1>3, <2>1 DEF TicksBelong, Moves, Same
  <2>3. PagesInPlace'
    <3>1. nav'.pages = nav.pages /\ nav'.transitioning
      BY <1>1, <1>3 DEF Same
    <3>2. \A i \in 1 .. Len(nav.pages) : nav.pages[i] \in Page
      BY TopPages
    <3>3. \A i \in 1 .. Len(nav.pages) :
            i < Len(nav.pages) - 1 => ~nav'.visible[nav.pages[i]]
      BY <1>3, <2>1, <3>2, TopPages DEF PagesInPlace
    <3>4. nav.pages # << >> => nav'.visible[Upper]
      BY <1>3, <2>1, TopPages DEF PagesInPlace
    <3> QED
      BY <3>1, <3>3, <3>4 DEF PagesInPlace, Upper
  <2> QED
    BY <1>5, <2>1, <2>2, <2>3
<1> QED
  BY <1>5, <1>6, <1>7 DEF NavInv

\* push: the route is there, the page is not yet.
LEMMA PushKeeps ==
  ASSUME NavHypothesis, NavInv, NEW animated \in BOOLEAN, Push(animated)
  PROVE  NavInv'
<1> DEFINE c == IF nav.pages = << >> THEN NewCall("enter", made', 0, animated)
                ELSE NewCall("leave", made', Upper, animated)
<1>1. /\ nav' = nav /\ anims' = anims /\ running' = running /\ spoiled' = spoiled
      /\ made' = made + 1 /\ routes' = Append(routes, made')
      /\ made < MaxPages /\ ~nav.transitioning /\ Dispatch(c, calls)
  <2>1. Top(nav) = Upper /\ NoPage = 0
    BY StackTypes DEF NavInv, NavTypes, TopOf, Upper, NoPage
  <2> QED
    BY <2>1 DEF Push
<1>2. Here \in Closing \cup {"none"} /\ Here \notin Pushing
  BY Applies DEF Push
<1>3. /\ made \in Nat /\ MaxPages \in Nat /\ routes \in Seq(Page)
      /\ life \in [Page -> Lives]
  BY DEF NavInv, NavTypes, NavHypothesis, NavigationAssumption
<1>4. made' \in Page /\ made' \in 0 .. MaxPages /\ made' \in Nat
  BY <1>1, <1>3 DEF Page
<1>5. /\ c \in Call /\ c.page = made' /\ Target(c) \in Page
      /\ nav.pages = << >> => /\ c.at = "enter" /\ c.below = 0
                              /\ Target(c) = made' /\ Event(c) = "WillEnter"
      /\ nav.pages # << >> => /\ c.at = "leave" /\ c.below = Upper
                              /\ Target(c) = Upper /\ Event(c) = "WillLeave"
  <2>1. "enter" \in Stand /\ "leave" \in Stand /\ "new" \in Lives
    BY DEF Stand, Pushing, Lives
  <2>2. nav.pages # << >> => Upper \in Page
    BY TopPages
  <2>3. c \in Call
    BY <1>4, <2>1, <2>2 DEF Call, NewCall
  <2>4. /\ c.page = made'
        /\ nav.pages = << >> => c.at = "enter" /\ c.below = 0
        /\ nav.pages # << >> => c.at = "leave" /\ c.below = Upper
    BY DEF NewCall
  <2> HIDE DEF c
  <2> QED
    BY <1>4, <2>2, <2>3, <2>4, Events
<1> HIDE DEF c
<1>6. c.at \in {"enter", "leave"} /\ c.at \in Pushing /\ c.at \notin Ending /\ c.at \notin Closing
      /\ c.at \notin Removing
  BY <1>5 DEF Pushing, Ending, Closing, Removing
<1>7. /\ calls' \in Seq(Call) /\ CallsNest' /\ calls' # << >> /\ Here' = c.at
      /\ calls = << >> => There' = c.at /\ There = "none"
      /\ calls # << >> => There' = There /\ calls'[Len(calls')] = calls[Len(calls)]
      /\ calls'[1].page = made' /\ calls'[1].below = c.below
      /\ c.at = "leave" => calls'[1].was = life[Upper]
      /\ life' = [life EXCEPT ![Target(c)] = Event(c)]
      /\ life' \in [Page -> Lives]
  BY <1>1, <1>2, <1>5, <1>6, CallBegins, CallTypes
<1>8. /\ There' \in Ending <=> There \in Ending
      /\ There' \in Removing <=> There \in Removing
      /\ There \in Removing => calls'[Len(calls')] = calls[Len(calls)]
  BY <1>6, <1>7 DEF Ending, Removing
<1>9. NavTypes'
  BY <1>1, <1>3, <1>4, <1>7 DEF NavInv, NavTypes
<1>10. RoutesMatch'
  <2>1. /\ routes' \in Seq(Page) /\ Len(routes') = Len(routes) + 1 /\ routes' # << >>
        /\ routes'[Len(routes')] = made' /\ Len(routes) \in Nat
        /\ \A i \in 1 .. Len(routes) : routes'[i] = routes[i]
    BY <1>1, <1>3, <1>4
  <2>2. Based' = routes /\ Based = routes
    <3>1. Based' = SubSeq(routes', 1, Len(routes') - 1)
      BY <1>6, <1>7 DEF Based
    <3>2. SubSeq(routes', 1, Len(routes') - 1) = routes
      <4>1. SubSeq(Append(routes, made'), 1, Len(Append(routes, made')) - 1) = routes
        BY <1>3, <1>4, LastTaken
      <4>2. routes' = Append(routes, made')
        BY <1>1
      <4> QED
        BY <4>1, <4>2, Zenon
    <3>3. Based = routes
      BY <1>2 DEF Based
    <3> QED
      BY <3>1, <3>2, <3>3
  <2>3. \A i \in 1 .. Len(routes) : routes[i] \in Nat /\ routes[i] <= made
    BY RouteNumbers
  <2>4. \A i \in 1 .. Len(routes) : routes[i] < made'
    BY <1>1, <1>3, <2>3
  <2>5. \A i \in 1 .. Len(routes') : i \in 1 .. Len(routes) \/ i = Len(routes')
    BY <2>1
  <2>6. \A i \in 1 .. Len(routes') : routes'[i] <= made'
    BY <1>4, <2>1, <2>3, <2>4, <2>5
  <2>7. \A i, j \in 1 .. Len(routes) : i < j => routes[i] < routes[j]
    BY DEF NavInv, RoutesMatch, Ascending
  <2>8. ASSUME NEW i \in 1 .. Len(routes'), NEW j \in 1 .. Len(routes'), i < j
        PROVE  routes'[i] < routes'[j]
    <3>1. i \in 1 .. Len(routes)
      BY <2>1, <2>8
    <3>2. CASE j = Len(routes')
      BY <2>1, <2>4, <3>1, <3>2
    <3>3. CASE j \in 1 .. Len(routes)
      BY <2>1, <2>7, <2>8, <3>1, <3>3
    <3> QED
      BY <2>5, <3>2, <3>3
  <2>9. /\ There \notin Removing => nav.pages = routes
        /\ There \in Removing =>
             \E k \in 1 .. Len(routes) :
               routes[k] = calls[Len(calls)].page /\ nav.pages = Without(routes, k)
    BY <2>2 DEF NavInv, RoutesMatch
  <2> QED
    BY <1>1, <1>7, <1>8, <2>1, <2>2, <2>6, <2>8, <2>9 DEF RoutesMatch, Ascending, Without
<1>11. MotionIsWhole'
  BY <1>1, <1>8 DEF NavInv, MotionIsWhole, Moves
<1>12. /\ nav.pages # << >> => life'[Upper] = "WillLeave"
       /\ nav.pages = << >> => life'[made'] = "WillEnter"
  BY <1>3, <1>4, <1>5, <1>7, TopPages
<1>13. CallIsAnnounced'
  BY <1>1, <1>5, <1>6, <1>7, <1>12 DEF CallIsAnnounced, Upper
<1>14. ASSUME ~spoiled' PROVE TicksBelong' /\ PagesInPlace' /\ PagesTold'
  <2>1. TicksBelong /\ PagesInPlace /\ PagesTold
    BY <1>1, <1>14 DEF NavInv
  <2>2. TicksBelong'
    BY <1>1, <2>1 DEF TicksBelong, Moves
  <2>3. PagesInPlace'
    BY <1>1, <2>1 DEF PagesInPlace, Upper, Lower
  <2>4. PagesTold'
    <3>1. nav.pages # << >> => life[Upper] = "DidEnter"
      BY <1>1, <1>2, <2>1 DEF PagesTold
    <3>2. \A i \in 1 .. Len(nav.pages) :
            i < Len(nav.pages) => life'[nav.pages[i]] = life[nav.pages[i]]
      <4>1. ASSUME NEW i \in 1 .. Len(nav.pages), i < Len(nav.pages)
            PROVE  life'[nav.pages[i]] = life[nav.pages[i]]
        <5>1. Len(nav.pages) >= 2 /\ nav.pages # << >>
          BY <4>1, TopPages
        <5>2. nav.pages[i] # Upper /\ nav.pages[i] \in Page
          BY <4>1, <5>1, TopPages, PagesAreApart
        <5> QED
          BY <1>3, <1>5, <1>7, <5>1, <5>2
      <4> QED
        BY <4>1
    <3>3. Len(nav.pages) >= 2 => life'[Lower] = life[Lower]
      BY <3>2, TopPages DEF Lower
    <3>4. \A i \in 1 .. Len(nav.pages) :
            i < Len(nav.pages) - 1 => life'[nav.pages[i]] = "DidLeave"
      BY <2>1, <3>2, TopPages DEF PagesTold
    <3>5. Here # "popEnter" /\ Here' \notin {"popEnter", "popLeave", "restore", "none"}
          /\ Here' \notin Closing
      BY <1>2, <1>6, <1>7 DEF Closing
    <3>6. Here' = "leave" => calls'[1].was = "DidEnter"
      BY <1>5, <1>7, <3>1
    <3> QED
      BY <1>1, <2>1, <3>3, <3>4, <3>5, <3>6 DEF PagesTold, Lower
  <2> QED
    BY <2>2, <2>3, <2>4
<1> QED
  BY <1>7, <1>9, <1>10, <1>11, <1>13, <1>14 DEF NavInv

\* The outermost call is what it was when another one returns or goes on.
LEMMA EndsBelow ==
  ASSUME NavInv, calls # << >>, calls' = Tail(calls), Here \notin Ending
  PROVE  /\ There' \in Ending <=> There \in Ending
         /\ There' \in Removing <=> There \in Removing
         /\ There \in Removing => calls'[Len(calls')] = calls[Len(calls)]
<1>1. Removing \subseteq Ending /\ "none" \notin Ending
  BY DEF Removing, Ending
<1> QED
  BY <1>1, CallEnds, CallTypes

LEMMA GoesOnBelow ==
  ASSUME NavInv, calls # << >>, NEW at, at \notin Ending, Here \notin Ending,
         Len(calls) = 1 => There' = at,
         Len(calls) # 1 => There' = There /\ calls'[Len(calls')] = calls[Len(calls)]
  PROVE  /\ There' \in Ending <=> There \in Ending
         /\ There' \in Removing <=> There \in Removing
         /\ There \in Removing => calls'[Len(calls')] = calls[Len(calls)]
<1>1. Removing \subseteq Ending
  BY DEF Removing, Ending
<1> QED
  BY <1>1, CallTypes

\* Neither the one that would leave nor the one that would enter agreed in vain: a
\* push that fails takes its route back.
LEMMA PushFailsKeeps ==
  ASSUME NavHypothesis, NavInv, calls # << >>, Here \in Pushing,
         NEW lives \in [Page -> Lives], PushFails(calls[1], lives),
         anims' = anims, running' = running, made' = made, spoiled' = spoiled,
         ~spoiled => /\ nav.pages # << >> => lives[Upper] = "DidEnter"
                     /\ \A i \in 1 .. Len(nav.pages) :
                          i < Len(nav.pages) => lives[nav.pages[i]] = life[nav.pages[i]]
  PROVE  NavInv'
<1> DEFINE page == routes[Len(routes)]
           m == Relayout(nav)
<1>1. /\ life' = [lives EXCEPT ![page] = "gone"]
      /\ routes' = SubSeq(routes, 1, Len(routes) - 1)
      /\ nav' = Destroy(m, {page}) /\ calls' = Tail(calls)
  BY DEF PushFails, Last, Front
<1>2. /\ routes # << >> /\ page = calls[1].page /\ page \in Page
      /\ \A i \in 1 .. Len(nav.pages) : nav.pages[i] # page /\ nav.pages[i] \in Page
  <2>1. routes # << >> /\ page = calls[1].page
    BY DEF NavInv, RoutesMatch
  <2>2. calls[1].page \in Page
    BY CallTypes DEF Call
  <2> HIDE DEF page
  <2> QED
    BY <2>1, <2>2, PagesAreApart
<1>3. ~nav.transitioning /\ Here \notin Ending /\ Here \notin Closing \cup {"none"}
  BY DEF NavInv, CallIsAnnounced, Pushing, Ending, Closing
<1>4. m = nav /\ nav \in View
  BY <1>3, RelayoutMoves DEF NavInv, NavTypes, NavHypothesis
<1> HIDE DEF page, m
<1>5. /\ Same(nav', nav)
      /\ \A q \in Page : q # page => nav'.x[q] = nav.x[q] /\ nav'.visible[q] = nav.visible[q]
  BY <1>1, <1>4, DestroyLeaves DEF NavHypothesis
<1>6. /\ calls' \in Seq(Call) /\ CallsNest' /\ Here' \in Closing \cup {"none"}
      /\ There' \in Ending <=> There \in Ending
      /\ There' \in Removing <=> There \in Removing
      /\ There \in Removing => calls'[Len(calls')] = calls[Len(calls)]
  BY <1>1, <1>3, CallEnds, EndsBelow
<1>7. /\ Here' \notin Pushing
      /\ Here' \notin {"leave", "enter", "restore", "left", "undoLeft", "popLeave",
                       "popEnter", "popLeft"}
  BY <1>6 DEF Closing, Pushing
<1>8. Based' = Based /\ routes' = Based /\ routes' \in Seq(Page)
  <2>1. Based = SubSeq(routes, 1, Len(routes) - 1)
    BY DEF Based
  <2>2. Based' = routes'
    BY <1>7 DEF Based
  <2>3. Based \in Seq(Page)
    BY BasedIsRoutes
  <2> HIDE DEF Based
  <2> QED
    BY <1>1, <2>1, <2>2, <2>3
<1>9. /\ nav'.pages = nav.pages /\ Upper' = Upper /\ Lower' = Lower
      /\ nav'.transitioning = nav.transitioning
      /\ nav'.popLifecycleActive = nav.popLifecycleActive
      /\ nav'.transitionKind = nav.transitionKind
  BY <1>5 DEF Same, Upper, Lower
<1>10. life' \in [Page -> Lives]
  BY <1>1, <1>2 DEF Lives
<1>11. NavTypes'
  BY <1>5, <1>6, <1>8, <1>10 DEF NavInv, NavTypes, Same
<1>12. RoutesMatch'
  <2>1. Ascending(routes') /\ \A i \in 1 .. Len(routes') : routes'[i] <= made'
    <3>1. /\ Len(Based) <= Len(routes) /\ Len(Based) \in Nat
          /\ \A i \in 1 .. Len(Based) : Based[i] = routes[i]
      BY BasedIsRoutes
    <3>2. Len(routes) \in Nat
      BY RouteNumbers
    <3>3. \A i \in 1 .. Len(Based) : i \in 1 .. Len(routes)
      BY <3>1, <3>2
    <3>4. /\ \A i \in 1 .. Len(Based) : Based[i] <= made
          /\ \A i, j \in 1 .. Len(Based) : i < j => Based[i] < Based[j]
      BY <3>1, <3>3, RouteNumbers
    <3> QED
      BY <1>8, <3>4 DEF Ascending
  <2>2. There' \notin Removing => nav'.pages = Based'
    BY <1>6, <1>8, <1>9 DEF NavInv, RoutesMatch
  <2>3. There' \in Removing =>
          \E k \in 1 .. Len(Based') :
            Based'[k] = calls'[Len(calls')].page /\ nav'.pages = Without(Based', k)
    BY <1>6, <1>8, <1>9 DEF NavInv, RoutesMatch
  <2> QED
    BY <1>7, <2>1, <2>2, <2>3 DEF RoutesMatch, Ascending, Without
<1>13. MotionIsWhole'
  BY <1>3, <1>6, <1>9 DEF NavInv, MotionIsWhole, Moves
<1>14. CallIsAnnounced'
  BY <1>3, <1>7, <1>9 DEF CallIsAnnounced
<1>15. ASSUME ~spoiled' PROVE TicksBelong' /\ PagesInPlace' /\ PagesTold'
  <2>1. TicksBelong /\ PagesInPlace /\ PagesTold
    BY <1>15 DEF NavInv
  <2>2. TicksBelong'
    BY <1>9, <2>1 DEF TicksBelong, Moves
  <2>3. \A i \in 1 .. Len(nav.pages) :
          /\ nav'.x[nav.pages[i]] = nav.x[nav.pages[i]]
          /\ nav'.visible[nav.pages[i]] = nav.visible[nav.pages[i]]
          /\ life'[nav.pages[i]] = lives[nav.pages[i]]
    BY <1>1, <1>2, <1>5
  <2>4. /\ nav.pages # << >> => Len(nav.pages) \in 1 .. Len(nav.pages)
        /\ Len(nav.pages) >= 2 => Len(nav.pages) - 1 \in 1 .. Len(nav.pages)
                                  /\ Len(nav.pages) - 1 < Len(nav.pages)
        /\ \A i \in 1 .. Len(nav.pages) : i < Len(nav.pages) - 1 => i < Len(nav.pages)
    BY TopPages
  <2>5. /\ nav.pages # << >> =>
             nav'.x[Upper] = nav.x[Upper] /\ nav'.visible[Upper] = nav.visible[Upper]
                                /\ life'[Upper] = "DidEnter"
        /\ Len(nav.pages) >= 2 => nav'.visible[Lower] = nav.visible[Lower]
                                  /\ life'[Lower] = life[Lower]
    BY <1>15, <2>3, <2>4 DEF Upper, Lower
  <2>6. PagesInPlace'
    BY <1>3, <1>9, <2>1, <2>3, <2>5 DEF PagesInPlace
  <2>7. Here # "popEnter"
    BY DEF Pushing
  <2>8. \A i \in 1 .. Len(nav.pages) :
          i < Len(nav.pages) - 1 => life'[nav.pages[i]] = "DidLeave"
    BY <1>15, <2>1, <2>3, <2>4 DEF PagesTold
  <2>9. PagesTold'
    BY <1>3, <1>7, <1>9, <2>1, <2>5, <2>7, <2>8 DEF PagesTold
  <2> QED
    BY <2>2, <2>6, <2>9
<1> QED
  BY <1>6, <1>11, <1>12, <1>13, <1>14, <1>15 DEF NavInv

LEMMA VetoPushLeaveKeeps ==
  ASSUME NavHypothesis, NavInv, VetoPushLeave
  PROVE  NavInv'
<1> DEFINE lives == [life EXCEPT ![calls[1].below] = calls[1].was]
<1>1. /\ calls # << >> /\ Here = "leave" /\ PushFails(calls[1], lives)
      /\ anims' = anims /\ running' = running /\ made' = made /\ spoiled' = spoiled
  <2>1. /\ calls # << >> /\ Head(calls).at = "leave"
        /\ PushFails(Head(calls),
                           [life EXCEPT ![Head(calls).below] = Head(calls).was])
        /\ anims' = anims /\ running' = running /\ made' = made /\ spoiled' = spoiled
    BY DEF VetoPushLeave
  <2>2. Head(calls) = calls[1] /\ Here = calls[1].at
    BY <2>1, CallTypes
  <2> HIDE DEF Here
  <2> QED
    BY <2>1, <2>2, Zenon
<1>2. /\ nav.pages # << >> /\ calls[1].below = Upper /\ Upper \in Page /\ ~nav.transitioning
  BY <1>1, TopPages DEF NavInv, CallIsAnnounced, Closing
<1>3. life \in [Page -> Lives] /\ calls[1].was \in Lives
  BY <1>1, CallTypes DEF NavInv, NavTypes, Call
<1>4. lives \in [Page -> Lives] /\ lives[Upper] = calls[1].was
  BY <1>2, <1>3
<1>5. \A i \in 1 .. Len(nav.pages) :
        i < Len(nav.pages) => lives[nav.pages[i]] = life[nav.pages[i]]
  <2>1. ASSUME NEW i \in 1 .. Len(nav.pages), i < Len(nav.pages)
        PROVE  lives[nav.pages[i]] = life[nav.pages[i]]
    <3>1. Len(nav.pages) >= 2
      BY <2>1, TopPages
    <3>2. nav.pages[i] # Upper /\ nav.pages[i] \in Page
      BY <2>1, <3>1, TopPages, PagesAreApart
    <3> QED
      BY <1>2, <1>3, <3>2
  <2> QED
    BY <2>1
<1>6. ~spoiled => calls[1].was = "DidEnter"
  BY <1>1 DEF NavInv, PagesTold
<1> HIDE DEF lives
<1>7. Here \in Pushing
  BY <1>1 DEF Pushing
<1> QED
  BY <1>1, <1>4, <1>5, <1>6, <1>7, PushFailsKeeps

LEMMA PushRestoredKeeps ==
  ASSUME NavHypothesis, NavInv, PushRestored
  PROVE  NavInv'
<1>1. /\ calls # << >> /\ Here = "restore" /\ PushFails(calls[1], life)
      /\ anims' = anims /\ running' = running /\ made' = made /\ spoiled' = spoiled
  BY CallTypes DEF PushRestored
<1>2. ~nav.transitioning /\ life \in [Page -> Lives] /\ Here \in Pushing
  BY <1>1 DEF NavInv, NavTypes, CallIsAnnounced, Closing, Pushing
<1>3. ~spoiled => (nav.pages # << >> => life[Upper] = "DidEnter")
  BY <1>1, <1>2 DEF NavInv, PagesTold
<1> QED
  BY <1>1, <1>2, <1>3, PushFailsKeeps

LEMMA PushMayLeaveKeeps ==
  ASSUME NavHypothesis, NavInv, PushMayLeave
  PROVE  NavInv'
<1> DEFINE c == [calls[1] EXCEPT !.at = "enter"]
<1>1. /\ calls # << >> /\ Here = "leave" /\ GoOn("enter")
      /\ nav' = nav /\ routes' = routes /\ anims' = anims /\ running' = running
      /\ made' = made /\ spoiled' = spoiled
  BY CallTypes DEF PushMayLeave
<1>2. /\ nav.pages # << >> /\ calls[1].below = Upper /\ life[Upper] = "WillLeave"
      /\ ~nav.transitioning /\ Upper \in Page
  BY <1>1, TopPages DEF NavInv, CallIsAnnounced, Closing
<1>3. /\ c \in Call /\ c.at = "enter" /\ c.page = calls[1].page /\ c.page \in Page
      /\ "enter" \in Stand
  BY <1>1, CallTypes DEF Call, Stand, Pushing
<1>4. Target(c) = calls[1].page /\ Event(c) = "WillEnter"
  BY <1>3, Events
<1>5. Here \notin Ending /\ "enter" \notin Ending
  BY <1>1 DEF Ending
<1>6. /\ calls' \in Seq(Call) /\ CallsNest' /\ calls' # << >> /\ Here' = "enter"
      /\ Len(calls) = 1 => There' = "enter"
      /\ Len(calls) # 1 => There' = There /\ calls'[Len(calls')] = calls[Len(calls)]
      /\ calls'[1].page = calls[1].page /\ calls'[1].below = Upper
      /\ life' = [life EXCEPT ![calls[1].page] = "WillEnter"]
      /\ life' \in [Page -> Lives]
  <2>1. Target(c) \in Page
    BY <1>3, <1>4
  <2> QED
    BY <1>1, <1>2, <1>3, <1>4, <1>5, <2>1, CallGoesOn
<1> HIDE DEF c
<1>7. /\ There' \in Ending <=> There \in Ending
      /\ There' \in Removing <=> There \in Removing
      /\ There \in Removing => calls'[Len(calls')] = calls[Len(calls)]
  BY <1>1, <1>5, <1>6, GoesOnBelow
<1>8. \A i \in 1 .. Len(nav.pages) : life'[nav.pages[i]] = life[nav.pages[i]]
  <2>1. Here \in Pushing /\ life \in [Page -> Lives]
    BY <1>1 DEF Pushing, NavInv, NavTypes
  <2> QED
    BY <1>6, <2>1, PagesAreApart
<1>9. /\ life'[Upper] = life[Upper] /\ life'[calls[1].page] = "WillEnter"
      /\ Len(nav.pages) >= 2 => life'[Lower] = life[Lower]
  <2>1. /\ Len(nav.pages) \in 1 .. Len(nav.pages)
        /\ Len(nav.pages) >= 2 => Len(nav.pages) - 1 \in 1 .. Len(nav.pages)
    BY <1>2, TopPages
  <2>2. life \in [Page -> Lives]
    BY DEF NavInv, NavTypes
  <2>3. life'[calls[1].page] = "WillEnter"
    BY <1>3, <1>6, <2>2
  <2> QED
    BY <1>8, <2>1, <2>3 DEF Upper, Lower
<1>10. NavTypes'
  BY <1>1, <1>6 DEF NavInv, NavTypes
<1>11. RoutesMatch'
  BY <1>1, <1>6, <1>7, RoutesStay, RouteNumbers DEF Pushing
<1>12. MotionIsWhole'
  BY <1>1, <1>2, <1>7 DEF NavInv, MotionIsWhole, Moves
<1>13. CallIsAnnounced'
  BY <1>1, <1>2, <1>6, <1>9 DEF CallIsAnnounced, Upper, Closing
<1>14. ASSUME ~spoiled' PROVE TicksBelong' /\ PagesInPlace' /\ PagesTold'
  <2>1. TicksBelong /\ PagesInPlace /\ PagesTold
    BY <1>1, <1>14 DEF NavInv
  <2>2. TicksBelong'
    BY <1>1, <2>1 DEF TicksBelong, Moves
  <2>3. PagesInPlace'
    BY <1>1, <2>1 DEF PagesInPlace, Upper, Lower
  <2>4. PagesTold'
    BY <1>1, <1>2, <1>6, <1>8, <1>9, <2>1 DEF PagesTold, Lower, Closing
  <2> QED
    BY <2>2, <2>3, <2>4
<1> QED
  BY <1>6, <1>10, <1>11, <1>12, <1>13, <1>14 DEF NavInv

\* The new page refuses: the one below is told that it stays, if there is one.
LEMMA VetoPushEnterKeeps ==
  ASSUME NavHypothesis, NavInv, VetoPushEnter
  PROVE  NavInv'
<1> DEFINE c == [calls[1] EXCEPT !.at = "restore"]
<1>1. /\ calls # << >> /\ Here = "enter"
      /\ IF calls[1].below = 0 THEN PushFails(calls[1], life)
         ELSE GoOn("restore") /\ UNCHANGED <<nav, routes>>
      /\ anims' = anims /\ running' = running /\ made' = made /\ spoiled' = spoiled
  <2>1. /\ calls # << >> /\ Head(calls).at = "enter"
        /\ IF Head(calls).below = 0 THEN PushFails(Head(calls), life)
           ELSE GoOn("restore") /\ UNCHANGED <<nav, routes>>
        /\ anims' = anims /\ running' = running /\ made' = made /\ spoiled' = spoiled
    BY DEF VetoPushEnter, NoPage
  <2>2. Head(calls) = calls[1] /\ Here = calls[1].at
    BY <2>1, CallTypes
  <2> HIDE DEF Here
  <2> QED
    BY <2>1, <2>2, Zenon
<1>2. /\ ~nav.transitioning /\ Here \in Pushing /\ life \in [Page -> Lives]
      /\ nav.pages = << >> => calls[1].below = 0
      /\ nav.pages # << >> =>
           calls[1].below = Upper /\ life[Upper] = "WillLeave" /\ Upper \in Page
  BY <1>1, TopPages DEF NavInv, NavTypes, CallIsAnnounced, Closing, Pushing
<1>3. CASE calls[1].below = 0
  <2>1. nav.pages = << >>
    BY <1>2, <1>3 DEF Page
  <2>2. PushFails(calls[1], life)
    BY <1>1, <1>3
  <2> QED
    BY <1>1, <1>2, <2>1, <2>2, PushFailsKeeps
<1>4. CASE calls[1].below # 0
  <2>1. /\ GoOn("restore") /\ nav' = nav /\ routes' = routes
        /\ nav.pages # << >> /\ calls[1].below = Upper /\ Upper \in Page
    BY <1>1, <1>2, <1>4
  <2>2. /\ c \in Call /\ c.at = "restore" /\ c.below = Upper
        /\ c.page = calls[1].page /\ "restore" \in Stand
    BY <1>1, <2>1, CallTypes DEF Call, Stand, Pushing
  <2>3. Target(c) = Upper /\ Event(c) = "DidEnter"
    BY <2>2, Events
  <2>4. Here \notin Ending /\ "restore" \notin Ending
    BY <1>1 DEF Ending
  <2>5. /\ calls' \in Seq(Call) /\ CallsNest' /\ calls' # << >> /\ Here' = "restore"
        /\ Len(calls) = 1 => There' = "restore"
        /\ Len(calls) # 1 => There' = There /\ calls'[Len(calls')] = calls[Len(calls)]
        /\ calls'[1].page = calls[1].page /\ calls'[1].below = Upper
        /\ life' = [life EXCEPT ![Upper] = "DidEnter"]
        /\ life' \in [Page -> Lives]
    <3>1. Target(c) \in Page
      BY <2>1, <2>3
    <3> QED
      BY <1>1, <2>1, <2>2, <2>3, <2>4, <3>1, CallGoesOn
  <2> HIDE DEF c
  <2>6. /\ There' \in Ending <=> There \in Ending
        /\ There' \in Removing <=> There \in Removing
        /\ There \in Removing => calls'[Len(calls')] = calls[Len(calls)]
    BY <1>1, <2>4, <2>5, GoesOnBelow
  <2>7. /\ life'[Upper] = "DidEnter"
        /\ Len(nav.pages) >= 2 => life'[Lower] = life[Lower]
        /\ \A i \in 1 .. Len(nav.pages) :
             i < Len(nav.pages) - 1 => life'[nav.pages[i]] = life[nav.pages[i]]
    <3>1. \A i \in 1 .. Len(nav.pages) : i < Len(nav.pages) - 1 => Len(nav.pages) >= 2
      BY TopPages
    <3> QED
      BY <1>2, <2>1, <2>5, <3>1, TopPages, PagesAreApart
  <2>8. NavTypes'
    BY <1>1, <2>1, <2>5 DEF NavInv, NavTypes
  <2>9. RoutesMatch'
    BY <1>1, <2>1, <2>5, <2>6, RoutesStay, RouteNumbers DEF Pushing
  <2>10. MotionIsWhole'
    BY <1>1, <1>2, <2>1, <2>6 DEF NavInv, MotionIsWhole, Moves
  <2>11. CallIsAnnounced'
    BY <1>1, <1>2, <2>1, <2>5, <2>7 DEF CallIsAnnounced, Upper, Closing
  <2>12. ASSUME ~spoiled' PROVE TicksBelong' /\ PagesInPlace' /\ PagesTold'
    <3>1. TicksBelong /\ PagesInPlace /\ PagesTold
      BY <1>1, <2>12 DEF NavInv
    <3>2. TicksBelong'
      BY <1>1, <2>1, <3>1 DEF TicksBelong, Moves
    <3>3. PagesInPlace'
      BY <2>1, <3>1 DEF PagesInPlace, Upper, Lower
    <3>4. PagesTold'
      BY <1>1, <1>2, <2>1, <2>5, <2>7, <3>1 DEF PagesTold, Lower, Upper, Closing
    <3> QED
      BY <3>2, <3>3, <3>4
  <2> QED
    BY <2>5, <2>8, <2>9, <2>10, <2>11, <2>12 DEF NavInv
<1> QED
  BY <1>3, <1>4

\* The page that enters is on top, at its offset.
LEMMA EntersOnTop ==
  ASSUME NavigationAssumption, NEW c \in Call, NEW slides \in BOOLEAN, nav \in View
  PROVE  LET m == Enters(c, slides)
         IN /\ m \in View /\ m.pages = Append(nav.pages, c.page)
            /\ m.transitioning = nav.transitioning /\ m.transitionKind = nav.transitionKind
            /\ m.popLifecycleActive = nav.popLifecycleActive
            /\ ~slides => m.x[c.page] = 0
            /\ m.visible = [nav.visible EXCEPT ![c.page] = TRUE]
<1> DEFINE off == IF slides THEN Steps ELSE 0
           ps == Append(nav.pages, c.page)
           xs == [nav.x EXCEPT ![c.page] = off]
           vs == [nav.visible EXCEPT ![c.page] = TRUE]
<1>1. /\ c.page \in Page /\ Steps \in Nat /\ off \in -Steps .. Steps
      /\ nav.pages \in Seq(Page) /\ nav.x \in [Page -> -Steps .. Steps]
      /\ nav.visible \in [Page -> BOOLEAN]
  BY DEF Call, View, NavigationAssumption
<1>2. Enters(c, slides) = [nav EXCEPT !.pages = ps, !.visible = vs, !.x = xs]
  BY <1>1 DEF Enters, Place, Show, View
<1>3. /\ ps \in Seq(Page) /\ xs \in [Page -> -Steps .. Steps]
      /\ vs \in [Page -> BOOLEAN] /\ (~slides => xs[c.page] = 0)
  BY <1>1
<1> HIDE DEF ps, xs, vs
<1>4. LET m == Enters(c, slides)
      IN /\ m \in View /\ m.pages = ps /\ m.x = xs /\ m.visible = vs
         /\ m.transitioning = nav.transitioning /\ m.transitionKind = nav.transitionKind
         /\ m.popLifecycleActive = nav.popLifecycleActive
  BY <1>2, <1>3 DEF View
<1> QED
  BY <1>3, <1>4 DEF ps, vs

\* A page comes on top of the others.
LEMMA GrownStack ==
  ASSUME NavInv, NEW page \in Page, nav'.pages = Append(nav.pages, page)
  PROVE  /\ Len(nav'.pages) = Len(nav.pages) + 1 /\ nav'.pages # << >> /\ Upper' = page
         /\ nav.pages = << >> => Len(nav'.pages) = 1
         /\ nav.pages # << >> => Len(nav'.pages) >= 2 /\ Lower' = Upper
         /\ \A i \in 1 .. Len(nav.pages) : nav'.pages[i] = nav.pages[i]
         /\ \A i \in 1 .. Len(nav'.pages) : i < Len(nav'.pages) - 1 =>
              i \in 1 .. Len(nav.pages) /\ i < Len(nav.pages) /\ nav'.pages[i] = nav.pages[i]
<1>1. nav.pages \in Seq(Page) /\ Len(nav.pages) \in Nat
      /\ (nav.pages = << >> <=> Len(nav.pages) = 0)
  BY TopPages
<1>2. /\ Len(nav'.pages) = Len(nav.pages) + 1 /\ nav'.pages # << >>
      /\ nav'.pages[Len(nav.pages) + 1] = page
      /\ \A i \in 1 .. Len(nav.pages) : nav'.pages[i] = nav.pages[i]
  <2> DEFINE t == nav'.pages
  <2>1. t = Append(nav.pages, page)
    OBVIOUS
  <2> HIDE DEF t
  <2>2. /\ Len(t) = Len(nav.pages) + 1 /\ t # << >> /\ t[Len(nav.pages) + 1] = page
        /\ \A i \in 1 .. Len(nav.pages) : t[i] = nav.pages[i]
    BY <1>1, <2>1
  <2> QED
    BY <2>2 DEF t
<1>3. Upper' = page /\ Lower' = nav'.pages[Len(nav.pages)]
  <2>1. Len(nav'.pages) - 1 = Len(nav.pages)
    BY <1>1, <1>2
  <2> QED
    BY <1>2, <2>1 DEF Upper, Lower
<1>4. nav.pages # << >> => Lower' = Upper
  BY <1>1, <1>2, <1>3 DEF Upper
<1> QED
  BY <1>1, <1>2, <1>3, <1>4

\* ... as the route did before.
LEMMA RoutesGrow ==
  ASSUME NavInv, Here \in Pushing, Here' \notin Pushing,
         nav'.pages = Append(nav.pages, calls[1].page), routes' = routes, made' = made,
         There' \in Removing <=> There \in Removing,
         There \in Removing => calls'[Len(calls')] = calls[Len(calls)]
  PROVE  RoutesMatch'
<1> DEFINE page == calls[1].page
<1>1. /\ routes # << >> /\ routes[Len(routes)] = page /\ page \in Page
      /\ routes \in Seq(Page) /\ Len(routes) \in Nat /\ Len(routes) > 0
  <2>1. Here \in Stand
    BY DEF Stand
  <2>2. page \in Page
    BY <2>1, CallTypes DEF Call
  <2> QED
    BY <2>2, BasedIsRoutes, RouteNumbers DEF NavInv, RoutesMatch
<1>2. /\ Based \in Seq(Page) /\ Len(Based) = Len(routes) - 1 /\ Len(Based) \in Nat
      /\ \A i \in 1 .. Len(Based) : Based[i] = routes[i]
  BY BasedIsRoutes
<1>3. Based' = routes
  BY DEF Based
<1> HIDE DEF page
<1>4. Append(Based, page) = routes
  BY <1>1, <1>2
<1>5. There' \notin Removing => nav'.pages = routes
  <2>1. There \notin Removing => nav.pages = Based
    BY DEF NavInv, RoutesMatch
  <2> QED
    BY <1>4, <2>1 DEF page
<1>6. There' \in Removing =>
        \E k \in 1 .. Len(routes) :
          routes[k] = calls'[Len(calls')].page /\ nav'.pages = Without(routes, k)
  <2>1. ASSUME There \in Removing
        PROVE  \E k \in 1 .. Len(routes) :
                 routes[k] = calls[Len(calls)].page /\ nav'.pages = Without(routes, k)
    <3>1. PICK k \in 1 .. Len(Based) :
            Based[k] = calls[Len(calls)].page /\ nav.pages = Without(Based, k)
      BY <2>1 DEF NavInv, RoutesMatch
    <3>2. k \in 1 .. Len(routes) /\ routes[k] = calls[Len(calls)].page
      BY <1>1, <1>2, <3>1
    <3>3. nav'.pages = Without(routes, k)
      <4>1. /\ nav.pages \in Seq(Page) /\ Len(nav.pages) = Len(routes) - 2
            /\ Len(routes) >= 2
            /\ \A i \in 1 .. Len(routes) - 2 :
                 nav.pages[i] = IF i < k THEN routes[i] ELSE routes[i + 1]
        <5>1. Len(nav.pages) = Len(Based) - 1 /\ nav.pages \in Seq(Page)
          BY <1>2, <3>1, TopPages DEF Without
        <5>2. \A i \in 1 .. Len(Based) - 1 :
                nav.pages[i] = IF i < k THEN Based[i] ELSE Based[i + 1]
          BY <3>1 DEF Without
        <5> QED
          BY <1>1, <1>2, <5>1, <5>2
      <4>2. /\ Len(nav'.pages) = Len(routes) - 1 /\ nav'.pages \in Seq(Page)
            /\ nav'.pages[Len(routes) - 1] = page
            /\ \A i \in 1 .. Len(routes) - 2 : nav'.pages[i] = nav.pages[i]
        BY <1>1, <4>1 DEF page
      <4>3. ASSUME NEW i \in 1 .. Len(routes) - 1
            PROVE  nav'.pages[i] = IF i < k THEN routes[i] ELSE routes[i + 1]
        <5>1. CASE i = Len(routes) - 1
          BY <1>1, <1>2, <4>1, <4>2, <5>1
        <5>2. CASE i # Len(routes) - 1
          BY <1>1, <4>1, <4>2, <5>2
        <5> QED
          BY <5>1, <5>2
      <4> DEFINE t == nav'.pages
                 m == Len(routes) - 1
      <4>4. /\ t \in Seq(Page) /\ Len(t) = m /\ m \in Nat
            /\ \A i \in 1 .. m : t[i] = IF i < k THEN routes[i] ELSE routes[i + 1]
        BY <1>1, <4>1, <4>2, <4>3
      <4> HIDE DEF t, m
      <4>5. t = [i \in 1 .. m |-> IF i < k THEN routes[i] ELSE routes[i + 1]]
        BY <4>4
      <4> QED
        BY <4>5 DEF t, m, Without
    <3> QED
      BY <3>2, <3>3
  <2> QED
    BY <2>1
<1>7. Ascending(routes') /\ \A i \in 1 .. Len(routes') : routes'[i] <= made'
  BY DEF NavInv, RoutesMatch
<1>8. /\ There' \notin Removing => nav'.pages = Based'
      /\ There' \in Removing =>
           \E k \in 1 .. Len(Based') :
             Based'[k] = calls'[Len(calls')].page /\ nav'.pages = Without(Based', k)
  BY <1>3, <1>5, <1>6
<1> QED
  BY <1>7, <1>8 DEF RoutesMatch, Ascending, Without

\* At rest no tick is due, ...
LEMMA NoTickAtRest ==
  ASSUME NavInv, TicksBelong, ~nav.transitioning
  PROVE  /\ \A i \in 1 .. Len(anims) : anims[i].stale
         /\ \A i \in 1 .. Len(running) : running[i].stale
<1>1. anims \in Seq(Tick) /\ running \in Seq(Tick)
  BY DEF NavInv, NavTypes
<1>2. /\ \A i \in 1 .. Len(anims) : anims[i] \in Tick
      /\ \A i \in 1 .. Len(running) : running[i] \in Tick
  BY <1>1
<1> QED
  BY <1>2 DEF TicksBelong, Moves, Tick

\* ... so the one a transition begins with is the only one.
LEMMA TickBegins ==
  ASSUME NavHypothesis, NavInv, NEW kind \in {"Push", "Pop"}, ~nav.transitioning,
         anims' = Append(anims, NewTick(kind)), running' = running, Moves(kind)'
  PROVE  /\ anims' \in Seq(Tick)
         /\ TicksBelong => TicksBelong'
<1> DEFINE tick == NewTick(kind)
<1>1. tick \in Tick /\ tick.kind = kind
  <2>1. Steps \in Nat /\ NotStarted = -1
    BY DEF NavHypothesis, NavigationAssumption, NotStarted
  <2>2. NotStarted \in -1 .. Steps
    BY <2>1
  <2> QED
    BY <2>2 DEF NewTick, Tick
<1>3. anims \in Seq(Tick) /\ anims' = Append(anims, tick)
  BY DEF NavInv, NavTypes
<1> HIDE DEF tick
<1>4. /\ anims' \in Seq(Tick) /\ Len(anims') = Len(anims) + 1 /\ Len(anims) \in Nat
      /\ anims'[Len(anims')] = tick
      /\ \A i \in 1 .. Len(anims) : anims'[i] = anims[i]
  BY <1>1, <1>3
<1>5. \A i \in 1 .. Len(anims') : i \in 1 .. Len(anims) \/ i = Len(anims')
  BY <1>4
<1>6. ASSUME TicksBelong PROVE TicksBelong'
  <2>1. /\ \A i \in 1 .. Len(anims) : anims[i].stale
        /\ \A i \in 1 .. Len(running) : running[i].stale
    BY <1>6, NoTickAtRest
  <2>2. ASSUME NEW i \in 1 .. Len(anims'), ~anims'[i].stale
        PROVE  i = Len(anims') /\ anims'[i] = tick
    <3>1. i \notin 1 .. Len(anims)
      BY <1>4, <2>1, <2>2
    <3>2. i = Len(anims')
      BY <1>5, <3>1
    <3>3. anims'[Len(anims')] = tick
      BY <1>4
    <3> QED
      BY <3>2, <3>3, Zenon
  <2>3. nav'.transitioning /\ nav'.transitionKind = kind
    BY DEF Moves
  <2>5. \A i \in 1 .. Len(anims') : ~anims'[i].stale =>
          nav'.transitioning /\ nav'.transitionKind = anims'[i].kind
    BY <1>1, <2>2, <2>3, Zenon
  <2>4. \A i, j \in 1 .. Len(anims') : ~anims'[i].stale /\ ~anims'[j].stale => i = j
    BY <2>2
  <2> QED
    BY <2>1, <2>4, <2>5 DEF TicksBelong, Moves
<1> QED
  BY <1>4, <1>6

LEMMA TicksRest ==
  ASSUME NavInv, TicksBelong, ~nav.transitioning, anims' = anims, running' = running
  PROVE  TicksBelong'
<1>1. /\ \A i \in 1 .. Len(anims) : anims[i].stale
      /\ \A i \in 1 .. Len(running) : running[i].stale
  BY NoTickAtRest
<1> QED
  BY <1>1 DEF TicksBelong

\* At rest everything below the top is hidden and was told that it left.
LEMMA RestBelow ==
  ASSUME NavInv, ~nav.transitioning
  PROVE  /\ PagesInPlace => \A i \in 1 .. Len(nav.pages) :
              i < Len(nav.pages) => ~nav.visible[nav.pages[i]]
         /\ PagesTold /\ Here # "popEnter" => \A i \in 1 .. Len(nav.pages) :
              i < Len(nav.pages) => life[nav.pages[i]] = "DidLeave"
<1> DEFINE n == Len(nav.pages)
<1>1. n \in Nat
  BY TopPages
<1> HIDE DEF n
<1>2. \A i \in 1 .. n : i < n => (i < n - 1 \/ (i = n - 1 /\ n >= 2))
  BY <1>1
<1>3. \A i \in 1 .. Len(nav.pages) : i < Len(nav.pages) =>
        \/ i < Len(nav.pages) - 1
        \/ i = Len(nav.pages) - 1 /\ Len(nav.pages) >= 2
  BY <1>2 DEF n
<1>4. ASSUME PagesInPlace, NEW i \in 1 .. Len(nav.pages), i < Len(nav.pages)
      PROVE  ~nav.visible[nav.pages[i]]
  BY <1>3, <1>4 DEF PagesInPlace, Lower
<1>5. ASSUME PagesTold, Here # "popEnter", NEW i \in 1 .. Len(nav.pages), i < Len(nav.pages)
      PROVE  life[nav.pages[i]] = "DidLeave"
  BY <1>3, <1>5 DEF PagesTold, Lower
<1> QED
  BY <1>4, <1>5

\* Both agreed to the push.
LEMMA AgreedToPush ==
  ASSUME NavHypothesis, NavInv, PushAgreed
  PROVE  /\ calls # << >> /\ Here = "enter" /\ calls[1] \in Call
         /\ calls[1].page \in Page /\ ~nav.transitioning /\ nav \in View
         /\ routes' = routes /\ running' = running /\ made' = made /\ spoiled' = spoiled
         /\ life \in [Page -> Lives] /\ life[calls[1].page] = "WillEnter"
         /\ nav.pages = << >> => calls[1].below = 0
         /\ nav.pages # << >> =>
              /\ calls[1].below = Upper /\ life[Upper] = "WillLeave"
              /\ Upper \in Page /\ Upper # 0
         /\ \A i \in 1 .. Len(nav.pages) :
              nav.pages[i] \in Page /\ nav.pages[i] # calls[1].page
         /\ Here \notin Ending /\ Here \in Pushing
         /\ There \in Ending <=> nav.popLifecycleActive
         /\ \/ /\ calls[1].below # 0 /\ calls[1].animated
               /\ nav' = Start(Enters(calls[1], TRUE), "Push")
               /\ anims' = Append(anims, NewTick("Push"))
               /\ calls' = Tail(calls) /\ life' = life
            \/ /\ calls[1].below = 0 /\ nav' = Enters(calls[1], FALSE)
               /\ GoOn("entered") /\ anims' = anims
            \/ /\ calls[1].below # 0 /\ ~calls[1].animated
               /\ nav' = Hide(Place(Enters(calls[1], FALSE), calls[1].below, 0),
                                    calls[1].below)
               /\ GoOn("left") /\ anims' = anims
<1>1. /\ calls # << >> /\ Head(calls).at = "enter"
      /\ routes' = routes /\ running' = running /\ made' = made /\ spoiled' = spoiled
  BY DEF PushAgreed
<1>2. Head(calls) = calls[1] /\ Here = "enter" /\ calls[1] \in Call /\ Here = calls[1].at
  BY <1>1, CallTypes
<1>3. /\ nav \in View /\ life \in [Page -> Lives] /\ ~nav.transitioning
      /\ life[calls[1].page] = "WillEnter"
      /\ nav.pages = << >> => calls[1].below = 0
      /\ nav.pages # << >> => calls[1].below = Upper /\ life[Upper] = "WillLeave"
  BY <1>2 DEF NavInv, NavTypes, CallIsAnnounced, Closing
<1>4. nav.pages # << >> => Upper \in Page /\ Upper # 0
  BY TopPages DEF Page
<1>5. Here \notin Ending /\ Here \in Pushing
  BY <1>2 DEF Ending, Pushing
<1>6. There \in Ending <=> nav.popLifecycleActive
  BY <1>3 DEF NavInv, MotionIsWhole, Moves
<1>7. LET c == calls[1]
          slides == c.below # 0 /\ c.animated
          entered == Enters(c, slides)
      IN  \/ /\ slides
             /\ nav' = Start(entered, "Push")
             /\ anims' = Append(anims, NewTick("Push"))
             /\ calls' = Tail(calls)
             /\ UNCHANGED life
          \/ /\ c.below = 0
             /\ nav' = entered
             /\ GoOn("entered")
             /\ UNCHANGED anims
          \/ /\ c.below # 0 /\ ~c.animated
             /\ nav' = Hide(Place(entered, c.below, 0), c.below)
             /\ GoOn("left")
             /\ UNCHANGED anims
  <2>1. Head(calls) = calls[1]
    BY <1>2
  <2> QED
    BY <2>1, Zenon DEF PushAgreed, NoPage
<1>8. \A sl \in BOOLEAN : sl => Enters(calls[1], sl) = Enters(calls[1], TRUE)
  OBVIOUS
<1>9. \/ /\ calls[1].below # 0 /\ calls[1].animated
         /\ nav' = Start(Enters(calls[1], TRUE), "Push")
         /\ anims' = Append(anims, NewTick("Push"))
         /\ calls' = Tail(calls) /\ life' = life
      \/ /\ calls[1].below = 0 /\ nav' = Enters(calls[1], FALSE)
         /\ GoOn("entered") /\ anims' = anims
      \/ /\ calls[1].below # 0 /\ ~calls[1].animated
         /\ nav' = Hide(Place(Enters(calls[1], FALSE), calls[1].below, 0),
                              calls[1].below)
         /\ GoOn("left") /\ anims' = anims
  <2>1. /\ Enters(calls[1], calls[1].below # 0 /\ calls[1].animated) =
             IF calls[1].below # 0 /\ calls[1].animated
             THEN Enters(calls[1], TRUE) ELSE Enters(calls[1], FALSE)
    BY DEF Enters
  <2> QED
    BY <1>7, <2>1
<1>10. calls[1].page \in Page
  BY <1>2 DEF Call
<1>11. \A i \in 1 .. Len(nav.pages) :
         nav.pages[i] \in Page /\ nav.pages[i] # calls[1].page
  BY <1>5, PagesAreApart
<1> QED
  BY <1>1, <1>2, <1>3, <1>4, <1>5, <1>6, <1>9, <1>10, <1>11

\* What is true of the stack whichever way the page enters.
LEMMA PushLands ==
  ASSUME NavHypothesis, NavInv, Here = "enter",
         nav' \in View, nav'.pages = Append(nav.pages, calls[1].page),
         nav'.popLifecycleActive = nav.popLifecycleActive,
         routes' = routes, running' = running, made' = made, spoiled' = spoiled,
         anims' \in Seq(Tick), life' \in [Page -> Lives],
         calls' \in Seq(Call), CallsNest', Here' \notin Pushing,
         There' \in Ending <=> There \in Ending,
         There' \in Removing <=> There \in Removing,
         There \in Removing => calls'[Len(calls')] = calls[Len(calls)],
         ~nav.transitioning,
         \/ ~nav'.transitioning /\ nav'.transitionKind = "None"
         \/ /\ nav'.transitioning /\ nav'.transitionKind = "Push" /\ nav.pages # << >>
            /\ life'[calls[1].page] = "WillEnter" /\ life'[Upper] = "WillLeave"
  PROVE  NavTypes' /\ RoutesMatch' /\ MotionIsWhole'
<1>1. NavTypes'
  BY DEF NavInv, NavTypes
<1>2. RoutesMatch'
  BY RoutesGrow DEF Pushing
<1>3. calls[1].page \in Page
  BY CallTypes DEF Call, Stand, Pushing
<1>4. /\ Upper' = calls[1].page
      /\ nav.pages # << >> => Len(nav'.pages) >= 2 /\ Lower' = Upper
  BY <1>3, GrownStack
<1>5. MotionIsWhole'
  BY <1>4 DEF NavInv, MotionIsWhole, Moves
<1> QED
  BY <1>1, <1>2, <1>5

\* The page slides in from the right edge.
LEMMA PushSlidesKeeps ==
  ASSUME NavHypothesis, NavInv, PushAgreed, calls[1].below # 0, calls[1].animated,
         nav' = Start(Enters(calls[1], TRUE), "Push"),
         anims' = Append(anims, NewTick("Push")), calls' = Tail(calls), life' = life
  PROVE  NavInv'
<1> DEFINE page == calls[1].page
           m == Enters(calls[1], TRUE)
<1>1. /\ calls # << >> /\ Here = "enter" /\ calls[1] \in Call
      /\ page \in Page /\ ~nav.transitioning /\ nav \in View
      /\ routes' = routes /\ running' = running /\ made' = made /\ spoiled' = spoiled
      /\ life \in [Page -> Lives] /\ life[page] = "WillEnter"
      /\ nav.pages # << >> /\ life[Upper] = "WillLeave" /\ Upper \in Page
      /\ \A i \in 1 .. Len(nav.pages) :
           nav.pages[i] \in Page /\ nav.pages[i] # page
      /\ Here \notin Ending /\ Here \in Pushing
  BY AgreedToPush
<1>2. /\ m \in View /\ m.pages = Append(nav.pages, page)
      /\ m.popLifecycleActive = nav.popLifecycleActive
      /\ m.visible = [nav.visible EXCEPT ![page] = TRUE]
  BY <1>1, EntersOnTop DEF NavHypothesis
<1>3. nav' = [m EXCEPT !.transitioning = TRUE, !.transitionKind = "Push", !.progress = 0]
  BY DEF Start
<1> HIDE DEF m, page
<1>4. /\ nav' \in View /\ nav'.pages = Append(nav.pages, page)
      /\ nav'.popLifecycleActive = nav.popLifecycleActive
      /\ nav'.visible = [nav.visible EXCEPT ![page] = TRUE]
      /\ nav'.transitioning /\ nav'.transitionKind = "Push"
  <2>1. 0 \in 0 .. Steps
    BY DEF NavHypothesis, NavigationAssumption
  <2> QED
    BY <1>2, <1>3, <2>1 DEF View
<1>5. /\ calls' \in Seq(Call) /\ CallsNest' /\ Here' \in Closing \cup {"none"}
      /\ There' \in Ending <=> There \in Ending
      /\ There' \in Removing <=> There \in Removing
      /\ There \in Removing => calls'[Len(calls')] = calls[Len(calls)]
  BY <1>1, CallEnds, EndsBelow
<1>6. /\ Here' \notin Pushing
      /\ Here' \notin {"leave", "enter", "restore", "left", "undoLeft", "popLeave",
                       "popEnter", "popLeft"}
  BY <1>5 DEF Closing, Pushing
<1>7. anims' \in Seq(Tick) /\ (TicksBelong => TicksBelong')
  <2>1. Moves("Push")'
    BY <1>4 DEF Moves
  <2> QED
    BY <1>1, <2>1, TickBegins
<1>8. NavTypes' /\ RoutesMatch' /\ MotionIsWhole'
  BY <1>1, <1>4, <1>5, <1>6, <1>7, PushLands DEF page
<1>9. CallIsAnnounced'
  BY <1>5, <1>6 DEF CallIsAnnounced
<1>10. ASSUME ~spoiled' PROVE TicksBelong' /\ PagesInPlace' /\ PagesTold'
  <2>1. TicksBelong /\ PagesInPlace /\ PagesTold
    BY <1>1, <1>10 DEF NavInv
  <2>2. /\ Len(nav'.pages) = Len(nav.pages) + 1 /\ nav'.pages # << >> /\ Upper' = page
        /\ \A i \in 1 .. Len(nav'.pages) : i < Len(nav'.pages) - 1 =>
              i \in 1 .. Len(nav.pages) /\ i < Len(nav.pages) /\ nav'.pages[i] = nav.pages[i]
    BY <1>1, <1>4, GrownStack
  <2>3. \A i \in 1 .. Len(nav.pages) : i < Len(nav.pages) =>
          ~nav.visible[nav.pages[i]] /\ life[nav.pages[i]] = "DidLeave"
    BY <1>1, <2>1, RestBelow
  <2>4. \A i \in 1 .. Len(nav'.pages) : i < Len(nav'.pages) - 1 =>
          ~nav'.visible[nav'.pages[i]] /\ life'[nav'.pages[i]] = "DidLeave"
    <3>1. ASSUME NEW i \in 1 .. Len(nav'.pages), i < Len(nav'.pages) - 1
          PROVE  ~nav'.visible[nav'.pages[i]] /\ life'[nav'.pages[i]] = "DidLeave"
      <4>1. i \in 1 .. Len(nav.pages) /\ i < Len(nav.pages) /\ nav'.pages[i] = nav.pages[i]
        BY <2>2, <3>1
      <4>2. nav.pages[i] \in Page /\ nav.pages[i] # page
        BY <1>1, <4>1
      <4>3. ~nav.visible[nav.pages[i]] /\ life[nav.pages[i]] = "DidLeave"
        BY <2>3, <4>1
      <4>4. nav.visible \in [Page -> BOOLEAN]
        BY <1>1 DEF View
      <4>5. nav'.visible[nav.pages[i]] = nav.visible[nav.pages[i]]
        BY <1>1, <1>4, <4>2, <4>4
      <4> QED
        BY <4>1, <4>3, <4>5
    <3> QED
      BY <3>1
  <2>5. nav'.visible[page]
    BY <1>1, <1>4 DEF View
  <2>6. PagesInPlace'
    BY <1>4, <2>2, <2>4, <2>5 DEF PagesInPlace
  <2>7. PagesTold'
    BY <1>4, <1>6, <2>4 DEF PagesTold
  <2> QED
    BY <1>7, <2>1, <2>6, <2>7
<1> QED
  BY <1>5, <1>8, <1>9, <1>10 DEF NavInv

\* The first page is there at once.
LEMMA PushFirstKeeps ==
  ASSUME NavHypothesis, NavInv, PushAgreed, calls[1].below = 0,
         nav' = Enters(calls[1], FALSE), GoOn("entered"), anims' = anims
  PROVE  NavInv'
<1> DEFINE page == calls[1].page
           c == [calls[1] EXCEPT !.at = "entered"]
<1>1. /\ calls # << >> /\ Here = "enter" /\ calls[1] \in Call
      /\ page \in Page /\ ~nav.transitioning /\ nav \in View
      /\ routes' = routes /\ running' = running /\ made' = made /\ spoiled' = spoiled
      /\ life \in [Page -> Lives] /\ nav.pages = << >>
      /\ Here \notin Ending /\ Here \in Pushing
  BY AgreedToPush
<1>2. /\ nav' \in View /\ nav'.pages = Append(nav.pages, page)
      /\ nav'.popLifecycleActive = nav.popLifecycleActive
      /\ nav'.transitioning = nav.transitioning
      /\ nav'.transitionKind = nav.transitionKind /\ nav'.x[page] = 0
      /\ nav'.visible = [nav.visible EXCEPT ![page] = TRUE]
  BY <1>1, EntersOnTop DEF NavHypothesis
<1>3. /\ c \in Call /\ "entered" \in Stand /\ "entered" \notin Ending
      /\ Target(c) = page /\ Event(c) = "DidEnter"
  <2>1. "entered" \in Stand /\ "entered" \notin Ending
    BY DEF Stand, Closing, Ending
  <2>2. c \in Call /\ c.at = "entered" /\ c.page = page
    BY <1>1, <2>1 DEF Call
  <2> HIDE DEF c
  <2> QED
    BY <2>1, <2>2, Events
<1> HIDE DEF page
<1>4. /\ calls' \in Seq(Call) /\ CallsNest' /\ Here' = "entered"
      /\ Len(calls) = 1 => There' = "entered"
      /\ Len(calls) # 1 => There' = There /\ calls'[Len(calls')] = calls[Len(calls)]
      /\ life' = [life EXCEPT ![page] = "DidEnter"] /\ life' \in [Page -> Lives]
  BY <1>1, <1>3, CallGoesOn
<1>5. /\ There' \in Ending <=> There \in Ending
      /\ There' \in Removing <=> There \in Removing
      /\ There \in Removing => calls'[Len(calls')] = calls[Len(calls)]
  BY <1>1, <1>3, <1>4, GoesOnBelow
<1>6. anims' \in Seq(Tick) /\ "entered" \notin Pushing /\ nav.transitionKind = "None"
  BY <1>1 DEF NavInv, NavTypes, Pushing, MotionIsWhole, View
<1>7. NavTypes' /\ RoutesMatch' /\ MotionIsWhole'
  BY <1>1, <1>2, <1>4, <1>5, <1>6, PushLands DEF page
<1>8. CallIsAnnounced'
  BY <1>4 DEF CallIsAnnounced, Closing
<1>9. /\ Len(nav'.pages) = 1 /\ Upper' = page /\ nav'.visible[page] /\ life'[page] = "DidEnter"
      /\ nav'.x[page] = 0
  BY <1>1, <1>2, <1>4, GrownStack DEF View
<1>10. ASSUME ~spoiled' PROVE TicksBelong' /\ PagesInPlace' /\ PagesTold'
  <2>1. TicksBelong
    BY <1>1, <1>10 DEF NavInv
  <2>2. TicksBelong'
    BY <1>1, <2>1, TicksRest
  <2>3. ~(Len(nav'.pages) >= 2) /\ \A i \in 1 .. Len(nav'.pages) : ~(i < Len(nav'.pages) - 1)
    <3>1. \A n : n = 1 => ~(n >= 2) /\ \A i \in 1 .. n : ~(i < n - 1)
      OBVIOUS
    <3> QED
      BY <1>9, <3>1
  <2>4. PagesInPlace'
    BY <1>9, <2>3 DEF PagesInPlace
  <2>5. PagesTold'
    BY <1>4, <1>9, <2>3 DEF PagesTold
  <2> QED
    BY <2>2, <2>4, <2>5
<1> QED
  BY <1>4, <1>7, <1>8, <1>10 DEF NavInv

\* Without an animation the page below leaves at once.
LEMMA PushJumpsKeeps ==
  ASSUME NavHypothesis, NavInv, PushAgreed, calls[1].below # 0,
         nav' = Hide(Place(Enters(calls[1], FALSE), calls[1].below, 0),
                           calls[1].below),
         GoOn("left"), anims' = anims
  PROVE  NavInv'
<1> DEFINE page == calls[1].page
           below == calls[1].below
           m == Enters(calls[1], FALSE)
           c == [calls[1] EXCEPT !.at = "left"]
<1>1. /\ calls # << >> /\ Here = "enter" /\ calls[1] \in Call
      /\ page \in Page /\ ~nav.transitioning /\ nav \in View
      /\ routes' = routes /\ running' = running /\ made' = made /\ spoiled' = spoiled
      /\ life \in [Page -> Lives] /\ life[page] = "WillEnter"
      /\ nav.pages # << >> /\ life[Upper] = "WillLeave" /\ Upper \in Page
      /\ below = Upper
      /\ \A i \in 1 .. Len(nav.pages) :
           nav.pages[i] \in Page /\ nav.pages[i] # page
      /\ Here \notin Ending /\ Here \in Pushing
  BY AgreedToPush
<1>2. /\ m \in View /\ m.pages = Append(nav.pages, page)
      /\ m.popLifecycleActive = nav.popLifecycleActive
      /\ ~m.transitioning
      /\ m.transitionKind = nav.transitionKind /\ m.x[page] = 0
      /\ m.visible = [nav.visible EXCEPT ![page] = TRUE]
  BY <1>1, EntersOnTop DEF NavHypothesis
<1>3. /\ c \in Call /\ "left" \in Stand /\ "left" \notin Ending
      /\ Target(c) = below /\ Event(c) = "DidLeave"
  <2>1. "left" \in Stand /\ "left" \notin Ending
    BY DEF Stand, Ending
  <2>2. c \in Call /\ c.at = "left" /\ c.below = below
    BY <1>1, <2>1 DEF Call
  <2> HIDE DEF c
  <2> QED
    BY <2>1, <2>2, Events
<1>4. /\ calls' \in Seq(Call) /\ CallsNest' /\ Here' = "left"
      /\ Len(calls) = 1 => There' = "left"
      /\ Len(calls) # 1 => There' = There /\ calls'[Len(calls')] = calls[Len(calls)]
      /\ calls'[1].page = page /\ calls'[1].below = below
      /\ life' = [life EXCEPT ![below] = "DidLeave"] /\ life' \in [Page -> Lives]
  BY <1>1, <1>3, CallGoesOn
<1> HIDE DEF m, c
<1>5. below \in Page /\ below # page
  <2>1. Len(nav.pages) \in 1 .. Len(nav.pages)
    BY <1>1, TopPages
  <2> QED
    BY <1>1, <2>1 DEF Upper
<1>6. nav' = [m EXCEPT !.x = [m.x EXCEPT ![below] = 0],
                       !.visible = [m.visible EXCEPT ![below] = FALSE]]
  BY <1>2 DEF Hide, Place, View, m
<1> HIDE DEF page, below
<1>7. /\ nav' \in View /\ nav'.pages = Append(nav.pages, page)
      /\ nav'.popLifecycleActive = nav.popLifecycleActive
      /\ ~nav'.transitioning /\ nav'.transitionKind = nav.transitionKind
      /\ nav'.x[page] = 0 /\ nav'.visible[page] /\ ~nav'.visible[below]
      /\ \A q \in Page : q # page /\ q # below => nav'.visible[q] = nav.visible[q]
  <2>1. 0 \in -Steps .. Steps
    BY DEF NavHypothesis, NavigationAssumption
  <2>2. /\ [m.x EXCEPT ![below] = 0] \in [Page -> -Steps .. Steps]
        /\ [m.visible EXCEPT ![below] = FALSE] \in [Page -> BOOLEAN]
        /\ [m.x EXCEPT ![below] = 0][page] = 0
        /\ [m.visible EXCEPT ![below] = FALSE][page]
        /\ ~[m.visible EXCEPT ![below] = FALSE][below]
        /\ \A q \in Page : q # page /\ q # below =>
             [m.visible EXCEPT ![below] = FALSE][q] = nav.visible[q]
    BY <1>1, <1>2, <1>5, <2>1 DEF View
  <2>3. /\ nav' \in View /\ nav'.pages = m.pages
        /\ nav'.popLifecycleActive = m.popLifecycleActive
        /\ nav'.transitioning <=> m.transitioning
        /\ nav'.transitionKind = m.transitionKind
        /\ nav'.x = [m.x EXCEPT ![below] = 0]
        /\ nav'.visible = [m.visible EXCEPT ![below] = FALSE]
    BY <1>2, <1>6, <2>2 DEF View
  <2>4. /\ nav'.pages = Append(nav.pages, page)
        /\ nav'.popLifecycleActive = nav.popLifecycleActive
        /\ ~nav'.transitioning /\ nav'.transitionKind = nav.transitionKind
    BY <1>2, <2>3, Zenon
  <2> QED
    BY <2>2, <2>3, <2>4
<1>8. /\ There' \in Ending <=> There \in Ending
      /\ There' \in Removing <=> There \in Removing
      /\ There \in Removing => calls'[Len(calls')] = calls[Len(calls)]
  BY <1>1, <1>3, <1>4, GoesOnBelow
<1>9. anims' \in Seq(Tick) /\ "left" \notin Pushing /\ nav.transitionKind = "None"
  BY <1>1 DEF NavInv, NavTypes, Pushing, MotionIsWhole, View
<1>10. NavTypes' /\ RoutesMatch' /\ MotionIsWhole'
  BY <1>1, <1>4, <1>7, <1>8, <1>9, PushLands DEF page
<1>11. /\ Len(nav'.pages) >= 2 /\ nav'.pages # << >> /\ Upper' = page /\ Lower' = below
       /\ life'[page] = "WillEnter" /\ life'[below] = "DidLeave"
       /\ \A i \in 1 .. Len(nav'.pages) : i < Len(nav'.pages) - 1 =>
              i \in 1 .. Len(nav.pages) /\ i < Len(nav.pages) /\ nav'.pages[i] = nav.pages[i]
  BY <1>1, <1>4, <1>5, <1>7, GrownStack
<1>12. CallIsAnnounced'
  BY <1>4, <1>7, <1>11 DEF CallIsAnnounced, Closing
<1>13. ASSUME ~spoiled' PROVE TicksBelong' /\ PagesInPlace' /\ PagesTold'
  <2>1. TicksBelong /\ PagesInPlace /\ PagesTold
    BY <1>1, <1>13 DEF NavInv
  <2>2. TicksBelong'
    BY <1>1, <2>1, TicksRest
  <2>3. \A i \in 1 .. Len(nav.pages) : i < Len(nav.pages) =>
          ~nav.visible[nav.pages[i]] /\ life[nav.pages[i]] = "DidLeave"
    BY <1>1, <2>1, RestBelow
  <2>4. \A i \in 1 .. Len(nav'.pages) : i < Len(nav'.pages) - 1 =>
          ~nav'.visible[nav'.pages[i]] /\ life'[nav'.pages[i]] = "DidLeave"
    <3>1. ASSUME NEW i \in 1 .. Len(nav'.pages), i < Len(nav'.pages) - 1
          PROVE  ~nav'.visible[nav'.pages[i]] /\ life'[nav'.pages[i]] = "DidLeave"
      <4>1. i \in 1 .. Len(nav.pages) /\ i < Len(nav.pages) /\ nav'.pages[i] = nav.pages[i]
        BY <1>11, <3>1
      <4>2. nav.pages[i] \in Page /\ nav.pages[i] # page
        BY <1>1, <4>1
      <4>3. ~nav.visible[nav.pages[i]] /\ life[nav.pages[i]] = "DidLeave"
        BY <2>3, <4>1
      <4>4. nav.pages[i] # below
        <5>1. Len(nav.pages) >= 2
          BY <4>1, TopPages
        <5> QED
          BY <1>1, <4>1, <5>1, TopPages
      <4>5. nav'.visible[nav.pages[i]] = nav.visible[nav.pages[i]]
        BY <1>7, <4>2, <4>4
      <4>6. life'[nav.pages[i]] = life[nav.pages[i]]
        BY <1>1, <1>4, <4>2, <4>4
      <4> QED
        BY <4>1, <4>3, <4>5, <4>6
    <3> QED
      BY <3>1
  <2>5. PagesInPlace'
    BY <1>7, <1>11, <2>4 DEF PagesInPlace
  <2>6. PagesTold'
    BY <1>4, <1>7, <1>11, <2>4 DEF PagesTold, Closing
  <2> QED
    BY <2>2, <2>5, <2>6
<1> QED
  BY <1>4, <1>10, <1>12, <1>13 DEF NavInv

LEMMA PushAgreedKeeps ==
  ASSUME NavHypothesis, NavInv, PushAgreed
  PROVE  NavInv'
BY AgreedToPush, PushSlidesKeeps, PushFirstKeeps, PushJumpsKeeps

\* What is left of the view's part when a callback only starts or returns.
LEMMA ViewStays ==
  ASSUME NavInv, nav' = nav, routes' = routes, anims' = anims, running' = running,
         made' = made, spoiled' = spoiled, calls' \in Seq(Call), CallsNest',
         life' \in [Page -> Lives], Here \notin Pushing, Here' \notin Pushing,
         There' \in Ending <=> There \in Ending,
         There' \in Removing <=> There \in Removing,
         There \in Removing => calls'[Len(calls')].page = calls[Len(calls)].page,
         nav.transitioning => life' = life,
         CallIsAnnounced', ~spoiled /\ PagesTold => PagesTold'
  PROVE  NavInv'
<1>1. NavTypes'
  BY DEF NavInv, NavTypes
<1>2. RoutesMatch'
  BY RoutesStay, RouteNumbers
<1>3. MotionIsWhole'
  BY DEF NavInv, MotionIsWhole, Moves, Upper, Lower
<1>4. ASSUME ~spoiled' PROVE TicksBelong' /\ PagesInPlace' /\ PagesTold'
  <2>1. TicksBelong /\ PagesInPlace /\ PagesTold
    BY <1>4 DEF NavInv
  <2>2. TicksBelong'
    BY <2>1 DEF TicksBelong, Moves
  <2>3. PagesInPlace'
    BY <2>1 DEF PagesInPlace, Upper, Lower
  <2>4. PagesTold'
    BY <1>4, <2>1
  <2> QED
    BY <2>2, <2>3, <2>4
<1> QED
  BY <1>1, <1>2, <1>3, <1>4 DEF NavInv

\* pop: the page on top is asked first.
LEMMA PopKeeps ==
  ASSUME NavHypothesis, NavInv, NEW animated \in BOOLEAN, Pop(animated)
  PROVE  NavInv'
<1> DEFINE c == NewCall("popLeave", Upper, Lower, animated)
<1>1. /\ nav' = nav /\ routes' = routes /\ anims' = anims /\ running' = running
      /\ made' = made /\ spoiled' = spoiled /\ InApplication
      /\ ~nav.transitioning /\ Len(nav.pages) >= 2 /\ ~nav.popLifecycleActive
      /\ animated \/ calls = << >>
      /\ Dispatch(c, calls)
  <2>1. /\ Top(nav) = Upper /\ Below(nav) = Lower
        /\ Len(nav.pages) > 1 <=> Len(nav.pages) >= 2
    BY StackTypes DEF NavInv, NavTypes, TopOf, NextOf, Upper, Lower
  <2> QED
    BY <2>1 DEF Pop, Idle
<1>2. /\ Here \in Closing \cup {"none"} /\ Here \notin Pushing
      /\ Upper \in Page /\ Lower \in Page /\ Lower # Upper /\ nav.pages # << >>
      /\ life \in [Page -> Lives]
  BY <1>1, Applies, TopPages DEF NavInv, NavTypes
<1>3. /\ c \in Call /\ c.at = "popLeave" /\ c.page = Upper /\ c.below = Lower
      /\ c.animated = animated
      /\ Target(c) = Upper /\ Event(c) = "WillLeave"
  <2>1. "popLeave" \in Stand /\ "new" \in Lives
    BY DEF Stand, Lives
  <2>2. c \in Call /\ c.at = "popLeave" /\ c.page = Upper /\ c.below = Lower
        /\ c.animated = animated
    BY <1>2, <2>1 DEF Call, NewCall
  <2> HIDE DEF c
  <2> QED
    BY <2>2, Events
<1> HIDE DEF c
<1>4. "popLeave" \notin Ending /\ "popLeave" \notin Closing /\ "popLeave" \notin Removing
      /\ "popLeave" \notin Pushing /\ "none" \notin Ending /\ "none" \notin Removing
  BY DEF Ending, Closing, Removing, Pushing
<1>5. /\ calls' \in Seq(Call) /\ CallsNest' /\ calls' # << >> /\ Here' = "popLeave"
      /\ calls = << >> => There' = "popLeave" /\ There = "none" /\ Len(calls') = 1
      /\ calls # << >> => There' = There /\ calls'[Len(calls')] = calls[Len(calls)]
      /\ calls'[1].page = Upper /\ calls'[1].below = Lower
      /\ calls'[1].animated = animated /\ calls'[1].was = life[Upper]
      /\ life' = [life EXCEPT ![Upper] = "WillLeave"]
      /\ life' \in [Page -> Lives]
  BY <1>1, <1>2, <1>3, <1>4, CallBegins, CallTypes
<1>6. /\ There' \in Ending <=> There \in Ending
      /\ There' \in Removing <=> There \in Removing
      /\ There \in Removing => calls'[Len(calls')] = calls[Len(calls)]
  BY <1>4, <1>5
<1>7. Upper' = Upper /\ Lower' = Lower /\ life'[Upper] = "WillLeave" /\ life'[Lower] = life[Lower]
  BY <1>1, <1>2, <1>5 DEF Upper, Lower
<1>8. CallIsAnnounced'
  BY <1>1, <1>2, <1>4, <1>5, <1>7 DEF CallIsAnnounced
<1>9. ASSUME ~spoiled, PagesTold PROVE PagesTold'
  <2>1. Here # "popEnter"
    BY <1>2 DEF Closing
  <2>2. life[Upper] = "DidEnter"
    BY <1>1, <1>2, <1>9 DEF PagesTold
  <2>3. life[Lower] = "DidLeave"
    BY <1>1, <1>9, <2>1 DEF PagesTold
  <2>4. \A i \in 1 .. Len(nav.pages) : i < Len(nav.pages) - 1 => life'[nav.pages[i]] = "DidLeave"
    <3>1. ASSUME NEW i \in 1 .. Len(nav.pages), i < Len(nav.pages) - 1
          PROVE  life'[nav.pages[i]] = "DidLeave"
      <4>1. nav.pages[i] # Upper /\ nav.pages[i] \in Page
        BY <1>1, <3>1, TopPages
      <4>2. life[nav.pages[i]] = "DidLeave"
        BY <1>9, <3>1 DEF PagesTold
      <4> QED
        BY <1>2, <1>5, <4>1, <4>2
    <3> QED
      BY <3>1
  <2> QED
    BY <1>1, <1>4, <1>5, <1>7, <2>2, <2>3, <2>4 DEF PagesTold
<1> QED
  BY <1>1, <1>2, <1>4, <1>5, <1>6, <1>8, <1>9, ViewStays

\* Then the one below it.
LEMMA PopMayLeaveKeeps ==
  ASSUME NavHypothesis, NavInv, PopMayLeave
  PROVE  NavInv'
<1> DEFINE c == [calls[1] EXCEPT !.at = "popEnter"]
<1>1. /\ calls # << >> /\ Here = "popLeave" /\ GoOn("popEnter")
      /\ nav' = nav /\ routes' = routes /\ anims' = anims /\ running' = running
      /\ made' = made /\ spoiled' = spoiled
  BY CallTypes DEF PopMayLeave
<1>2. /\ ~nav.transitioning /\ Len(nav.pages) >= 2 /\ ~nav.popLifecycleActive
      /\ calls[1].page = Upper /\ calls[1].below = Lower /\ life[Upper] = "WillLeave"
      /\ calls[1].animated \/ Len(calls) = 1
      /\ Upper \in Page /\ Lower \in Page /\ Lower # Upper /\ nav.pages # << >>
      /\ life \in [Page -> Lives]
  BY <1>1, TopPages DEF NavInv, NavTypes, CallIsAnnounced, Closing
<1>3. /\ Here \notin Ending /\ "popEnter" \notin Ending /\ "popEnter" \notin Pushing
      /\ Here \notin Pushing /\ "popEnter" \in Stand /\ "popEnter" \notin Closing
  BY <1>1 DEF Ending, Pushing, Stand, Closing
<1>4. c \in Call /\ Target(c) = Lower /\ Event(c) = "WillEnter"
  <2>1. c \in Call /\ c.at = "popEnter" /\ c.below = Lower
    BY <1>1, <1>2, <1>3, CallTypes DEF Call
  <2> HIDE DEF c
  <2> QED
    BY <2>1, Events
<1>5. /\ calls' \in Seq(Call) /\ CallsNest' /\ Here' = "popEnter"
      /\ Len(calls) = 1 => There' = "popEnter"
      /\ Len(calls) # 1 => There' = There /\ calls'[Len(calls')] = calls[Len(calls)]
      /\ calls'[1].page = Upper /\ calls'[1].below = Lower
      /\ calls'[1].animated = calls[1].animated /\ calls'[1].was = life[Lower]
      /\ life' = [life EXCEPT ![Lower] = "WillEnter"]
      /\ life' \in [Page -> Lives] /\ Len(calls') = Len(calls)
  BY <1>1, <1>2, <1>3, <1>4, CallGoesOn
<1> HIDE DEF c
<1>6. /\ There' \in Ending <=> There \in Ending
      /\ There' \in Removing <=> There \in Removing
      /\ There \in Removing => calls'[Len(calls')] = calls[Len(calls)]
  BY <1>1, <1>3, <1>5, GoesOnBelow
<1>7. Upper' = Upper /\ Lower' = Lower /\ life'[Upper] = "WillLeave" /\ life'[Lower] = "WillEnter"
  BY <1>1, <1>2, <1>5 DEF Upper, Lower
<1>8. calls'[1].animated \/ Len(calls') = 1
  BY <1>2, <1>5
<1>9. CallIsAnnounced'
  BY <1>1, <1>2, <1>3, <1>5, <1>7, <1>8 DEF CallIsAnnounced
<1>10. ASSUME ~spoiled, PagesTold PROVE PagesTold'
  <2>1. life[Lower] = "DidLeave"
    BY <1>1, <1>2, <1>10 DEF PagesTold
  <2>2. \A i \in 1 .. Len(nav.pages) : i < Len(nav.pages) - 1 => life'[nav.pages[i]] = "DidLeave"
    <3>1. ASSUME NEW i \in 1 .. Len(nav.pages), i < Len(nav.pages) - 1
          PROVE  life'[nav.pages[i]] = "DidLeave"
      <4>1. nav.pages[i] # Lower /\ nav.pages[i] \in Page
        BY <1>2, <3>1, TopPages
      <4>2. life[nav.pages[i]] = "DidLeave"
        BY <1>10, <3>1 DEF PagesTold
      <4> QED
        BY <1>2, <1>5, <4>1, <4>2
    <3> QED
      BY <3>1
  <2> QED
    BY <1>1, <1>3, <1>5, <2>1, <2>2 DEF PagesTold
<1> QED
  BY <1>1, <1>2, <1>3, <1>5, <1>6, <1>9, <1>10, ViewStays

\* The one below refuses: the one on top is told that it stays.
LEMMA VetoPopEnterKeeps ==
  ASSUME NavHypothesis, NavInv, VetoPopEnter
  PROVE  NavInv'
<1> DEFINE again == [calls[1] EXCEPT !.at = "popRestore", !.was = "new"]
<1>1. /\ calls # << >> /\ Here = "popEnter"
      /\ calls' = <<again>> \o Tail(calls)
      /\ life' = [life EXCEPT ![calls[1].below] = calls[1].was, ![calls[1].page] = "DidEnter"]
      /\ nav' = nav /\ routes' = routes /\ anims' = anims /\ running' = running
      /\ made' = made /\ spoiled' = spoiled
  <2>1. /\ calls # << >> /\ Head(calls).at = "popEnter"
        /\ calls' = <<[Head(calls) EXCEPT !.at = "popRestore", !.was = "new"]>> \o Tail(calls)
        /\ life' = [life EXCEPT ![Head(calls).below] = Head(calls).was,
                                ![Head(calls).page] = "DidEnter"]
        /\ nav' = nav /\ routes' = routes /\ anims' = anims /\ running' = running
        /\ made' = made /\ spoiled' = spoiled
    BY DEF VetoPopEnter
  <2>2. Head(calls) = calls[1] /\ Here = calls[1].at
    BY <2>1, CallTypes
  <2> HIDE DEF Here
  <2> QED
    BY <2>1, <2>2, Zenon
<1>2. /\ ~nav.transitioning /\ Len(nav.pages) >= 2 /\ ~nav.popLifecycleActive
      /\ calls[1].page = Upper /\ calls[1].below = Lower
      /\ Upper \in Page /\ Lower \in Page /\ Lower # Upper /\ nav.pages # << >>
      /\ life \in [Page -> Lives]
  BY <1>1, TopPages DEF NavInv, NavTypes, CallIsAnnounced, Closing
<1>3. /\ Here \notin Ending /\ "popRestore" \notin Ending /\ "popRestore" \notin Pushing
      /\ Here \notin Pushing /\ "popRestore" \in Stand /\ "popRestore" \in Closing
      /\ "popRestore" # "none"
  BY <1>1 DEF Ending, Pushing, Stand, Closing
<1>4. again \in Call /\ again.at = "popRestore" /\ calls[1].was \in Lives
  <2>1. "new" \in Lives /\ calls[1] \in Call
    BY <1>1, CallTypes DEF Lives
  <2> QED
    BY <1>3, <2>1 DEF Call
<1> HIDE DEF again
<1>5. /\ Tail(calls) \in Seq(Call) /\ Len(Tail(calls)) = Len(calls) - 1 /\ Len(calls) \in Nat
      /\ Tail(calls) = << >> <=> Len(calls) = 1
      /\ Tail(calls) # << >> => Tail(calls)[Len(Tail(calls))] = calls[Len(calls)]
      /\ There = calls[Len(calls)].at
  BY <1>1, CallsBelow, CallTypes
<1>6. /\ calls' \in Seq(Call) /\ Len(calls') = Len(Tail(calls)) + 1 /\ calls'[1].at = "popRestore"
      /\ \A i \in 1 .. Len(Tail(calls)) : calls'[i + 1] = Tail(calls)[i]
  <2> DEFINE r == Tail(calls)
             t == <<again>> \o r
  <2>1. r \in Seq(Call)
    BY <1>5
  <2> HIDE DEF r
  <2>2. t \in Seq(Call) /\ Len(t) = Len(r) + 1 /\ t[1] = again
        /\ \A i \in 1 .. Len(r) : t[i + 1] = r[i]
    BY <1>4, <2>1
  <2>3. calls' = t
    BY <1>1 DEF r
  <2> HIDE DEF t
  <2> QED
    BY <1>4, <2>2, <2>3 DEF r
<1>7. /\ CallsNest' /\ calls' # << >> /\ Here' = "popRestore"
      /\ Tail(calls) = << >> => There' = "popRestore"
      /\ Tail(calls) # << >> => /\ calls'[Len(calls')] = Tail(calls)[Len(Tail(calls))]
                                /\ There' = Tail(calls)[Len(Tail(calls))].at
  BY <1>1, <1>3, <1>5, <1>6, CallsBelow, Nested
<1>8. /\ Len(calls) = 1 => There' = "popRestore"
      /\ Len(calls) # 1 => There' = There /\ calls'[Len(calls')] = calls[Len(calls)]
  BY <1>5, <1>7, Zenon
<1>9. /\ There' \in Ending <=> There \in Ending
      /\ There' \in Removing <=> There \in Removing
      /\ There \in Removing => calls'[Len(calls')] = calls[Len(calls)]
  BY <1>1, <1>3, <1>8, GoesOnBelow
<1>10. /\ life' \in [Page -> Lives] /\ life'[Upper] = "DidEnter"
       /\ life'[Lower] = calls[1].was
       /\ \A q \in Page : q # Upper /\ q # Lower => life'[q] = life[q]
  <2>1. "DidEnter" \in Lives
    BY DEF Lives
  <2> QED
    BY <1>1, <1>2, <1>4, <2>1
<1>11. Upper' = Upper /\ Lower' = Lower
  BY <1>1 DEF Upper, Lower
<1>12. CallIsAnnounced'
  BY <1>2, <1>3, <1>7 DEF CallIsAnnounced, Closing
<1>13. ASSUME ~spoiled, PagesTold PROVE PagesTold'
  <2>1. calls[1].was = "DidLeave"
    BY <1>1, <1>13 DEF PagesTold
  <2>2. \A i \in 1 .. Len(nav.pages) : i < Len(nav.pages) - 1 => life'[nav.pages[i]] = "DidLeave"
    BY <1>2, <1>10, <1>13, TopPages DEF PagesTold
  <2> QED
    BY <1>1, <1>7, <1>10, <1>11, <2>1, <2>2 DEF PagesTold
<1> QED
  BY <1>1, <1>2, <1>3, <1>6, <1>7, <1>9, <1>10, <1>12, <1>13, ViewStays

\* The last callback of a call returns.
LEMMA ReturnKeeps ==
  ASSUME NavInv, calls # << >>, Here \in {"entered", "popRestore"}, calls' = Tail(calls),
         nav' = nav, routes' = routes, anims' = anims, running' = running, life' = life,
         made' = made, spoiled' = spoiled
  PROVE  NavInv'
<1>1. Here \in Closing /\ Here \notin Ending /\ Here \notin Pushing /\ Here # "popEnter"
  BY DEF Closing, Ending, Pushing
<1>2. /\ calls' \in Seq(Call) /\ CallsNest' /\ Here' \in Closing \cup {"none"}
      /\ There' \in Ending <=> There \in Ending
      /\ There' \in Removing <=> There \in Removing
      /\ There \in Removing => calls'[Len(calls')] = calls[Len(calls)]
  BY <1>1, CallEnds, EndsBelow
<1>3. /\ Here' \notin Pushing
      /\ Here' \notin {"leave", "enter", "restore", "left", "undoLeft", "popLeave",
                       "popEnter", "popLeft"}
  BY <1>2 DEF Closing, Pushing
<1>4. CallIsAnnounced'
  BY <1>2, <1>3 DEF CallIsAnnounced
<1>5. PagesTold => PagesTold'
  BY <1>1, <1>3 DEF PagesTold, Upper, Lower
<1>6. life' \in [Page -> Lives]
  BY DEF NavInv, NavTypes
<1> QED
  BY <1>1, <1>2, <1>3, <1>4, <1>5, <1>6, ViewStays

LEMMA PopRestoredKeeps ==
  ASSUME NavHypothesis, NavInv, PopRestored
  PROVE  NavInv'
<1>1. /\ calls # << >> /\ Here = "popRestore" /\ calls' = Tail(calls)
      /\ nav' = nav /\ routes' = routes /\ anims' = anims /\ running' = running
      /\ life' = life /\ made' = made /\ spoiled' = spoiled
  BY CallTypes DEF PopRestored
<1> QED
  BY <1>1, ReturnKeeps

LEMMA EnteredReturnsKeeps ==
  ASSUME NavHypothesis, NavInv, EnteredReturns
  PROVE  NavInv'
<1>1. /\ calls # << >> /\ Here = "entered" /\ calls' = Tail(calls)
      /\ nav' = nav /\ routes' = routes /\ anims' = anims /\ running' = running
      /\ life' = life /\ made' = made /\ spoiled' = spoiled
  BY CallTypes DEF EnteredReturns
<1> QED
  BY <1>1, ReturnKeeps

\* A page removed from an ascending stack, first by its place and then by its name.
LEMMA TopRemoved ==
  ASSUME NEW S, NEW s \in Seq(S), s # << >>
  PROVE  SubSeq(s, 1, Len(s) - 1) = Without(s, Len(s))
<1> DEFINE n == Len(s) - 1
<1>1. n \in Nat /\ n = Len(s) - 1
  OBVIOUS
<1>2. /\ SubSeq(s, 1, n) \in Seq(S) /\ Len(SubSeq(s, 1, n)) = n
      /\ \A i \in 1 .. n : SubSeq(s, 1, n)[i] = s[i]
  BY WithoutLast
<1> DEFINE t == SubSeq(s, 1, n)
<1>3. \A i \in 1 .. n : i < Len(s)
  BY <1>1
<1> HIDE DEF n, t
<1>4. t \in Seq(S) /\ Len(t) = n /\ \A i \in 1 .. n : t[i] = IF i < Len(s) THEN s[i] ELSE s[i + 1]
  BY <1>2, <1>3 DEF t
<1>5. t = [i \in 1 .. n |-> IF i < Len(s) THEN s[i] ELSE s[i + 1]]
  BY <1>4
<1> QED
  BY <1>5 DEF t, n, Without

LEMMA RemovedAt ==
  ASSUME NEW S, NEW s \in Seq(S), NEW k \in 1 .. Len(s)
  PROVE  RemoveAt(s, k) = Without(s, k) /\ Without(s, k) \in Seq(S)
<1> DEFINE n == Len(s)
           a == SubSeq(s, 1, k - 1)
           b == SubSeq(s, k + 1, n)
<1>1. n \in Nat /\ k \in Nat /\ 1 <= k /\ k <= n
  OBVIOUS
<1>2. /\ a \in Seq(S) /\ Len(a) = k - 1 /\ \A i \in 1 .. k - 1 : a[i] = s[i]
  BY <1>1
<1>3. /\ b \in Seq(S) /\ Len(b) = n - k /\ \A i \in 1 .. n - k : b[i] = s[i + k]
  BY <1>1
<1>4. RemoveAt(s, k) = a \o b
  BY DEF RemoveAt
<1> HIDE DEF a, b
<1>5. /\ a \o b \in Seq(S) /\ Len(a \o b) = n - 1
      /\ \A i \in 1 .. n - 1 : (a \o b)[i] = IF i < k THEN s[i] ELSE s[i + 1]
  <2>1. a \o b \in Seq(S) /\ Len(a \o b) = Len(a) + Len(b)
    BY <1>2, <1>3, ConcatProperties
  <2>2. \A i \in 1 .. Len(a) + Len(b) :
          (a \o b)[i] = IF i <= Len(a) THEN a[i] ELSE b[i - Len(a)]
    BY <1>2, <1>3, ConcatProperties
  <2>3. Len(a) + Len(b) = n - 1
    BY <1>1, <1>2, <1>3
  <2>4. ASSUME NEW i \in 1 .. n - 1
        PROVE  (a \o b)[i] = IF i < k THEN s[i] ELSE s[i + 1]
    <3>1. (a \o b)[i] = IF i <= k - 1 THEN a[i] ELSE b[i - (k - 1)]
      BY <1>2, <2>2, <2>3
    <3>2. CASE i < k
      BY <1>1, <1>2, <3>1, <3>2
    <3>3. CASE ~(i < k)
      <4>1. i - (k - 1) \in 1 .. n - k /\ (i - (k - 1)) + k = i + 1 /\ ~(i <= k - 1)
        BY <1>1, <3>3
      <4>2. b[i - (k - 1)] = s[(i - (k - 1)) + k]
        BY <1>3, <4>1
      <4> QED
        BY <3>1, <3>3, <4>1, <4>2
    <3> QED
      BY <3>2, <3>3
  <2> QED
    BY <2>1, <2>3, <2>4
<1> DEFINE c == a \o b
<1> HIDE DEF c, n
<1>6. c \in Seq(S) /\ Len(c) = n - 1
      /\ \A i \in 1 .. n - 1 : c[i] = IF i < k THEN s[i] ELSE s[i + 1]
  BY <1>5 DEF c
<1>7. c = [i \in 1 .. n - 1 |-> IF i < k THEN s[i] ELSE s[i + 1]]
  BY <1>6
<1> QED
  BY <1>4, <1>6, <1>7 DEF c, n, Without

LEMMA RemovedFirst ==
  ASSUME NEW S, NEW s \in Seq(S), NEW k \in 1 .. Len(s),
         \A i \in 1 .. Len(s) : s[i] = s[k] => i = k
  PROVE  RemoveFirst(s, s[k]) = Without(s, k)
<1>1. {i \in 1 .. Len(s) : s[i] = s[k]} = {k}
  OBVIOUS
<1>2. Min({k}) = k
  BY DEF Min
<1>3. SelectInSeq(s, LAMBDA v : v = s[k]) = k
  BY <1>1, <1>2, Zenon DEF SelectInSeq
<1>4. RemoveFirst(s, s[k]) = RemoveAt(s, k)
  BY <1>3 DEF RemoveFirst
<1> QED
  BY <1>4, RemovedAt

\* Both agreed to the pop.
LEMMA AgreedToPop ==
  ASSUME NavHypothesis, NavInv, PopAgreed
  PROVE  /\ calls # << >> /\ Here = "popEnter" /\ calls[1] \in Call /\ nav \in View
         /\ calls[1].page = Upper /\ calls[1].below = Lower
         /\ routes' = routes /\ running' = running /\ made' = made /\ spoiled' = spoiled
         /\ life \in [Page -> Lives] /\ life[Upper] = "WillLeave" /\ life[Lower] = "WillEnter"
         /\ Upper \in Page /\ Lower \in Page /\ Upper # Lower
         /\ Len(nav.pages) >= 2 /\ nav.pages # << >> /\ ~nav.transitioning
         /\ ~nav.popLifecycleActive /\ There \notin Ending /\ There \notin Removing
         /\ Here \notin Ending /\ Here \notin Pushing
         /\ \/ /\ nav' = Start(Show([nav EXCEPT !.popLifecycleActive = TRUE], Lower),
                                     "Pop")
               /\ anims' = Append(anims, NewTick("Pop"))
               /\ calls' = Tail(calls) /\ life' = life
            \/ /\ nav' = LandPop(Show([nav EXCEPT !.popLifecycleActive = TRUE], Lower))
               /\ GoOn("popLeft") /\ anims' = anims /\ Len(calls) = 1
<1>1. /\ calls # << >> /\ Head(calls).at = "popEnter"
      /\ routes' = routes /\ running' = running /\ made' = made /\ spoiled' = spoiled
  BY DEF PopAgreed
<1>2. Head(calls) = calls[1] /\ Here = "popEnter" /\ calls[1] \in Call
  BY <1>1, CallTypes
<1>3. /\ nav \in View /\ life \in [Page -> Lives] /\ ~nav.transitioning
      /\ Len(nav.pages) >= 2 /\ calls[1].page = Upper /\ calls[1].below = Lower
      /\ life[Upper] = "WillLeave" /\ life[Lower] = "WillEnter" /\ ~nav.popLifecycleActive
      /\ calls[1].animated \/ Len(calls) = 1
  BY <1>2 DEF NavInv, NavTypes, CallIsAnnounced, Closing
<1>4. Upper \in Page /\ Lower \in Page /\ Upper # Lower /\ nav.pages # << >>
  BY <1>3, TopPages
<1>5. Here \notin Ending /\ Here \notin Pushing
  BY <1>2 DEF Ending, Pushing
<1>6. There \notin Ending /\ There \notin Removing
  BY <1>3 DEF NavInv, MotionIsWhole, Ending, Removing
<1>7. LET c == calls[1]
          begun == Show([nav EXCEPT !.popLifecycleActive = TRUE], c.below)
      IN  \/ /\ c.animated
             /\ nav' = Start(begun, "Pop")
             /\ anims' = Append(anims, NewTick("Pop"))
             /\ calls' = Tail(calls)
             /\ UNCHANGED life
          \/ /\ ~c.animated
             /\ nav' = LandPop(begun)
             /\ GoOn("popLeft")
             /\ UNCHANGED anims
  <2>1. Head(calls) = calls[1]
    BY <1>2
  <2> QED
    BY <2>1, Zenon DEF PopAgreed
<1> HIDE DEF Upper, Lower
<1> QED
  BY <1>1, <1>2, <1>3, <1>4, <1>5, <1>6, <1>7

\* The page on top slides out.
LEMMA PopSlidesKeeps ==
  ASSUME NavHypothesis, NavInv, PopAgreed,
         nav' = Start(Show([nav EXCEPT !.popLifecycleActive = TRUE], Lower), "Pop"),
         anims' = Append(anims, NewTick("Pop")), calls' = Tail(calls), life' = life
  PROVE  NavInv'
<1> DEFINE below == Lower
<1>1. /\ calls # << >> /\ Here = "popEnter" /\ calls[1] \in Call /\ nav \in View
      /\ routes' = routes /\ running' = running /\ made' = made /\ spoiled' = spoiled
      /\ life \in [Page -> Lives] /\ life[Upper] = "WillLeave" /\ life[Lower] = "WillEnter"
      /\ Upper \in Page /\ Lower \in Page /\ Upper # Lower
      /\ Len(nav.pages) >= 2 /\ nav.pages # << >> /\ ~nav.transitioning
      /\ There \notin Ending /\ There \notin Removing
      /\ Here \notin Ending /\ Here \notin Pushing
  BY AgreedToPop
<1> HIDE DEF below
<1>2. nav' = [nav EXCEPT !.popLifecycleActive = TRUE,
                         !.visible = [nav.visible EXCEPT ![below] = TRUE],
                         !.transitioning = TRUE, !.transitionKind = "Pop", !.progress = 0]
  BY <1>1 DEF Start, Show, View, below
<1>3. /\ nav' \in View /\ nav'.pages = nav.pages /\ nav'.popLifecycleActive
      /\ nav'.transitioning /\ nav'.transitionKind = "Pop"
      /\ nav'.visible = [nav.visible EXCEPT ![below] = TRUE]
  <2>1. 0 \in 0 .. Steps
    BY DEF NavHypothesis, NavigationAssumption
  <2>2. [nav.visible EXCEPT ![below] = TRUE] \in [Page -> BOOLEAN]
    BY <1>1 DEF View, below
  <2> QED
    BY <1>1, <1>2, <2>1, <2>2 DEF View
<1>4. /\ calls' \in Seq(Call) /\ CallsNest' /\ Here' \in Closing \cup {"none"}
      /\ There' \notin Ending /\ There' \notin Removing
  BY <1>1, CallEnds, EndsBelow
<1>5. /\ Here' \notin Pushing
      /\ Here' \notin {"leave", "enter", "restore", "left", "undoLeft", "popLeave",
                       "popEnter", "popLeft"}
  BY <1>4 DEF Closing, Pushing
<1>6. anims' \in Seq(Tick) /\ (TicksBelong => TicksBelong')
  <2>1. Moves("Pop")'
    BY <1>3 DEF Moves
  <2> QED
    BY <1>1, <2>1, TickBegins
<1>7. NavTypes'
  BY <1>1, <1>3, <1>4, <1>6 DEF NavInv, NavTypes
<1>8. RoutesMatch'
  BY <1>1, <1>3, <1>4, <1>5, RoutesStay, RouteNumbers
<1>9. Upper' = Upper /\ Lower' = Lower
  BY <1>3 DEF Upper, Lower
<1>10. MotionIsWhole'
  BY <1>1, <1>3, <1>4, <1>9 DEF MotionIsWhole, Moves
<1>11. CallIsAnnounced'
  BY <1>4, <1>5 DEF CallIsAnnounced
<1>12. ASSUME ~spoiled' PROVE TicksBelong' /\ PagesInPlace' /\ PagesTold'
  <2>1. TicksBelong /\ PagesInPlace /\ PagesTold
    BY <1>1, <1>12 DEF NavInv
  <2>2. \A q \in Page : q # Lower => nav'.visible[q] = nav.visible[q]
    BY <1>1, <1>3 DEF View, below
  <2>3. \A i \in 1 .. Len(nav.pages) :
          i < Len(nav.pages) - 1 => ~nav'.visible[nav.pages[i]]
    <3>1. \A i \in 1 .. Len(nav.pages) :
            i < Len(nav.pages) - 1 => nav.pages[i] \in Page /\ nav.pages[i] # Lower
      BY <1>1, TopPages
    <3> QED
      BY <2>1, <2>2, <3>1 DEF PagesInPlace
  <2>4. nav'.visible[Upper]
    BY <1>1, <2>1, <2>2 DEF PagesInPlace
  <2>5. PagesInPlace'
    BY <1>3, <1>9, <2>3, <2>4 DEF PagesInPlace
  <2>6. PagesTold'
    BY <1>3, <1>5, <2>1 DEF PagesTold
  <2> QED
    BY <1>6, <2>1, <2>5, <2>6
<1> QED
  BY <1>4, <1>7, <1>8, <1>10, <1>11, <1>12 DEF NavInv

\* The page on top is off the stack: what holds when its last callbacks begin.
LEMMA PopLands ==
  ASSUME NavHypothesis, NavInv, NEW n \in View, n.pages = nav.pages, Len(nav.pages) >= 2,
         n.popLifecycleActive, nav' = LandPop(n), There \notin Removing,
         Here \notin Pushing, Here' = "popLeft", There' = "popLeft",
         calls' \in Seq(Call), Len(calls') = 1, calls'[1].page = Upper,
         calls'[1].below = Lower, life' = [life EXCEPT ![Upper] = "DidLeave"],
         life[Lower] = "WillEnter", routes' = routes, made' = made
  PROVE  /\ nav' \in View /\ life' \in [Page -> Lives]
         /\ RoutesMatch' /\ MotionIsWhole' /\ CallIsAnnounced'
         /\ (\A i \in 1 .. Len(nav.pages) : i < Len(nav.pages) - 1 => ~n.visible[nav.pages[i]])
               => PagesInPlace'
         /\ PagesTold => PagesTold'
<1> DEFINE m == Len(nav.pages)
<1>1. /\ m \in Nat /\ Upper \in Page /\ Lower \in Page /\ Lower # Upper
      /\ nav.pages \in Seq(Page) /\ nav.pages # << >> /\ life \in [Page -> Lives]
      /\ \A i \in 1 .. Len(nav.pages) :
           i < Len(nav.pages) - 1 => nav.pages[i] # Upper /\ nav.pages[i] # Lower
      /\ \A i \in 1 .. Len(nav.pages) : nav.pages[i] \in Page
  BY TopPages DEF NavInv, NavTypes
<1>2. NextOf(n) = Lower
  BY DEF NextOf, Lower
<1>3. /\ nav' \in View /\ nav'.popLifecycleActive = n.popLifecycleActive
      /\ nav'.pages = SubSeq(nav.pages, 1, Len(nav.pages) - 1)
      /\ ~nav'.transitioning /\ nav'.transitionKind = "None"
      /\ nav'.x[Lower] = 0
      /\ nav'.visible = [n.visible EXCEPT ![Lower] = TRUE]
  BY <1>2, LandPopRests DEF NavHypothesis
<1>4. /\ nav'.pages = Without(nav.pages, Len(nav.pages)) /\ Len(nav'.pages) = m - 1
      /\ \A i \in 1 .. m - 1 : nav'.pages[i] = nav.pages[i]
  BY <1>1, <1>3, TopRemoved, WithoutLast
<1>5. life' \in [Page -> Lives] /\ life'[Lower] = "WillEnter"
  <2>1. "DidLeave" \in Lives
    BY DEF Lives
  <2> QED
    BY <1>1, <2>1
<1>6. "popLeft" \in Removing /\ "popLeft" \in Ending /\ "popLeft" \notin Pushing
      /\ "popLeft" \notin Closing
  BY DEF Removing, Ending, Pushing, Closing
<1>7. RoutesMatch'
  <2>1. nav.pages = routes /\ Based' = routes
    BY <1>6 DEF NavInv, RoutesMatch, Based
  <2>2. Ascending(routes') /\ \A i \in 1 .. Len(routes') : routes'[i] <= made'
    BY DEF NavInv, RoutesMatch
  <2>3. Len(routes) \in 1 .. Len(routes) /\ routes[Len(routes)] = Upper
    BY <1>1, <2>1 DEF Upper
  <2>4. calls'[Len(calls')].page = Upper
    OBVIOUS
  <2>5. \E k \in 1 .. Len(Based') :
          Based'[k] = calls'[Len(calls')].page /\ nav'.pages = Without(Based', k)
    BY <1>4, <2>1, <2>3, <2>4
  <2> QED
    BY <1>6, <2>2, <2>5 DEF RoutesMatch, Ascending, Without
<1>8. Moves("Push")' = FALSE /\ Moves("Pop")' = FALSE
  BY <1>3 DEF Moves
<1>9. MotionIsWhole'
  BY <1>3, <1>6, <1>8 DEF MotionIsWhole
<1>10. Upper' = Lower /\ nav'.pages # << >>
  <2>1. m - 1 \in 1 .. m - 1 /\ m - 1 >= 1
    BY <1>1
  <2>2. Upper' = nav'.pages[m - 1]
    BY <1>4 DEF Upper
  <2>3. nav'.pages # << >>
    <3>1. Len(nav'.pages) >= 1
      BY <1>4, <2>1
    <3> QED
      BY <3>1
  <2> QED
    BY <1>4, <2>1, <2>2, <2>3 DEF Lower
<1> HIDE DEF m
<1>11. CallIsAnnounced'
  BY <1>3, <1>5, <1>6, <1>10 DEF CallIsAnnounced
<1>12. /\ \A i \in 1 .. Len(nav'.pages) : i < Len(nav'.pages) - 1 =>
              i \in 1 .. Len(nav.pages) /\ i < Len(nav.pages) - 1 /\ nav'.pages[i] = nav.pages[i]
       /\ Len(nav'.pages) >= 2 => \E i \in 1 .. Len(nav.pages) :
              i < Len(nav.pages) - 1 /\ Lower' = nav.pages[i]
  <2>1. Len(nav.pages) = m /\ Len(nav'.pages) = m - 1
    BY <1>4 DEF m
  <2>2. \A i \in 1 .. m - 1 : i < m - 1 - 1 => i \in 1 .. m /\ i < m - 1
    BY <1>1
  <2>3. Lower' = nav'.pages[m - 1 - 1]
    BY <2>1 DEF Lower
  <2>4. m - 1 >= 2 => m - 2 \in 1 .. m - 1 /\ m - 2 \in 1 .. m /\ m - 2 < m - 1 /\ m - 1 - 1 = m - 2
    BY <1>1
  <2> QED
    BY <1>4, <2>1, <2>2, <2>3, <2>4
<1>13. ASSUME \A i \in 1 .. Len(nav.pages) : i < Len(nav.pages) - 1 => ~n.visible[nav.pages[i]]
       PROVE  PagesInPlace'
  <2>1. n.visible \in [Page -> BOOLEAN]
    BY DEF View
  <2>2. \A i \in 1 .. Len(nav.pages) : i < Len(nav.pages) - 1 => ~nav'.visible[nav.pages[i]]
    BY <1>1, <1>3, <1>13, <2>1
  <2>3. nav'.visible[Lower]
    BY <1>1, <1>3, <2>1
  <2>4. \A i \in 1 .. Len(nav'.pages) : i < Len(nav'.pages) - 1 => ~nav'.visible[nav'.pages[i]]
    BY <1>12, <2>2
  <2>5. Len(nav'.pages) >= 2 => ~nav'.visible[Lower']
    BY <1>12, <2>2
  <2> QED
    BY <1>3, <1>10, <2>3, <2>4, <2>5 DEF PagesInPlace
<1>14. ASSUME PagesTold PROVE PagesTold'
  <2>1. \A i \in 1 .. Len(nav.pages) : i < Len(nav.pages) - 1 => life'[nav.pages[i]] = "DidLeave"
    BY <1>1, <1>14 DEF PagesTold
  <2>2. \A i \in 1 .. Len(nav'.pages) : i < Len(nav'.pages) - 1 => life'[nav'.pages[i]] = "DidLeave"
    <3>1. ASSUME NEW i \in 1 .. Len(nav'.pages), i < Len(nav'.pages) - 1
          PROVE  life'[nav'.pages[i]] = "DidLeave"
      <4>1. i \in 1 .. Len(nav.pages) /\ i < Len(nav.pages) - 1 /\ nav'.pages[i] = nav.pages[i]
        BY <1>12, <3>1
      <4>2. life'[nav.pages[i]] = "DidLeave"
        BY <2>1, <4>1
      <4> QED
        BY <4>1, <4>2, Zenon
    <3> QED
      BY <3>1
  <2>3. Len(nav'.pages) >= 2 => life'[Lower'] = "DidLeave"
    BY <1>12, <2>1
  <2> QED
    BY <1>6, <2>2, <2>3 DEF PagesTold
<1> QED
  BY <1>3, <1>5, <1>7, <1>9, <1>11, <1>13, <1>14

\* Without an animation it is off the stack at once.
LEMMA PopJumpsKeeps ==
  ASSUME NavHypothesis, NavInv, PopAgreed,
         nav' = LandPop(Show([nav EXCEPT !.popLifecycleActive = TRUE], Lower)),
         GoOn("popLeft"), anims' = anims, Len(calls) = 1
  PROVE  NavInv'
<1> DEFINE below == Lower
           n == Show([nav EXCEPT !.popLifecycleActive = TRUE], below)
           c == [calls[1] EXCEPT !.at = "popLeft"]
<1>1. /\ calls # << >> /\ Here = "popEnter" /\ calls[1] \in Call /\ nav \in View
      /\ calls[1].page = Upper /\ calls[1].below = Lower
      /\ routes' = routes /\ running' = running /\ made' = made /\ spoiled' = spoiled
      /\ life \in [Page -> Lives] /\ life[Lower] = "WillEnter"
      /\ Upper \in Page /\ Lower \in Page /\ Upper # Lower
      /\ Len(nav.pages) >= 2 /\ nav.pages # << >> /\ ~nav.transitioning
      /\ There \notin Removing /\ Here \notin Pushing
  BY AgreedToPop
<1>2. /\ n \in View /\ n.pages = nav.pages /\ n.popLifecycleActive
      /\ \A q \in Page : q # Lower => n.visible[q] = nav.visible[q]
  <2>1. below \in Page
    BY <1>1
  <2> HIDE DEF below
  <2>2. n = [nav EXCEPT !.popLifecycleActive = TRUE,
                        !.visible = [nav.visible EXCEPT ![below] = TRUE]]
    BY <1>1 DEF Show, View
  <2>3. [nav.visible EXCEPT ![below] = TRUE] \in [Page -> BOOLEAN]
    BY <1>1 DEF View
  <2> HIDE DEF n
  <2>4. /\ n \in View /\ n.pages = nav.pages /\ n.popLifecycleActive
        /\ n.visible = [nav.visible EXCEPT ![below] = TRUE]
    BY <1>1, <2>2, <2>3 DEF View
  <2>5. \A q \in Page : q # below => n.visible[q] = nav.visible[q]
    BY <1>1, <2>1, <2>4 DEF View
  <2> QED
    BY <2>4, <2>5 DEF below
<1>3. c \in Call /\ Target(c) = Upper /\ Event(c) = "DidLeave" /\ "popLeft" \in Stand
  <2>1. "popLeft" \in Stand
    BY DEF Stand, Ending
  <2>2. c \in Call /\ c.at = "popLeft" /\ c.page = Upper
    BY <1>1, <2>1 DEF Call
  <2> HIDE DEF c
  <2> QED
    BY <2>1, <2>2, Events
<1>4. /\ calls' \in Seq(Call) /\ CallsNest' /\ Here' = "popLeft" /\ There' = "popLeft"
      /\ calls'[1].page = Upper /\ calls'[1].below = Lower
      /\ life' = [life EXCEPT ![Upper] = "DidLeave"] /\ Len(calls') = 1
  BY <1>1, <1>3, CallGoesOn
<1> HIDE DEF n, c
<1>5. nav' = LandPop(n)
  BY DEF n
<1>6. /\ nav' \in View /\ life' \in [Page -> Lives]
      /\ RoutesMatch' /\ MotionIsWhole' /\ CallIsAnnounced'
      /\ (\A i \in 1 .. Len(nav.pages) : i < Len(nav.pages) - 1 => ~n.visible[nav.pages[i]])
            => PagesInPlace'
      /\ PagesTold => PagesTold'
  BY <1>1, <1>2, <1>4, <1>5, PopLands
<1>7. NavTypes'
  BY <1>1, <1>4, <1>6 DEF NavInv, NavTypes
<1>8. ASSUME ~spoiled' PROVE TicksBelong' /\ PagesInPlace' /\ PagesTold'
  <2>1. TicksBelong /\ PagesInPlace /\ PagesTold
    BY <1>1, <1>8 DEF NavInv
  <2>2. TicksBelong'
    BY <1>1, <2>1, TicksRest
  <2>3. \A i \in 1 .. Len(nav.pages) : i < Len(nav.pages) - 1 => ~n.visible[nav.pages[i]]
    <3>1. \A i \in 1 .. Len(nav.pages) :
            i < Len(nav.pages) - 1 => nav.pages[i] \in Page /\ nav.pages[i] # Lower
      BY <1>1, TopPages
    <3> QED
      BY <1>2, <2>1, <3>1 DEF PagesInPlace
  <2> QED
    BY <1>6, <2>1, <2>2, <2>3
<1> QED
  BY <1>4, <1>6, <1>7, <1>8 DEF NavInv

LEMMA PopAgreedKeeps ==
  ASSUME NavHypothesis, NavInv, PopAgreed
  PROVE  NavInv'
BY AgreedToPop, PopSlidesKeeps, PopJumpsKeeps

\* The page that leaves was told so; the one on top is told that it entered.
LEMMA LeftReturnsKeeps ==
  ASSUME NavHypothesis, NavInv, LeftReturns
  PROVE  NavInv'
<1> DEFINE at == NextCallback[calls[1].at]
           c == [calls[1] EXCEPT !.at = at]
<1>1. /\ calls # << >> /\ Here \in {"left", "popLeft", "undoLeft"} /\ GoOn(at)
      /\ Here = calls[1].at /\ calls[1] \in Call
      /\ nav' = nav /\ routes' = routes /\ anims' = anims /\ running' = running
      /\ made' = made /\ spoiled' = spoiled
  <2>1. /\ calls # << >> /\ Head(calls).at \in {"left", "popLeft", "undoLeft"}
        /\ GoOn(NextCallback[Head(calls).at])
        /\ nav' = nav /\ routes' = routes /\ anims' = anims /\ running' = running
        /\ made' = made /\ spoiled' = spoiled
    BY DEF LeftReturns, NextCallback
  <2>2. Head(calls) = calls[1] /\ Here = calls[1].at /\ calls[1] \in Call
    BY <2>1, CallTypes
  <2> HIDE DEF Here
  <2> QED
    BY <2>1, <2>2, Zenon
<1>2. /\ Here = "left" => at = "entered"
      /\ Here = "popLeft" => at = "popEntered"
      /\ Here = "undoLeft" => at = "undoEntered"
  BY <1>1 DEF NextCallback
<1> HIDE DEF at
<1>3. /\ ~nav.transitioning /\ nav.pages # << >> /\ Upper \in Page
      /\ Here = "popLeft" => calls[1].below = Upper
      /\ Here # "popLeft" => calls[1].page = Upper
      /\ life \in [Page -> Lives]
  <2>1. /\ ~nav.transitioning
        /\ Here = "popLeft" => nav.pages # << >> /\ calls[1].below = Upper
        /\ Here # "popLeft" => Len(nav.pages) >= 2 /\ calls[1].page = Upper
    BY <1>1 DEF NavInv, CallIsAnnounced, Closing
  <2> QED
    BY <2>1, TopPages DEF NavInv, NavTypes
<1>4. /\ at \in Closing /\ at \in Stand /\ at \notin Pushing /\ Here \notin Pushing
      /\ at \in Ending <=> Here \in Ending
      /\ at \in Removing <=> Here \in Removing
  BY <1>1, <1>2 DEF Closing, Stand, Pushing, Ending, Removing
<1>5. c \in Call /\ Target(c) = Upper /\ Event(c) = "DidEnter"
  <2>1. c \in Call /\ c.at = at /\ c.page = calls[1].page /\ c.below = calls[1].below
    BY <1>1, <1>4 DEF Call
  <2> HIDE DEF c
  <2> QED
    BY <1>1, <1>2, <1>3, <2>1, Events
<1>6. Here \in Ending => Len(calls) = 1 /\ There = Here
  BY CallTypes
<1>7. /\ calls' \in Seq(Call) /\ CallsNest' /\ Here' = at
      /\ Len(calls) = 1 => There' = at
      /\ Len(calls) # 1 => There' = There /\ calls'[Len(calls')] = calls[Len(calls)]
      /\ calls'[1].page = calls[1].page /\ Len(calls') = Len(calls)
      /\ life' = [life EXCEPT ![Upper] = "DidEnter"] /\ life' \in [Page -> Lives]
  BY <1>1, <1>3, <1>4, <1>5, <1>6, CallGoesOn
<1> HIDE DEF c
<1>8. /\ There' \in Ending <=> There \in Ending
      /\ There' \in Removing <=> There \in Removing
      /\ There \in Removing => calls'[Len(calls')].page = calls[Len(calls)].page
  <2>1. CASE Here \in Ending
    BY <1>4, <1>6, <1>7, <2>1
  <2>2. CASE Here \notin Ending
    BY <1>1, <1>4, <1>7, <2>2, GoesOnBelow
  <2> QED
    BY <2>1, <2>2
<1>9. CallIsAnnounced'
  BY <1>4, <1>7 DEF CallIsAnnounced, Closing
<1>10. Upper' = Upper /\ Lower' = Lower /\ life'[Upper] = "DidEnter"
  BY <1>1, <1>3, <1>7 DEF Upper, Lower
<1>11. ASSUME ~spoiled, PagesTold PROVE PagesTold'
  <2>1. \A i \in 1 .. Len(nav.pages) : i < Len(nav.pages) - 1 => life'[nav.pages[i]] = "DidLeave"
    <3>1. ASSUME NEW i \in 1 .. Len(nav.pages), i < Len(nav.pages) - 1
          PROVE  life'[nav.pages[i]] = "DidLeave"
      <4>1. Len(nav.pages) >= 2
        BY <3>1, TopPages
      <4>2. nav.pages[i] # Upper /\ nav.pages[i] \in Page
        BY <3>1, <4>1, TopPages
      <4>3. life[nav.pages[i]] = "DidLeave"
        BY <1>11, <3>1 DEF PagesTold
      <4> QED
        BY <1>3, <1>7, <4>2, <4>3
    <3> QED
      BY <3>1
  <2>2. Len(nav.pages) >= 2 => life'[Lower] = "DidLeave"
    <3>1. Len(nav.pages) >= 2 => life[Lower] = "DidLeave" /\ Lower # Upper /\ Lower \in Page
      BY <1>1, <1>3, <1>11, TopPages DEF PagesTold
    <3> QED
      BY <1>3, <1>7, <3>1
  <2> QED
    BY <1>1, <1>4, <1>7, <1>10, <2>1, <2>2 DEF PagesTold, Closing
<1> QED
  BY <1>1, <1>3, <1>4, <1>7, <1>8, <1>9, <1>11, ViewStays

\* A pop that a resize undid is over.
LEMMA UndoReturnsKeeps ==
  ASSUME NavHypothesis, NavInv, UndoReturns
  PROVE  NavInv'
<1>1. /\ calls # << >> /\ Here = "undoEntered" /\ calls' = Tail(calls)
      /\ nav' = [nav EXCEPT !.popLifecycleActive = FALSE]
      /\ routes' = routes /\ anims' = anims /\ running' = running /\ life' = life
      /\ made' = made /\ spoiled' = spoiled
  BY CallTypes DEF UndoReturns
<1>2. /\ Here \in Ending /\ Here \notin Removing /\ Here \in Closing /\ Here \notin Pushing
      /\ "none" \notin Ending /\ "none" \notin Removing /\ "none" \notin Pushing
  BY <1>1 DEF Ending, Removing, Closing, Pushing
<1>3. Len(calls) = 1 /\ There = Here
  BY <1>2, CallTypes
<1>4. /\ calls' \in Seq(Call) /\ CallsNest' /\ Here' = "none" /\ There' = "none"
  BY <1>1, <1>3, CallEnds
<1>5. /\ nav' \in View /\ nav'.pages = nav.pages /\ ~nav'.popLifecycleActive
      /\ nav'.transitioning = nav.transitioning /\ nav'.transitionKind = nav.transitionKind
      /\ nav'.x = nav.x /\ nav'.visible = nav.visible
  BY <1>1 DEF NavInv, NavTypes, View
<1>6. NavTypes'
  BY <1>1, <1>4, <1>5 DEF NavInv, NavTypes
<1>7. RoutesMatch'
  BY <1>1, <1>2, <1>3, <1>4, <1>5, RoutesStay, RouteNumbers
<1>8. Upper' = Upper /\ Lower' = Lower
  BY <1>5 DEF Upper, Lower
<1>9. ~Moves("Pop")
  BY <1>2, <1>3 DEF NavInv, MotionIsWhole
<1>10. MotionIsWhole'
  BY <1>1, <1>2, <1>4, <1>5, <1>8, <1>9 DEF NavInv, MotionIsWhole, Moves
<1>11. CallIsAnnounced'
  BY <1>4 DEF CallIsAnnounced
<1>12. ASSUME ~spoiled' PROVE TicksBelong' /\ PagesInPlace' /\ PagesTold'
  <2>1. TicksBelong /\ PagesInPlace /\ PagesTold
    BY <1>1, <1>12 DEF NavInv
  <2>2. TicksBelong'
    BY <1>1, <1>5, <2>1 DEF TicksBelong, Moves
  <2>3. PagesInPlace'
    BY <1>5, <1>8, <2>1 DEF PagesInPlace
  <2>4. PagesTold'
    BY <1>1, <1>2, <1>4, <1>5, <1>8, <2>1 DEF PagesTold
  <2> QED
    BY <2>2, <2>3, <2>4
<1> QED
  BY <1>4, <1>6, <1>7, <1>10, <1>11, <1>12 DEF NavInv

\* popped: the page is unmounted and its route goes.
LEMMA PopReturnsKeeps ==
  ASSUME NavHypothesis, NavInv, PopReturns
  PROVE  NavInv'
<1> DEFINE page == calls[1].page
           m == Relayout(nav)
           n == [m EXCEPT !.popLifecycleActive = FALSE]
<1>1. /\ calls # << >> /\ Here = "popEntered" /\ calls' = Tail(calls)
      /\ nav' = Destroy(n, {page}) /\ life' = [life EXCEPT ![page] = "gone"]
      /\ routes' = RemoveFirst(routes, page)
      /\ anims' = anims /\ running' = running /\ made' = made /\ spoiled' = spoiled
  <2>1. /\ calls # << >> /\ Head(calls).at = "popEntered" /\ calls' = Tail(calls)
        /\ nav' = Destroy([Relayout(nav) EXCEPT !.popLifecycleActive = FALSE],
                                {Head(calls).page})
        /\ life' = [life EXCEPT ![Head(calls).page] = "gone"]
        /\ routes' = RemoveFirst(routes, Head(calls).page)
        /\ anims' = anims /\ running' = running /\ made' = made /\ spoiled' = spoiled
    BY DEF PopReturns
  <2>2. Head(calls) = calls[1] /\ Here = calls[1].at
    BY <2>1, CallTypes
  <2> HIDE DEF Here
  <2> QED
    BY <2>1, <2>2, Zenon
<1>2. /\ Here \in Ending /\ Here \in Removing /\ Here \in Closing /\ Here \notin Pushing
      /\ Here # "popEnter"
      /\ "none" \notin Ending /\ "none" \notin Removing /\ "none" \notin Pushing
  BY <1>1 DEF Ending, Removing, Closing, Pushing
<1>3. Len(calls) = 1 /\ There = Here /\ page \in Page
  BY <1>1, <1>2, CallTypes DEF Call
<1>4. /\ calls' \in Seq(Call) /\ CallsNest' /\ Here' = "none" /\ There' = "none"
  BY <1>1, <1>3, CallEnds
<1> HIDE DEF m
<1>5. /\ Same(m, nav) /\ nav \in View
      /\ ~nav.transitioning => m = nav
      /\ \A q \in Page :
           m.visible[q] <=> nav.visible[q]
                            \/ (nav.transitioning /\ Len(nav.pages) >= 2 /\ q = Lower)
  BY RelayoutMoves DEF NavHypothesis, NavInv, NavTypes, Lower, NextOf, m
<1>6. /\ n \in View /\ n.pages = nav.pages /\ ~n.popLifecycleActive
      /\ n.transitioning <=> nav.transitioning
      /\ n.transitionKind = nav.transitionKind /\ n.x = m.x /\ n.visible = m.visible
  BY <1>5 DEF Same, View
<1> HIDE DEF n, page
<1>7. /\ nav' \in View /\ nav'.pages = nav.pages /\ ~nav'.popLifecycleActive
      /\ nav'.transitioning <=> nav.transitioning
      /\ nav'.transitionKind = nav.transitionKind
      /\ \A q \in Page : q # page => nav'.x[q] = m.x[q] /\ nav'.visible[q] = m.visible[q]
  <2>1. /\ Same(nav', n)
        /\ \A q \in Page \ {page} : nav'.x[q] = n.x[q] /\ nav'.visible[q] = n.visible[q]
    BY <1>1, <1>6, DestroyLeaves DEF NavHypothesis
  <2>2. /\ nav' \in View /\ nav'.pages = nav.pages
        /\ nav'.popLifecycleActive <=> n.popLifecycleActive
        /\ nav'.transitioning <=> n.transitioning
        /\ nav'.transitionKind = n.transitionKind
    BY <1>6, <2>1 DEF Same
  <2>3. \A q \in Page : q # page => nav'.x[q] = m.x[q] /\ nav'.visible[q] = m.visible[q]
    BY <1>6, <2>1
  <2>4. ~nav'.popLifecycleActive /\ (nav'.transitioning <=> nav.transitioning)
        /\ nav'.transitionKind = nav.transitionKind
    BY <1>6, <2>2
  <2> QED
    BY <2>2, <2>3, <2>4
<1>8. /\ \A i \in 1 .. Len(nav.pages) : nav.pages[i] \in Page /\ nav.pages[i] # page
      /\ Ascending(nav.pages) /\ \A i \in 1 .. Len(nav.pages) : nav.pages[i] <= made
  <2>1. calls[Len(calls)].page = page
    BY <1>3 DEF page
  <2> QED
    BY <1>2, <1>3, <2>1, PagesAreApart
<1>9. routes' = nav.pages
  <2>1. Based = routes
    BY <1>2 DEF Based
  <2>2. PICK k \in 1 .. Len(routes) : routes[k] = page /\ nav.pages = Without(routes, k)
    <3>1. calls[Len(calls)].page = page
      BY <1>3 DEF page
    <3> QED
      BY <1>2, <1>3, <2>1, <3>1 DEF NavInv, RoutesMatch
  <2>3. ASSUME NEW i \in 1 .. Len(routes), routes[i] = routes[k] PROVE i = k
    <3>1. /\ routes[i] \in Int /\ routes[k] \in Int /\ i \in Int /\ k \in Int
          /\ i < k => routes[i] < routes[k]
          /\ k < i => routes[k] < routes[i]
      BY RouteNumbers
    <3> QED
      BY <2>3, <3>1
  <2>4. RemoveFirst(routes, routes[k]) = Without(routes, k)
    BY <2>3, RouteNumbers, RemovedFirst
  <2> QED
    BY <1>1, <2>2, <2>4, Zenon
<1>10. life' \in [Page -> Lives] /\ life \in [Page -> Lives]
  BY <1>1, <1>3 DEF NavInv, NavTypes, Lives
<1>11. NavTypes'
  BY <1>1, <1>4, <1>7, <1>9, <1>10, TopPages DEF NavInv, NavTypes
<1>12. RoutesMatch'
  <2>1. Based' = routes'
    BY <1>2, <1>4 DEF Based
  <2>2. Ascending(routes') /\ \A i \in 1 .. Len(routes') : routes'[i] <= made'
    BY <1>1, <1>8, <1>9
  <2> QED
    BY <1>2, <1>4, <1>7, <1>9, <2>1, <2>2 DEF RoutesMatch, Ascending
<1>13. Upper' = Upper /\ Lower' = Lower
  BY <1>7 DEF Upper, Lower
<1>14. \A i \in 1 .. Len(nav.pages) : life'[nav.pages[i]] = life[nav.pages[i]]
  BY <1>1, <1>3, <1>8, <1>10
<1>15. /\ Len(nav.pages) >= 2 => life'[Lower] = life[Lower] /\ Lower # page
                                 /\ Lower \in Page
       /\ nav.pages # << >> => life'[Upper] = life[Upper] /\ Upper # page
                               /\ Upper \in Page
       /\ Len(nav.pages) >= 2 => nav.pages # << >>
  <2>1. /\ Len(nav.pages) >= 2 => Len(nav.pages) - 1 \in 1 .. Len(nav.pages)
        /\ nav.pages # << >> => Len(nav.pages) \in 1 .. Len(nav.pages)
        /\ Len(nav.pages) >= 2 => nav.pages # << >>
    BY TopPages
  <2> QED
    BY <1>8, <1>14, <2>1 DEF Upper, Lower
<1>16. ~Moves("Pop")
  BY <1>2, <1>3 DEF NavInv, MotionIsWhole
<1>17. MotionIsWhole'
  <2>1. /\ Moves("Push") <=> Moves("Push")'
        /\ Moves("Pop") <=> Moves("Pop")'
    BY <1>7 DEF Moves
  <2>2. Moves("Push") => Len(nav.pages) >= 2
    BY DEF NavInv, MotionIsWhole, Moves
  <2>3. Moves("Push") => life'[Upper] = "WillEnter" /\ life'[Lower] = "WillLeave"
    BY <1>15, <2>2 DEF NavInv, MotionIsWhole
  <2>4. /\ nav'.transitioning <=> nav'.transitionKind # "None"
        /\ nav'.transitioning => Len(nav'.pages) >= 2
    BY <1>7 DEF NavInv, MotionIsWhole
  <2> QED
    BY <1>2, <1>4, <1>7, <1>13, <1>16, <2>1, <2>3, <2>4 DEF MotionIsWhole
<1>18. CallIsAnnounced'
  BY <1>4 DEF CallIsAnnounced
<1>19. ASSUME ~spoiled' PROVE TicksBelong' /\ PagesInPlace' /\ PagesTold'
  <2>1. TicksBelong /\ PagesInPlace /\ PagesTold
    BY <1>1, <1>19 DEF NavInv
  <2>2. TicksBelong'
    BY <1>1, <1>7, <2>1 DEF TicksBelong, Moves
  <2>3. \A q \in Page : q # page =>
          (nav'.visible[q] <=> nav.visible[q]
                               \/ (nav.transitioning /\ Len(nav.pages) >= 2 /\ q = Lower))
    BY <1>5, <1>7
  <2>4. \A i \in 1 .. Len(nav.pages) :
          i < Len(nav.pages) - 1 => ~nav'.visible[nav.pages[i]]
    <3>1. ASSUME NEW i \in 1 .. Len(nav.pages), i < Len(nav.pages) - 1
          PROVE  ~nav'.visible[nav.pages[i]]
      <4>1. Len(nav.pages) >= 2 => nav.pages[i] # Lower
        BY <3>1, TopPages
      <4>2. ~nav.visible[nav.pages[i]]
        BY <2>1, <3>1 DEF PagesInPlace
      <4> QED
        BY <1>8, <2>3, <4>1, <4>2
    <3> QED
      BY <3>1
  <2>5. /\ nav.pages # << >> => nav'.visible[Upper]
        /\ ~nav.transitioning /\ Len(nav.pages) >= 2 => ~nav'.visible[Lower]
        /\ ~nav.transitioning /\ nav.pages # << >> => nav'.x[Upper] = 0
    <3>1. nav.pages # << >> => nav'.visible[Upper]
      BY <1>15, <2>1, <2>3 DEF PagesInPlace
    <3>2. ~nav.transitioning /\ Len(nav.pages) >= 2 => ~nav'.visible[Lower]
      BY <1>15, <2>1, <2>3 DEF PagesInPlace
    <3>3. ~nav.transitioning /\ nav.pages # << >> => nav'.x[Upper] = 0
      BY <1>5, <1>7, <1>15, <2>1 DEF PagesInPlace
    <3> QED
      BY <3>1, <3>2, <3>3
  <2>6. PagesInPlace'
    BY <1>7, <1>13, <2>4, <2>5 DEF PagesInPlace
  <2>7. \A i \in 1 .. Len(nav.pages) :
          i < Len(nav.pages) - 1 => life'[nav.pages[i]] = "DidLeave"
    BY <1>14, <2>1 DEF PagesTold
  <2>8. PagesTold'
    BY <1>2, <1>4, <1>7, <1>13, <1>15, <2>1, <2>7 DEF PagesTold
  <2> QED
    BY <2>2, <2>6, <2>8
<1> QED
  BY <1>4, <1>11, <1>12, <1>17, <1>18, <1>19 DEF NavInv

\* What a transition that ends before its time leaves in the list.
LEMMA OrphansAreLate ==
  ASSUME NavInv, anims' = Orphaned(anims), running = << >>, running' = running
  PROVE  anims' \in Seq(Tick) /\ TicksBelong'
<1>1. anims \in Seq(Tick) /\ DOMAIN anims = 1 .. Len(anims) /\ Len(anims) \in Nat
  BY DEF NavInv, NavTypes
<1>2. anims' = [i \in 1 .. Len(anims) |-> [anims[i] EXCEPT !.stale = TRUE]]
  BY <1>1 DEF Orphaned
<1>3. ASSUME NEW i \in 1 .. Len(anims) PROVE anims'[i] \in Tick /\ anims'[i].stale
  <2>1. anims[i] \in Tick
    BY <1>1
  <2>2. \A t \in Tick : [t EXCEPT !.stale = TRUE] \in Tick /\ [t EXCEPT !.stale = TRUE].stale
    BY DEF Tick
  <2>3. anims'[i] = [anims[i] EXCEPT !.stale = TRUE]
    BY <1>2
  <2> QED
    BY <2>1, <2>2, <2>3
<1> DEFINE t == anims'
           n == Len(anims)
<1>4. t \in Seq(Tick) /\ Len(t) = n /\ \A i \in 1 .. n : t[i].stale
  <2>1. n \in Nat /\ \A i \in 1 .. n : t[i] \in Tick /\ t[i].stale
    BY <1>1, <1>3
  <2>2. \E f : t = [i \in 1 .. n |-> f[i]]
    <3>1. t = [i \in 1 .. n |-> t[i]]
      BY <1>2
    <3> QED
      BY <3>1
  <2> HIDE DEF t, n
  <2> QED
    BY <2>1, <2>2
<1>5. \A i \in 1 .. Len(running') : FALSE
  OBVIOUS
<1> QED
  BY <1>4, <1>5 DEF TicksBelong, t, n

\* clear: everything goes at once.
LEMMA ClearKeeps ==
  ASSUME NavHypothesis, NavInv, Clear
  PROVE  NavInv'
<1> DEFINE m == [AtRest(nav) EXCEPT !.pages = << >>, !.popLifecycleActive = FALSE]
<1>1. /\ calls = << >> /\ running = << >> /\ calls' = calls /\ running' = running
      /\ nav' = Destroy(m, ToSet(routes))
      /\ life' = [p \in Page |-> IF Contains(routes, p) THEN "gone" ELSE life[p]]
      /\ routes' = << >> /\ anims' = Orphaned(anims) /\ made' = made
      /\ spoiled' = spoiled
  BY DEF Clear, Idle
<1>2. m \in View /\ m.pages = << >> /\ ~m.transitioning /\ m.transitionKind = "None"
      /\ ~m.popLifecycleActive
  <2>1. nav \in View /\ << >> \in Seq(Page)
    BY DEF NavInv, NavTypes
  <2>2. m = [nav EXCEPT !.transitioning = FALSE, !.transitionKind = "None", !.pages = << >>,
                        !.popLifecycleActive = FALSE]
    BY DEF AtRest
  <2> QED
    BY <2>1, <2>2 DEF View
<1> HIDE DEF m
<1>3. /\ nav' \in View /\ nav'.pages = << >> /\ ~nav'.transitioning
      /\ nav'.transitionKind = "None" /\ ~nav'.popLifecycleActive
  <2>1. Same(nav', m)
    BY <1>1, <1>2, DestroyLeaves DEF NavHypothesis
  <2> QED
    BY <1>2, <2>1 DEF Same
<1>4. Here' = "none" /\ There' = "none" /\ CallsNest' /\ calls' \in Seq(Call)
  BY <1>1 DEF Here, There, CallsNest, NavInv
<1>5. life' \in [Page -> Lives]
  BY <1>1 DEF NavInv, NavTypes, Lives
<1>6. anims' \in Seq(Tick) /\ TicksBelong'
  BY <1>1, OrphansAreLate
<1>7. NavTypes'
  BY <1>1, <1>3, <1>4, <1>5, <1>6 DEF NavInv, NavTypes
<1>8. RoutesMatch'
  <2>1. "none" \notin Pushing /\ "none" \notin Removing
    BY DEF Pushing, Removing
  <2>2. Based' = << >>
    BY <1>1, <1>4, <2>1 DEF Based
  <2> QED
    BY <1>1, <1>3, <1>4, <2>1, <2>2 DEF RoutesMatch, Ascending
<1>9. MotionIsWhole'
  BY <1>3, <1>4 DEF MotionIsWhole, Moves, Ending
<1>10. CallIsAnnounced'
  BY <1>4 DEF CallIsAnnounced
<1>11. PagesInPlace' /\ PagesTold'
  BY <1>3, <1>4 DEF PagesInPlace, PagesTold
<1> QED
  BY <1>4, <1>6, <1>7, <1>8, <1>9, <1>10, <1>11 DEF NavInv

\* A landing is a call of its own, with no other under way.
LEMMA LandingBegins ==
  ASSUME NavInv, calls = << >>, NEW at \in {"left", "popLeft", "undoLeft"},
         NEW page \in Page, NEW below \in Page,
         Dispatch(NewCall(at, page, below, TRUE), calls)
  PROVE  /\ calls' \in Seq(Call) /\ CallsNest' /\ Len(calls') = 1
         /\ Here' = at /\ There' = at /\ calls'[1].page = page /\ calls'[1].below = below
         /\ life' = [life EXCEPT ![IF at = "popLeft" THEN page ELSE below] = "DidLeave"]
         /\ life' \in [Page -> Lives]
<1> DEFINE c == NewCall(at, page, below, TRUE)
<1>1. at \in Stand /\ "new" \in Lives
  BY DEF Stand, Ending, Lives
<1>2. c \in Call /\ c.at = at /\ c.page = page /\ c.below = below
  BY <1>1 DEF Call, NewCall
<1> HIDE DEF c
<1>3. /\ Target(c) = IF at = "popLeft" THEN page ELSE below
      /\ Event(c) = "DidLeave"
  BY <1>2, Events
<1>4. Here \in Closing \cup {"none"} /\ Target(c) \in Page
  BY <1>3, CallTypes
<1>5. Dispatch(c, calls)
  BY DEF c
<1>6. Len(calls) = 0
  OBVIOUS
<1>7. /\ calls' \in Seq(Call) /\ CallsNest' /\ Len(calls') = 1
      /\ Here' = at /\ There' = at /\ calls'[1].page = page /\ calls'[1].below = below
      /\ life' = [life EXCEPT ![Target(c)] = Event(c)]
      /\ life' \in [Page -> Lives]
  BY <1>2, <1>4, <1>5, <1>6, CallBegins
<1> QED
  BY <1>3, <1>7

\* finishPush: the pages are in place, the one below is told that it left.
LEMMA FinishedPush ==
  ASSUME NavHypothesis, NavInv, NEW n \in View, Same(n, nav), FinishPush(n),
         calls = << >>, Moves("Push"), anims' \in Seq(Tick), running' \in Seq(Tick),
         \A i \in 1 .. Len(running') : running'[i].time # -1,
         routes' = routes, made' = made, spoiled' \in BOOLEAN
  PROVE  /\ NavTypes' /\ CallsNest' /\ RoutesMatch' /\ MotionIsWhole' /\ CallIsAnnounced'
         /\ /\ \A i \in 1 .. Len(nav.pages) : i < Len(nav.pages) - 1 => ~n.visible[nav.pages[i]]
            /\ n.visible[Upper]
            => PagesInPlace'
         /\ PagesTold => PagesTold'
<1>1. /\ Len(nav.pages) >= 2 /\ nav.pages # << >> /\ nav.transitioning
      /\ Upper \in Page /\ Lower \in Page /\ Lower # Upper
      /\ life[Upper] = "WillEnter" /\ life \in [Page -> Lives]
      /\ \A i \in 1 .. Len(nav.pages) :
           i < Len(nav.pages) - 1 => nav.pages[i] # Upper /\ nav.pages[i] # Lower
      /\ \A i \in 1 .. Len(nav.pages) : nav.pages[i] \in Page
  BY TopPages DEF NavInv, NavTypes, MotionIsWhole, Moves
<1>2. /\ n.pages = nav.pages /\ n.transitionKind = "Push" /\ TopOf(n) = Upper
      /\ NextOf(n) = Lower /\ Top(n) = Upper /\ Below(n) = Lower
      /\ Len(n.pages) > 1
  <2>1. n.pages = nav.pages /\ n.transitionKind = "Push"
    BY DEF Same, Moves
  <2>2. TopOf(n) = Upper /\ NextOf(n) = Lower
    BY <2>1 DEF TopOf, NextOf, Upper, Lower
  <2> QED
    BY <1>1, <2>1, <2>2, StackTypes
<1>3. ~nav.popLifecycleActive /\ There = "none" /\ Here = "none"
  <2>1. There = "none" /\ Here = "none"
    BY CallTypes
  <2> QED
    BY <2>1 DEF NavInv, MotionIsWhole, Moves, Ending
<1>4. /\ nav' = LandPush(n)
      /\ Dispatch(NewCall("left", Upper, Lower, TRUE), calls)
  BY <1>1, <1>2 DEF FinishPush, LandsAt
<1>5. /\ nav' \in View /\ nav'.pages = nav.pages
      /\ nav'.popLifecycleActive <=> n.popLifecycleActive
      /\ ~nav'.transitioning /\ nav'.transitionKind = "None" /\ nav'.x[Upper] = 0
      /\ nav'.visible = [n.visible EXCEPT ![Lower] = FALSE]
  BY <1>1, <1>2, <1>4, LandPushRests DEF NavHypothesis
<1>6. /\ calls' \in Seq(Call) /\ CallsNest' /\ Len(calls') = 1
      /\ Here' = "left" /\ There' = "left" /\ calls'[1].page = Upper /\ calls'[1].below = Lower
      /\ life' = [life EXCEPT ![Lower] = "DidLeave"]
      /\ life' \in [Page -> Lives]
  BY <1>1, <1>4, LandingBegins
<1>7. /\ "left" \notin Pushing /\ "none" \notin Pushing /\ "left" \notin Removing
      /\ "none" \notin Removing /\ "left" \notin Ending /\ "left" \notin Closing
  BY DEF Pushing, Removing, Ending, Closing
<1>8. NavTypes'
  BY <1>5, <1>6 DEF NavInv, NavTypes
<1>9. RoutesMatch'
  BY <1>3, <1>5, <1>6, <1>7, RoutesStay, RouteNumbers
<1>10. MotionIsWhole'
  <2>1. ~nav'.popLifecycleActive
    BY <1>3, <1>5 DEF Same
  <2> QED
    BY <1>5, <1>6, <1>7, <2>1 DEF MotionIsWhole, Moves
<1>11. Upper' = Upper /\ Lower' = Lower /\ life'[Upper] = "WillEnter" /\ life'[Lower] = "DidLeave"
  BY <1>1, <1>5, <1>6 DEF Upper, Lower
<1>12. CallIsAnnounced'
  BY <1>1, <1>5, <1>6, <1>7, <1>11 DEF CallIsAnnounced
<1>13. ASSUME \A i \in 1 .. Len(nav.pages) : i < Len(nav.pages) - 1 => ~n.visible[nav.pages[i]],
              n.visible[Upper]
       PROVE  PagesInPlace'
  <2>1. n.visible \in [Page -> BOOLEAN]
    BY DEF View
  <2>2. /\ \A i \in 1 .. Len(nav.pages) : i < Len(nav.pages) - 1 => ~nav'.visible[nav.pages[i]]
        /\ nav'.visible[Upper] /\ ~nav'.visible[Lower]
    BY <1>1, <1>5, <1>13, <2>1
  <2> QED
    BY <1>5, <1>11, <2>2 DEF PagesInPlace
<1>14. ASSUME PagesTold PROVE PagesTold'
  <2>1. \A i \in 1 .. Len(nav.pages) : i < Len(nav.pages) - 1 => life'[nav.pages[i]] = "DidLeave"
    BY <1>1, <1>6, <1>14 DEF PagesTold
  <2> QED
    BY <1>5, <1>6, <1>7, <1>11, <2>1 DEF PagesTold
<1> QED
  BY <1>6, <1>8, <1>9, <1>10, <1>12, <1>13, <1>14

\* finishPop after a resize: the pages are back in place, the one below is told
\* that it left.
LEMMA UndonePop ==
  ASSUME NavHypothesis, NavInv, FinishPop(nav, FALSE),
         calls = << >>, Moves("Pop"), anims' \in Seq(Tick), running' = running,
         routes' = routes, made' = made, spoiled' = spoiled
  PROVE  /\ NavTypes' /\ CallsNest' /\ RoutesMatch' /\ MotionIsWhole' /\ CallIsAnnounced'
         /\ PagesInPlace => PagesInPlace'
         /\ PagesTold => PagesTold'
<1>1. /\ Len(nav.pages) >= 2 /\ nav.pages # << >> /\ nav.transitioning /\ nav \in View
      /\ Upper \in Page /\ Lower \in Page /\ Lower # Upper
      /\ life[Upper] = "WillLeave" /\ life \in [Page -> Lives]
      /\ nav.popLifecycleActive
      /\ \A i \in 1 .. Len(nav.pages) :
           i < Len(nav.pages) - 1 => nav.pages[i] # Upper /\ nav.pages[i] # Lower
      /\ \A i \in 1 .. Len(nav.pages) : nav.pages[i] \in Page
  BY TopPages DEF NavInv, NavTypes, MotionIsWhole, Moves
<1>2. /\ TopOf(nav) = Upper /\ NextOf(nav) = Lower /\ Top(nav) = Upper
      /\ Below(nav) = Lower /\ ~(Len(nav.pages) < 2)
  <2>1. TopOf(nav) = Upper /\ NextOf(nav) = Lower
    BY DEF TopOf, NextOf, Upper, Lower
  <2> QED
    BY <1>1, <2>1, StackTypes
<1>3. There = "none" /\ Here = "none"
  BY CallTypes
<1>4. /\ nav' = UndoPop(nav)
      /\ Dispatch(NewCall("undoLeft", Upper, Lower, TRUE), calls)
  BY <1>1, <1>2 DEF FinishPop, LandsAt
<1>5. /\ nav' \in View /\ nav'.pages = nav.pages
      /\ nav'.popLifecycleActive <=> nav.popLifecycleActive
      /\ ~nav'.transitioning /\ nav'.transitionKind = "None" /\ nav'.x[Upper] = 0
      /\ nav'.visible = [nav.visible EXCEPT ![Lower] = FALSE]
  BY <1>1, <1>2, <1>4, UndoPopRests DEF NavHypothesis
<1>6. /\ calls' \in Seq(Call) /\ CallsNest' /\ Len(calls') = 1 /\ Here' = "undoLeft"
      /\ There' = "undoLeft" /\ calls'[1].page = Upper /\ calls'[1].below = Lower
      /\ life' = [life EXCEPT ![Lower] = "DidLeave"]
      /\ life' \in [Page -> Lives]
  BY <1>1, <1>4, LandingBegins
<1>7. /\ "undoLeft" \notin Pushing /\ "none" \notin Pushing /\ "undoLeft" \notin Removing
      /\ "none" \notin Removing /\ "undoLeft" \in Ending /\ "undoLeft" \notin Closing
  BY DEF Pushing, Removing, Ending, Closing
<1>8. NavTypes'
  BY <1>5, <1>6 DEF NavInv, NavTypes
<1>9. RoutesMatch'
  BY <1>3, <1>5, <1>6, <1>7, RoutesStay, RouteNumbers
<1>10. MotionIsWhole'
  BY <1>1, <1>5, <1>6, <1>7 DEF MotionIsWhole, Moves
<1>11. Upper' = Upper /\ Lower' = Lower /\ life'[Upper] = "WillLeave" /\ life'[Lower] = "DidLeave"
  BY <1>1, <1>5, <1>6 DEF Upper, Lower
<1>12. CallIsAnnounced'
  BY <1>1, <1>5, <1>6, <1>7, <1>11 DEF CallIsAnnounced
<1>13. ASSUME PagesInPlace PROVE PagesInPlace'
  <2>1. nav.visible \in [Page -> BOOLEAN]
    BY <1>1 DEF View
  <2>2. /\ \A i \in 1 .. Len(nav.pages) : i < Len(nav.pages) - 1 => ~nav'.visible[nav.pages[i]]
        /\ nav'.visible[Upper] /\ ~nav'.visible[Lower]
    BY <1>1, <1>5, <1>13, <2>1 DEF PagesInPlace
  <2> QED
    BY <1>5, <1>11, <2>2 DEF PagesInPlace
<1>14. ASSUME PagesTold PROVE PagesTold'
  <2>1. \A i \in 1 .. Len(nav.pages) : i < Len(nav.pages) - 1 => life'[nav.pages[i]] = "DidLeave"
    BY <1>1, <1>6, <1>14 DEF PagesTold
  <2> QED
    BY <1>5, <1>6, <1>7, <1>11, <2>1 DEF PagesTold
<1> QED
  BY <1>6, <1>8, <1>9, <1>10, <1>12, <1>13, <1>14

\* The window turned.
LEMMA ResizeKeeps ==
  ASSUME NavHypothesis, NavInv, Resize
  PROVE  NavInv'
<1>1. /\ calls = << >> /\ running = << >> /\ running' = running
      /\ routes' = routes /\ anims' = Orphaned(anims) /\ made' = made
      /\ spoiled' = spoiled
  BY DEF Resize, Idle
<1>2. anims' \in Seq(Tick) /\ TicksBelong' /\ nav \in View /\ Same(nav, nav)
  BY <1>1, OrphansAreLate DEF NavInv, NavTypes, Same
<1>3. ASSUME ~spoiled' PROVE PagesInPlace /\ PagesTold
  BY <1>1, <1>3 DEF NavInv
<1>4. CASE nav.transitioning /\ nav.transitionKind = "Push" /\ FinishPush(nav)
  <2>1. Moves("Push") /\ nav.pages # << >>
    <3>1. nav.transitioning => Len(nav.pages) >= 2
      BY DEF NavInv, MotionIsWhole
    <3> QED
      BY <1>4, <3>1, TopPages DEF Moves
  <2>2. running' \in Seq(Tick) /\ spoiled' \in BOOLEAN
        /\ \A i \in 1 .. Len(running') : running'[i].time # -1
    BY <1>1 DEF NavInv, NavTypes
  <2>3. PagesInPlace =>
          /\ \A i \in 1 .. Len(nav.pages) : i < Len(nav.pages) - 1 => ~nav.visible[nav.pages[i]]
          /\ nav.visible[Upper]
    BY <2>1 DEF PagesInPlace
  <2>4. /\ NavTypes' /\ CallsNest' /\ RoutesMatch' /\ MotionIsWhole' /\ CallIsAnnounced'
        /\ PagesInPlace => PagesInPlace'
        /\ PagesTold => PagesTold'
    BY <1>1, <1>2, <1>4, <2>1, <2>2, <2>3, FinishedPush
  <2> QED
    BY <1>2, <1>3, <2>4 DEF NavInv
<1>5. CASE nav.transitioning /\ nav.transitionKind = "Pop" /\ FinishPop(nav, FALSE)
  <2>1. Moves("Pop")
    BY <1>5 DEF Moves
  <2>2. /\ NavTypes' /\ CallsNest' /\ RoutesMatch' /\ MotionIsWhole' /\ CallIsAnnounced'
        /\ PagesInPlace => PagesInPlace'
        /\ PagesTold => PagesTold'
    BY <1>1, <1>2, <1>5, <2>1, UndonePop
  <2> QED
    BY <1>2, <1>3, <2>2 DEF NavInv
<1>6. CASE /\ ~nav.transitioning
           /\ nav' = [nav EXCEPT !.x = [p \in Page |->
                                          IF Contains(nav.pages, p) THEN 0 ELSE @[p]]]
           /\ calls' = calls /\ life' = life
  <2> DEFINE xs == [p \in Page |-> IF Contains(nav.pages, p) THEN 0 ELSE nav.x[p]]
  <2>1. xs \in [Page -> -Steps .. Steps] /\ (nav.pages # << >> => xs[Upper] = 0)
    <3>1. 0 \in -Steps .. Steps
      BY DEF NavHypothesis, NavigationAssumption
    <3>2. nav.pages # << >> => Upper \in Page /\ Contains(nav.pages, Upper)
      BY TopPages DEF Contains, Upper
    <3> QED
      BY <1>2, <3>1, <3>2 DEF View
  <2>2. nav' = [nav EXCEPT !.x = xs]
    BY <1>6
  <2> HIDE DEF xs
  <2>3. /\ Same(nav', nav) /\ nav'.x = xs /\ nav'.visible = nav.visible
    BY <1>2, <2>1, <2>2 DEF Same, View
  <2>4. /\ CallsNest' /\ RoutesMatch' /\ MotionIsWhole' /\ CallIsAnnounced'
        /\ PagesTold => PagesTold'
    BY <1>1, <1>6, <2>3, NothingIsTold, RouteNumbers
  <2>5. NavTypes'
    BY <1>1, <1>2, <1>6, <2>3 DEF NavInv, NavTypes, Same
  <2>6. PagesInPlace => PagesInPlace'
    <3>1. nav'.pages = nav.pages /\ ~nav'.transitioning
      BY <1>6, <2>3 DEF Same
    <3>2. Upper' = Upper /\ Lower' = Lower
      BY <3>1 DEF Upper, Lower
    <3> QED
      BY <1>6, <2>1, <2>3, <3>1, <3>2 DEF PagesInPlace
  <2> QED
    BY <1>2, <1>3, <2>4, <2>5, <2>6 DEF NavInv
<1> QED
  BY <1>4, <1>5, <1>6 DEF Resize

\* A frame swaps the list out.
LEMMA NextFrameKeeps ==
  ASSUME NavHypothesis, NavInv, NextFrame
  PROVE  NavInv'
<1>1. /\ calls = << >> /\ running = << >> /\ nav' = nav /\ routes' = routes /\ calls' = calls
      /\ life' = life /\ made' = made /\ spoiled' = spoiled /\ anims' = << >>
  BY DEF NextFrame, Idle
<1>2. PICK d \in 1 .. Steps :
        running' = [i \in DOMAIN anims |->
          [anims[i] EXCEPT !.time =
             IF @ = NotStarted THEN 0 ELSE IF @ + d > Steps THEN Steps ELSE @ + d]]
  BY DEF NextFrame
<1>3. anims \in Seq(Tick) /\ DOMAIN anims = 1 .. Len(anims) /\ Len(anims) \in Nat
      /\ \A i \in 1 .. Len(anims) : anims[i] \in Tick
  BY DEF NavInv, NavTypes
<1>4. Steps \in Nat /\ NotStarted = -1
  BY DEF NavHypothesis, NavigationAssumption, NotStarted
<1>5. ASSUME NEW i \in 1 .. Len(anims)
      PROVE  /\ running'[i] \in Tick /\ running'[i].time # -1
             /\ running'[i].kind = anims[i].kind /\ running'[i].stale = anims[i].stale
  <2> DEFINE t == anims[i]
             time == IF t.time = -1 THEN 0 ELSE IF t.time + d > Steps THEN Steps ELSE t.time + d
  <2>1. t \in Tick /\ t.time \in -1 .. Steps
    BY <1>3 DEF Tick
  <2>2. running'[i] = [t EXCEPT !.time = time]
    BY <1>2, <1>3, <1>4
  <2>3. time \in 0 .. Steps
    BY <1>4, <2>1
  <2>4. time \in -1 .. Steps /\ time # -1
    BY <1>4, <2>3
  <2> HIDE DEF t, time
  <2>5. [t EXCEPT !.time = time] \in Tick /\ [t EXCEPT !.time = time].time = time
        /\ [t EXCEPT !.time = time].kind = t.kind /\ [t EXCEPT !.time = time].stale = t.stale
    BY <2>1, <2>4 DEF Tick
  <2> QED
    BY <2>2, <2>4, <2>5 DEF t
<1> DEFINE r == running'
           n == Len(anims)
<1>6. r \in Seq(Tick) /\ Len(r) = n
  <2>1. n \in Nat /\ \A i \in 1 .. n : r[i] \in Tick
    BY <1>3, <1>5
  <2>2. \E f : r = [i \in 1 .. n |-> f[i]]
    <3>1. r = [i \in 1 .. n |-> r[i]]
      BY <1>2, <1>3
    <3> QED
      BY <3>1
  <2> HIDE DEF r, n
  <2> QED
    BY <2>1, <2>2
<1>7. NavTypes'
  <2>1. anims' \in Seq(Tick)
    BY <1>1
  <2>2. \A i \in 1 .. Len(running') : running'[i].time # -1
    BY <1>5, <1>6
  <2> QED
    BY <1>1, <1>6, <2>1, <2>2 DEF NavInv, NavTypes
<1>8. Upper' = Upper /\ Lower' = Lower /\ Here' = Here /\ There' = There /\ Based' = Based
  BY <1>1 DEF Upper, Lower, Here, There, Based
<1>9. CallsNest' /\ RoutesMatch' /\ MotionIsWhole' /\ CallIsAnnounced' /\ (PagesTold => PagesTold')
  <2>1. Same(nav', nav)
    BY <1>1 DEF Same, NavInv, NavTypes
  <2> QED
    BY <1>1, <2>1, NothingIsTold, RouteNumbers
<1>10. ASSUME ~spoiled' PROVE TicksBelong' /\ PagesInPlace' /\ PagesTold'
  <2>1. TicksBelong /\ PagesInPlace /\ PagesTold
    BY <1>1, <1>10 DEF NavInv
  <2>2. \A i \in 1 .. Len(r) : ~r[i].stale => nav'.transitioning /\ nav'.transitionKind = r[i].kind
    <3>1. ASSUME NEW i \in 1 .. Len(r), ~r[i].stale
          PROVE  nav'.transitioning /\ nav'.transitionKind = r[i].kind
      <4>1. i \in 1 .. Len(anims) /\ r[i].kind = anims[i].kind /\ r[i].stale = anims[i].stale
        BY <1>5, <1>6
      <4>2. Moves(anims[i].kind)
        BY <2>1, <3>1, <4>1 DEF TicksBelong
      <4> QED
        BY <1>1, <4>1, <4>2 DEF Moves
    <3> QED
      BY <3>1
  <2>3. \A i, j \in 1 .. Len(r) : ~r[i].stale /\ ~r[j].stale => i = j
    BY <1>5, <1>6, <2>1 DEF TicksBelong
  <2>4. \A i \in 1 .. Len(anims') : FALSE
    BY <1>1
  <2>5. TicksBelong'
    BY <2>2, <2>3, <2>4 DEF TicksBelong, Moves
  <2>6. PagesInPlace'
    BY <1>1, <1>8, <2>1 DEF PagesInPlace
  <2> QED
    BY <1>9, <2>1, <2>5, <2>6
<1> QED
  BY <1>7, <1>9, <1>10 DEF NavInv

\* The tick that runs next.
LEMMA TickRuns ==
  ASSUME NavHypothesis, NavInv, RunTick
  PROVE  LET tick == running[1]
             n == Apply(nav, tick.kind, tick.time)
         IN /\ calls = << >> /\ running # << >> /\ tick \in Tick /\ tick.time \in 0 .. Steps
            /\ running' \in Seq(Tick) /\ \A i \in 1 .. Len(running') : running'[i].time # -1
            /\ routes' = routes /\ made' = made /\ spoiled' \in BOOLEAN
            /\ ~spoiled' => ~spoiled /\ ~tick.stale
            /\ n \in View /\ Same(n, nav) /\ nav \in View
            /\ \A q \in Page :
                 n.visible[q] <=> nav.visible[q] \/ (Len(nav.pages) >= 2 /\ q = Lower)
            /\ \/ /\ nav' = n /\ anims' = Append(anims, tick) /\ calls' = calls /\ life' = life
               \/ tick.kind = "Push" /\ FinishPush(n) /\ anims' = anims
               \/ tick.kind = "Pop" /\ FinishPop(n, TRUE) /\ anims' = anims
            /\ TicksBelong /\ ~tick.stale =>
                 /\ Moves(tick.kind)
                 /\ \A i \in 1 .. Len(anims) : anims[i].stale
                 /\ \A i \in 1 .. Len(running') : running'[i].stale
<1> DEFINE tick == running[1]
           n == Apply(nav, tick.kind, tick.time)
<1>1. running \in Seq(Tick) /\ nav \in View /\ spoiled \in BOOLEAN
      /\ \A i \in 1 .. Len(running) : running[i].time # -1
  BY DEF NavInv, NavTypes
<1>2. calls = << >> /\ running # << >> /\ routes' = routes /\ made' = made
      /\ running' = Tail(running)
  BY DEF RunTick
<1>3. Head(running) = tick /\ tick \in Tick /\ 1 \in 1 .. Len(running) /\ Len(running) \in Nat
  BY <1>1, <1>2
<1>4. tick.time \in 0 .. Steps /\ Steps \in Nat
  <2>1. tick.time # -1 /\ tick.time \in -1 .. Steps
    BY <1>1, <1>3 DEF Tick
  <2>2. Steps \in Nat
    BY DEF NavHypothesis, NavigationAssumption
  <2> HIDE DEF tick
  <2> QED
    BY <2>1, <2>2
<1> HIDE DEF tick
<1>5. /\ spoiled' = (spoiled \/ tick.stale)
      /\ \/ /\ nav' = n /\ anims' = Append(anims, tick) /\ calls' = calls /\ life' = life
         \/ tick.kind = "Push" /\ FinishPush(n) /\ anims' = anims
         \/ tick.kind # "Push" /\ FinishPop(n, TRUE) /\ anims' = anims
  <2>1. LET t == tick
            moved == Apply(nav, t.kind, t.time)
        IN  /\ spoiled' = (spoiled \/ t.stale)
            /\ IF t.time < Steps
               THEN /\ nav' = moved
                    /\ anims' = Append(anims, t)
                    /\ UNCHANGED <<calls, life>>
               ELSE /\ IF t.kind = "Push" THEN FinishPush(moved)
                                          ELSE FinishPop(moved, TRUE)
                    /\ UNCHANGED anims
    BY <1>3, Zenon DEF RunTick
  <2> QED
    BY <2>1
<1>6. tick.kind \in {"Push", "Pop"} /\ tick.stale \in BOOLEAN
  BY <1>3 DEF Tick
<1>7. /\ Same(n, nav)
      /\ \A q \in Page :
           n.visible[q] <=> nav.visible[q] \/ (Len(nav.pages) >= 2 /\ q = Lower)
  BY <1>1, <1>4, ApplyMoves DEF NavHypothesis, Lower, NextOf
<1> HIDE DEF n
<1>8. /\ running' \in Seq(Tick) /\ Len(running') = Len(running) - 1
      /\ \A i \in 1 .. Len(running') : running'[i] = running[i + 1]
  BY <1>1, <1>2, HeadTailProperties
<1>9. \A i \in 1 .. Len(running') : i + 1 \in 1 .. Len(running) /\ i + 1 # 1
  BY <1>3, <1>8
<1>10. \A i \in 1 .. Len(running') : running'[i].time # -1
  BY <1>1, <1>8, <1>9
<1>11. ASSUME TicksBelong, ~tick.stale
       PROVE  /\ Moves(tick.kind)
              /\ \A i \in 1 .. Len(anims) : anims[i].stale
              /\ \A i \in 1 .. Len(running') : running'[i].stale
  <2>1. Moves(tick.kind) /\ \A i \in 1 .. Len(anims) : anims[i].stale
    BY <1>3, <1>11 DEF TicksBelong, tick
  <2>2. ASSUME NEW i \in 1 .. Len(running') PROVE running'[i].stale
    <3>1. i + 1 \in 1 .. Len(running) /\ i + 1 # 1 /\ running'[i] = running[i + 1]
      BY <1>8, <1>9
    <3>2. running[i + 1].stale
      BY <1>3, <1>11, <3>1 DEF TicksBelong, tick
    <3> QED
      BY <3>1, <3>2
  <2> QED
    BY <2>1, <2>2
<1>12. spoiled' \in BOOLEAN /\ (~spoiled' => ~spoiled /\ ~tick.stale)
  BY <1>1, <1>5, <1>6
<1>13. n \in View
  BY <1>7 DEF Same
<1>14. \/ /\ nav' = n /\ anims' = Append(anims, tick) /\ calls' = calls /\ life' = life
       \/ tick.kind = "Push" /\ FinishPush(n) /\ anims' = anims
       \/ tick.kind = "Pop" /\ FinishPop(n, TRUE) /\ anims' = anims
  BY <1>5, <1>6
<1> QED
  BY <1>1, <1>2, <1>3, <1>4, <1>7, <1>8, <1>10, <1>11, <1>12, <1>13, <1>14 DEF n, tick

\* It moves the pages and goes back into the list, ...
LEMMA TickGoesOn ==
  ASSUME NavHypothesis, NavInv, NEW tick \in Tick, tick.time # -1, NEW n \in View, Same(n, nav),
         nav' = n, anims' = Append(anims, tick), calls' = calls, life' = life,
         running' \in Seq(Tick), \A i \in 1 .. Len(running') : running'[i].time # -1,
         routes' = routes, made' = made, spoiled' \in BOOLEAN,
         ~spoiled' => ~spoiled /\ ~tick.stale,
         \A q \in Page :
           n.visible[q] <=> nav.visible[q] \/ (Len(nav.pages) >= 2 /\ q = Lower),
         TicksBelong /\ ~tick.stale =>
           /\ Moves(tick.kind)
           /\ \A i \in 1 .. Len(anims) : anims[i].stale
           /\ \A i \in 1 .. Len(running') : running'[i].stale
  PROVE  NavInv'
<1>1. /\ anims' \in Seq(Tick) /\ Len(anims') = Len(anims) + 1 /\ anims'[Len(anims')] = tick
      /\ \A i \in 1 .. Len(anims) : anims'[i] = anims[i]
      /\ \A i \in 1 .. Len(anims') : i \in 1 .. Len(anims) \/ i = Len(anims')
  <2>1. anims \in Seq(Tick)
    BY DEF NavInv, NavTypes
  <2> QED
    BY <2>1
<1>2. CallsNest' /\ RoutesMatch' /\ MotionIsWhole' /\ CallIsAnnounced' /\ (PagesTold => PagesTold')
  BY NothingIsTold, RouteNumbers
<1>3. NavTypes'
  BY <1>1 DEF NavInv, NavTypes
<1>4. ASSUME ~spoiled' PROVE TicksBelong' /\ PagesInPlace' /\ PagesTold'
  <2>1. TicksBelong /\ PagesInPlace /\ PagesTold /\ ~tick.stale
    BY <1>4 DEF NavInv
  <2>2. /\ nav.transitioning /\ nav.transitionKind = tick.kind
        /\ \A i \in 1 .. Len(anims) : anims[i].stale
        /\ \A i \in 1 .. Len(running') : running'[i].stale
    BY <2>1 DEF Moves
  <2>3. nav'.pages = nav.pages /\ nav'.transitioning /\ nav'.transitionKind = tick.kind
    BY <2>2 DEF Same
  <2>4. ASSUME NEW i \in 1 .. Len(anims'), ~anims'[i].stale
        PROVE  i = Len(anims') /\ anims'[i] = tick
    <3>1. i \notin 1 .. Len(anims)
      BY <1>1, <2>2, <2>4
    <3>2. i = Len(anims')
      BY <1>1, <3>1
    <3> QED
      BY <1>1, <3>2, Zenon
  <2>5. \A i \in 1 .. Len(anims') : ~anims'[i].stale =>
          nav'.transitioning /\ nav'.transitionKind = anims'[i].kind
    BY <2>3, <2>4, Zenon
  <2>6. \A i, j \in 1 .. Len(anims') : ~anims'[i].stale /\ ~anims'[j].stale => i = j
    BY <2>4
  <2>7. TicksBelong'
    BY <2>2, <2>5, <2>6 DEF TicksBelong, Moves
  <2>8. \A i \in 1 .. Len(nav.pages) : i < Len(nav.pages) - 1 => ~nav'.visible[nav.pages[i]]
    BY <2>1, TopPages DEF PagesInPlace
  <2>9. nav.pages # << >> => nav'.visible[Upper]
    BY <2>1, TopPages DEF PagesInPlace
  <2>10. PagesInPlace'
    BY <2>3, <2>8, <2>9 DEF PagesInPlace, Upper
  <2> QED
    BY <1>2, <2>1, <2>7, <2>10
<1> QED
  BY <1>2, <1>3, <1>4 DEF NavInv

\* ... or it lands its transition.
LEMMA TickLandsPush ==
  ASSUME NavHypothesis, NavInv, NEW n \in View, Same(n, nav), FinishPush(n),
         calls = << >>, anims' = anims, running' \in Seq(Tick),
         \A i \in 1 .. Len(running') : running'[i].time # -1,
         routes' = routes, made' = made, spoiled' \in BOOLEAN,
         \A q \in Page :
           n.visible[q] <=> nav.visible[q] \/ (Len(nav.pages) >= 2 /\ q = Lower),
         ~spoiled' =>
           /\ ~spoiled
           /\ TicksBelong => /\ Moves("Push")
                             /\ \A i \in 1 .. Len(anims) : anims[i].stale
                             /\ \A i \in 1 .. Len(running') : running'[i].stale
  PROVE  NavInv'
<1>1. anims' \in Seq(Tick)
  BY DEF NavInv, NavTypes
<1>2. ASSUME ~spoiled'
      PROVE  /\ TicksBelong /\ PagesInPlace /\ PagesTold /\ Moves("Push")
             /\ \A i \in 1 .. Len(anims) : anims[i].stale
             /\ \A i \in 1 .. Len(running') : running'[i].stale
  BY <1>2 DEF NavInv
<1>3. CASE Moves("Push")
  <2>1. /\ NavTypes' /\ CallsNest' /\ RoutesMatch' /\ MotionIsWhole' /\ CallIsAnnounced'
        /\ /\ \A i \in 1 .. Len(nav.pages) : i < Len(nav.pages) - 1 => ~n.visible[nav.pages[i]]
           /\ n.visible[Upper]
           => PagesInPlace'
        /\ PagesTold => PagesTold'
    BY <1>1, <1>3, FinishedPush
  <2>2. ASSUME ~spoiled' PROVE TicksBelong' /\ PagesInPlace' /\ PagesTold'
    <3>1. Len(nav.pages) >= 2 /\ nav.pages # << >>
      BY <1>3, TopPages DEF NavInv, MotionIsWhole, Moves
    <3>2. \A i \in 1 .. Len(nav.pages) : i < Len(nav.pages) - 1 => ~n.visible[nav.pages[i]]
      BY <1>2, <2>2, <3>1, TopPages DEF PagesInPlace
    <3>3. n.visible[Upper]
      BY <1>2, <2>2, <3>1, TopPages DEF PagesInPlace
    <3>4. TicksBelong'
      BY <1>2, <2>2 DEF TicksBelong
    <3> QED
      BY <1>2, <2>1, <2>2, <3>2, <3>3, <3>4
  <2> QED
    BY <2>1, <2>2 DEF NavInv
<1>4. CASE ~Moves("Push")
  <2>1. n.transitionKind # "Push"
    BY <1>4 DEF Moves, Same, NavInv, MotionIsWhole
  <2>2. nav' = n /\ calls' = calls /\ life' = life
    BY <2>1 DEF FinishPush
  <2>3. CallsNest' /\ RoutesMatch' /\ MotionIsWhole' /\ CallIsAnnounced'
    BY <2>2, NothingIsTold, RouteNumbers
  <2>4. NavTypes'
    BY <1>1, <2>2 DEF NavInv, NavTypes
  <2> QED
    BY <1>2, <1>4, <2>3, <2>4 DEF NavInv
<1> QED
  BY <1>3, <1>4

LEMMA TickLandsPop ==
  ASSUME NavHypothesis, NavInv, NEW n \in View, Same(n, nav), FinishPop(n, TRUE),
         calls = << >>, anims' = anims, running' \in Seq(Tick),
         \A i \in 1 .. Len(running') : running'[i].time # -1,
         routes' = routes, made' = made, spoiled' \in BOOLEAN,
         \A q \in Page :
           n.visible[q] <=> nav.visible[q] \/ (Len(nav.pages) >= 2 /\ q = Lower),
         ~spoiled' =>
           /\ ~spoiled
           /\ TicksBelong => /\ Moves("Pop")
                             /\ \A i \in 1 .. Len(anims) : anims[i].stale
                             /\ \A i \in 1 .. Len(running') : running'[i].stale
  PROVE  NavInv'
<1>1. anims' \in Seq(Tick) /\ life \in [Page -> Lives] /\ made \in 0 .. MaxPages
  BY DEF NavInv, NavTypes
<1>2. ASSUME ~spoiled'
      PROVE  /\ TicksBelong /\ PagesInPlace /\ PagesTold /\ Moves("Pop")
             /\ \A i \in 1 .. Len(anims) : anims[i].stale
             /\ \A i \in 1 .. Len(running') : running'[i].stale
  BY <1>2 DEF NavInv
<1>3. /\ Here = "none" /\ There = "none" /\ "none" \notin Ending /\ "none" \notin Removing
      /\ "none" \notin Pushing
  BY CallTypes DEF Ending, Removing, Pushing
<1>4. n.pages = nav.pages /\ (n.popLifecycleActive <=> nav.popLifecycleActive)
  BY DEF Same
<1>5. /\ nav.popLifecycleActive <=> Moves("Pop")
      /\ Moves("Pop") => Len(nav.pages) >= 2 /\ life[Lower] = "WillEnter"
  BY <1>3 DEF NavInv, MotionIsWhole, Moves
<1>6. Len(nav.pages) < 2 <=> ~(Len(nav.pages) >= 2)
  BY <1>4, StackTypes
<1>7. CASE ~Moves("Pop")
  <2>1. nav' = AtRest(n) /\ calls' = calls /\ life' = life
    BY <1>4, <1>5, <1>7 DEF FinishPop
  <2>2. /\ nav' \in View /\ nav'.pages = nav.pages /\ ~nav'.transitioning
        /\ nav'.transitionKind = "None" /\ ~nav'.popLifecycleActive
    BY <1>4, <1>5, <1>7, <2>1 DEF AtRest, View
  <2>3. Here' = "none" /\ There' = "none" /\ CallsNest' /\ calls' \in Seq(Call)
    BY <2>1 DEF Here, There, CallsNest, NavInv, NavTypes
  <2>4. NavTypes'
    BY <1>1, <2>1, <2>2, <2>3 DEF NavInv, NavTypes
  <2>5. RoutesMatch'
    BY <1>3, <2>2, <2>3, RoutesStay, RouteNumbers
  <2>6. MotionIsWhole' /\ CallIsAnnounced'
    BY <1>3, <2>2, <2>3 DEF MotionIsWhole, CallIsAnnounced, Moves
  <2> QED
    BY <1>2, <1>7, <2>3, <2>4, <2>5, <2>6 DEF NavInv
<1>8. CASE Moves("Pop")
  <2>1. /\ Len(nav.pages) >= 2 /\ n.popLifecycleActive /\ nav.pages # << >>
        /\ Upper \in Page /\ Lower \in Page
        /\ \A i \in 1 .. Len(nav.pages) : i < Len(nav.pages) - 1 => nav.pages[i] # Lower
    BY <1>4, <1>5, <1>8, TopPages
  <2>2. Top(n) = Upper /\ Below(n) = Lower
    BY <1>4, StackTypes DEF TopOf, NextOf, Upper, Lower
  <2>3. /\ nav' = LandPop(n)
        /\ Dispatch(NewCall("popLeft", Upper, Lower, TRUE), calls)
    BY <1>4, <1>6, <2>1, <2>2 DEF FinishPop, LandsAt
  <2>4. /\ calls' \in Seq(Call) /\ CallsNest' /\ Len(calls') = 1
        /\ Here' = "popLeft" /\ There' = "popLeft"
        /\ calls'[1].page = Upper /\ calls'[1].below = Lower
        /\ life' = [life EXCEPT ![Upper] = "DidLeave"]
    BY <2>1, <2>3, LandingBegins
  <2>5. /\ nav' \in View /\ life' \in [Page -> Lives]
        /\ RoutesMatch' /\ MotionIsWhole' /\ CallIsAnnounced'
        /\ (\A i \in 1 .. Len(nav.pages) : i < Len(nav.pages) - 1 => ~n.visible[nav.pages[i]])
              => PagesInPlace'
        /\ PagesTold => PagesTold'
    BY <1>3, <1>4, <1>5, <1>8, <2>1, <2>3, <2>4, PopLands
  <2>6. NavTypes'
    BY <1>1, <2>4, <2>5 DEF NavInv, NavTypes
  <2>7. ASSUME ~spoiled' PROVE TicksBelong' /\ PagesInPlace' /\ PagesTold'
    <3>1. \A i \in 1 .. Len(nav.pages) : i < Len(nav.pages) - 1 => ~n.visible[nav.pages[i]]
      BY <1>2, <2>1, <2>7, TopPages DEF PagesInPlace
    <3>2. TicksBelong'
      BY <1>2, <2>7 DEF TicksBelong
    <3> QED
      BY <1>2, <2>5, <2>7, <3>1, <3>2
  <2> QED
    BY <2>4, <2>5, <2>6, <2>7 DEF NavInv
<1> QED
  BY <1>7, <1>8

LEMMA RunTickKeeps ==
  ASSUME NavHypothesis, NavInv, RunTick
  PROVE  NavInv'
<1> DEFINE tick == running[1]
           n == Apply(nav, tick.kind, tick.time)
<1>1. /\ calls = << >> /\ tick \in Tick /\ tick.time \in 0 .. Steps
      /\ running' \in Seq(Tick) /\ \A i \in 1 .. Len(running') : running'[i].time # -1
      /\ routes' = routes /\ made' = made /\ spoiled' \in BOOLEAN
      /\ ~spoiled' => ~spoiled /\ ~tick.stale
      /\ n \in View /\ Same(n, nav)
      /\ \A q \in Page :
           n.visible[q] <=> nav.visible[q] \/ (Len(nav.pages) >= 2 /\ q = Lower)
      /\ \/ /\ nav' = n /\ anims' = Append(anims, tick) /\ calls' = calls /\ life' = life
         \/ tick.kind = "Push" /\ FinishPush(n) /\ anims' = anims
         \/ tick.kind = "Pop" /\ FinishPop(n, TRUE) /\ anims' = anims
      /\ TicksBelong /\ ~tick.stale =>
           /\ Moves(tick.kind)
           /\ \A i \in 1 .. Len(anims) : anims[i].stale
           /\ \A i \in 1 .. Len(running') : running'[i].stale
  BY TickRuns
<1> HIDE DEF n, tick
<1>2. tick.time # -1
  BY <1>1
<1>3. CASE nav' = n /\ anims' = Append(anims, tick) /\ calls' = calls /\ life' = life
  BY <1>1, <1>2, <1>3, TickGoesOn
<1>4. CASE tick.kind = "Push" /\ FinishPush(n) /\ anims' = anims
  BY <1>1, <1>4, TickLandsPush
<1>5. CASE tick.kind = "Pop" /\ FinishPop(n, TRUE) /\ anims' = anims
  BY <1>1, <1>5, TickLandsPop
<1> QED
  BY <1>1, <1>3, <1>4, <1>5

-----------------------------------------------------------------------------
LEMMA NavInitial ==
  ASSUME NavHypothesis, Init
  PROVE  NavInv
<1>1. Steps \in Nat /\ MaxPages \in Nat /\ 0 \in -Steps .. Steps /\ 0 \in 0 .. Steps
      /\ 0 \in 0 .. MaxPages
  BY DEF NavHypothesis, NavigationAssumption
<1>2. /\ nav = [pages |-> << >>, transitioning |-> FALSE, transitionKind |-> "None",
                popLifecycleActive |-> FALSE, progress |-> 0,
                x |-> [p \in Page |-> 0], visible |-> [p \in Page |-> TRUE]]
      /\ routes = << >> /\ anims = << >> /\ running = << >> /\ calls = << >>
      /\ life = [p \in Page |-> "new"] /\ made = 0 /\ spoiled = FALSE
  BY DEF Init
<1>3. nav \in View
  BY <1>1, <1>2 DEF View
<1>4. /\ nav.pages = << >> /\ ~nav.transitioning /\ nav.transitionKind = "None"
      /\ ~nav.popLifecycleActive
  BY <1>2
<1>5. life \in [Page -> Lives]
  BY <1>2 DEF Lives
<1>6. NavTypes
  <2>1. routes \in Seq(Page) /\ anims \in Seq(Tick) /\ running \in Seq(Tick)
        /\ calls \in Seq(Call)
    BY <1>2
  <2>2. \A i \in 1 .. Len(running) : running[i].time # -1
    BY <1>2
  <2>3. made \in 0 .. MaxPages /\ spoiled \in BOOLEAN
    BY <1>1, <1>2
  <2> QED
    BY <1>3, <1>5, <2>1, <2>2, <2>3 DEF NavTypes
<1>7. Here = "none" /\ There = "none" /\ "none" \notin Pushing /\ "none" \notin Removing
      /\ "none" \notin Ending
  BY <1>2 DEF Here, There, Pushing, Removing, Ending
<1>8. CallsNest
  BY <1>2 DEF CallsNest
<1>9. RoutesMatch
  BY <1>2, <1>4, <1>7 DEF RoutesMatch, Ascending, Based
<1>10. MotionIsWhole /\ CallIsAnnounced
  BY <1>4, <1>7 DEF MotionIsWhole, Moves, CallIsAnnounced
<1>11. TicksBelong /\ PagesInPlace /\ PagesTold
  BY <1>2, <1>4, <1>7 DEF TicksBelong, PagesInPlace, PagesTold
<1> QED
  BY <1>6, <1>8, <1>9, <1>10, <1>11 DEF NavInv

LEMMA NavSteps ==
  ASSUME NavHypothesis, NavInv, [Next]_(vars)
  PROVE  NavInv'
<1>1. CASE UNCHANGED vars
  <2>1. /\ nav' = nav /\ routes' = routes /\ anims' = anims /\ running' = running
        /\ calls' = calls /\ life' = life /\ made' = made /\ spoiled' = spoiled
    BY <1>1 DEF vars
  <2>2. /\ Upper' = Upper /\ Lower' = Lower /\ Here' = Here /\ There' = There /\ Based' = Based
    BY <2>1 DEF Upper, Lower, Here, There, Based
  <2>3. NavTypes' /\ CallsNest' /\ RoutesMatch' /\ CallIsAnnounced'
    BY <2>1, <2>2 DEF NavInv, NavTypes, CallsNest, RoutesMatch, CallIsAnnounced
  <2>4. MotionIsWhole'
    BY <2>1, <2>2 DEF NavInv, MotionIsWhole, Moves
  <2>5. /\ TicksBelong => TicksBelong'
        /\ PagesInPlace => PagesInPlace'
        /\ PagesTold => PagesTold'
    BY <2>1, <2>2 DEF TicksBelong, Moves, PagesInPlace, PagesTold
  <2> QED
    BY <2>1, <2>3, <2>4, <2>5 DEF NavInv
<1>2. CASE \E animated \in BOOLEAN : Push(animated) \/ Pop(animated)
  BY <1>2, PushKeeps, PopKeeps
<1>3. CASE RefusePush
  BY <1>3, RefusePushKeeps
<1>4. CASE CallbackReturns
  BY <1>4, VetoPushLeaveKeeps, VetoPushEnterKeeps, PushRestoredKeeps, PushMayLeaveKeeps,
     PushAgreedKeeps, VetoPopLeaveKeeps, VetoPopEnterKeeps, PopRestoredKeeps,
     PopMayLeaveKeeps, PopAgreedKeeps, LeftReturnsKeeps, EnteredReturnsKeeps,
     UndoReturnsKeeps, PopReturnsKeeps DEF CallbackReturns
<1>5. CASE Clear
  BY <1>5, ClearKeeps
<1>6. CASE Rebuild
  BY <1>6, RebuildKeeps
<1>7. CASE Resize
  BY <1>7, ResizeKeeps
<1>8. CASE NextFrame
  BY <1>8, NextFrameKeeps
<1>9. CASE RunTick
  BY <1>9, RunTickKeeps
<1> QED
  BY <1>1, <1>2, <1>3, <1>4, <1>5, <1>6, <1>7, <1>8, <1>9 DEF Next

-----------------------------------------------------------------------------
(* What a page is told, and when *)

Wills == {"WillEnter", "WillLeave"}
Dids == {"DidEnter", "DidLeave"}

\* A callback begins with a Did only for a page that got its Will last.
AnsweredOnly ==
  (calls' # calls /\ Len(calls') >= Len(calls) /\ Event(Head(calls')) \in Dids)
    => life[Target(Head(calls'))] \in Wills

LEMMA NoneBegins ==
  ASSUME NavInv, calls' = calls \/ (calls # << >> /\ calls' = Tail(calls))
  PROVE  AnsweredOnly
<1>1. Len(calls) \in Nat
  BY CallTypes
<1>2. CASE calls # << >> /\ calls' = Tail(calls)
  <2>1. Len(calls') = Len(calls) - 1
    BY <1>2, CallsBelow
  <2>2. ~(Len(calls') >= Len(calls))
    BY <1>1, <2>1
  <2> QED
    BY <2>2 DEF AnsweredOnly
<1>3. CASE calls' = calls
  BY <1>3 DEF AnsweredOnly
<1> QED
  BY <1>2, <1>3

LEMMA BeginsAnswered ==
  ASSUME NEW c \in Call, NEW rest \in Seq(Call), Dispatch(c, rest),
         Event(c) \in Wills \/ life[Target(c)] \in Wills
  PROVE  AnsweredOnly
<1> DEFINE d == [c EXCEPT !.was = IF Event(c) \in {"WillEnter", "WillLeave"}
                                  THEN life[Target(c)] ELSE "new"]
<1>1. calls' = <<d>> \o rest
  BY DEF Dispatch
<1>2. d.at = c.at /\ d.page = c.page /\ d.below = c.below
  BY DEF Call
<1> HIDE DEF d
<1>3. Head(calls') = d
  <2>1. Len(<<d>> \o rest) = Len(rest) + 1 /\ (<<d>> \o rest)[1] = d /\ <<d>> \o rest # << >>
    OBVIOUS
  <2> QED
    BY <1>1, <2>1
<1>4. Event(d) = Event(c) /\ Target(d) = Target(c)
  BY <1>2 DEF Event, Target
<1> QED
  BY <1>3, <1>4 DEF AnsweredOnly, Wills, Dids

LEMMA GoesOnAnswered ==
  ASSUME NavInv, calls # << >>, NEW at \in Stand, GoOn(at),
         NEW c, c = [calls[1] EXCEPT !.at = at],
         Event(c) \in Wills \/ life[Target(c)] \in Wills
  PROVE  AnsweredOnly
<1>1. Head(calls) = calls[1] /\ calls[1] \in Call
  BY CallTypes
<1>2. c \in Call
  BY <1>1 DEF Call
<1>3. Dispatch(c, Tail(calls))
  BY <1>1 DEF GoOn
<1>4. Tail(calls) \in Seq(Call)
  BY CallsBelow
<1> QED
  BY <1>2, <1>3, <1>4, BeginsAnswered

\* The call that goes on is where and for whom it was.
LEMMA GoneOn ==
  ASSUME NavInv, calls # << >>, NEW at \in Stand
  PROVE  LET c == [calls[1] EXCEPT !.at = at]
         IN  c \in Call /\ c.at = at /\ c.page = calls[1].page /\ c.below = calls[1].below
<1>1. calls[1] \in Call
  BY CallTypes
<1> QED
  BY <1>1 DEF Call

LEMMA StandsAt ==
  /\ Closing \subseteq Stand /\ Pushing \subseteq Stand /\ Ending \subseteq Stand
  /\ {"left", "popLeave", "popEnter"} \subseteq Stand
BY DEF Stand

LEMMA PushAnswered ==
  ASSUME NavHypothesis, NavInv, NEW animated \in BOOLEAN, Push(animated)
  PROVE  AnsweredOnly
<1> DEFINE c == IF nav.pages = << >> THEN NewCall("enter", made', 0, animated)
                ELSE NewCall("leave", made', Upper, animated)
<1>1. Dispatch(c, calls) /\ made' = made + 1 /\ made < MaxPages
  <2>1. Top(nav) = Upper /\ NoPage = 0
    BY StackTypes DEF NavInv, NavTypes, TopOf, Upper, NoPage
  <2> QED
    BY <2>1 DEF Push
<1>2. made \in Nat /\ MaxPages \in Nat /\ calls \in Seq(Call)
  BY DEF NavInv, NavTypes, NavHypothesis, NavigationAssumption
<1>3. made' \in Page /\ (nav.pages # << >> => Upper \in Page)
  BY <1>1, <1>2, TopPages DEF Page
<1>4. "enter" \in Stand /\ "leave" \in Stand /\ "new" \in Lives
  BY StandsAt DEF Pushing, Lives
<1>5. c \in Call /\ c.at \in {"enter", "leave"}
  BY <1>3, <1>4 DEF Call, NewCall
<1> HIDE DEF c
<1>6. Event(c) \in Wills
  BY <1>5, Events DEF Wills
<1> QED
  BY <1>1, <1>2, <1>5, <1>6, BeginsAnswered

LEMMA PopAnswered ==
  ASSUME NavHypothesis, NavInv, NEW animated \in BOOLEAN, Pop(animated)
  PROVE  AnsweredOnly
<1> DEFINE c == NewCall("popLeave", Upper, Lower, animated)
<1>1. nav \in View /\ calls \in Seq(Call) /\ Len(nav.pages) > 1
      /\ Dispatch(NewCall("popLeave", Top(nav), Below(nav), animated), calls)
  BY DEF Pop, NavInv, NavTypes
<1>2. Dispatch(c, calls) /\ Len(nav.pages) >= 2
  BY <1>1, StackTypes DEF TopOf, NextOf, Upper, Lower
<1>3. "popLeave" \in Stand /\ "new" \in Lives
  BY StandsAt DEF Lives
<1>4. c \in Call /\ c.at = "popLeave"
  BY <1>2, <1>3, TopPages DEF Call, NewCall
<1> HIDE DEF c
<1>5. Event(c) \in Wills
  BY <1>4, Events DEF Wills
<1> QED
  BY <1>1, <1>2, <1>4, <1>5, BeginsAnswered

\* The callbacks that answer a veto, or let the other page have its say.
LEMMA AskedAnswered ==
  ASSUME NavHypothesis, NavInv, PushMayLeave \/ PopMayLeave
  PROVE  AnsweredOnly
<1> DEFINE at == IF PushMayLeave THEN "enter" ELSE "popEnter"
           c == [calls[1] EXCEPT !.at = at]
<1>1. calls # << >> /\ GoOn(at)
  BY DEF PushMayLeave, PopMayLeave
<1>2. at \in Stand /\ at \in {"enter", "popEnter"}
  BY StandsAt DEF Pushing
<1> HIDE DEF at
<1>3. c \in Call /\ c.at = at
  BY <1>1, <1>2, GoneOn
<1>4. Event(c) \in Wills
  BY <1>2, <1>3, Events DEF Wills
<1> QED
  BY <1>1, <1>2, <1>4, GoesOnAnswered

LEMMA VetoedAnswered ==
  ASSUME NavHypothesis, NavInv, VetoPushEnter \/ VetoPopEnter
  PROVE  AnsweredOnly
<1>1. calls # << >> /\ Head(calls) = calls[1] /\ calls[1] \in Call /\ Here = calls[1].at
  BY CallTypes DEF VetoPushEnter, VetoPopEnter
<1>2. CASE VetoPushEnter
  <2>1. Here = "enter"
    BY <1>1, <1>2 DEF VetoPushEnter
  <2>2. calls[1].below = 0 \/ (calls[1].below = Upper /\ life[Upper] = "WillLeave")
    BY <2>1 DEF NavInv, CallIsAnnounced
  <2>3. CASE calls[1].below = 0
    <3>1. calls' = Tail(calls)
      BY <1>1, <1>2, <2>3 DEF VetoPushEnter, NoPage, PushFails
    <3> QED
      BY <1>1, <3>1, NoneBegins
  <2>4. CASE calls[1].below # 0
    <3> DEFINE c == [calls[1] EXCEPT !.at = "restore"]
    <3>1. GoOn("restore")
      BY <1>1, <1>2, <2>4 DEF VetoPushEnter, NoPage
    <3>2. "restore" \in Stand
      BY StandsAt DEF Pushing
    <3>3. c \in Call /\ c.at = "restore" /\ c.below = calls[1].below
      BY <1>1, <3>2, GoneOn
    <3>4. Target(c) = Upper /\ life[Upper] \in Wills
      BY <2>2, <2>4, <3>3, Events DEF Wills
    <3> QED
      BY <1>1, <3>1, <3>2, <3>4, GoesOnAnswered
  <2> QED
    BY <2>3, <2>4
<1>3. CASE VetoPopEnter
  <2> DEFINE d == [calls[1] EXCEPT !.at = "popRestore", !.was = "new"]
  <2>1. Here = "popEnter" /\ calls' = <<d>> \o Tail(calls)
    BY <1>1, <1>3 DEF VetoPopEnter
  <2>2. calls[1].page = Upper /\ life[Upper] = "WillLeave"
    BY <2>1 DEF NavInv, CallIsAnnounced
  <2>3. "popRestore" \in Stand /\ "new" \in Lives
    BY StandsAt DEF Closing, Lives
  <2>4. d \in Call /\ d.at = "popRestore" /\ d.page = calls[1].page
    BY <1>1, <2>3 DEF Call
  <2> HIDE DEF d
  <2>5. Head(calls') = d
    <3>1. Tail(calls) \in Seq(Call)
      BY <1>1, CallsBelow
    <3>2. (<<d>> \o Tail(calls))[1] = d /\ <<d>> \o Tail(calls) # << >>
      BY <3>1
    <3> QED
      BY <2>1, <3>1, <3>2
  <2>6. Target(d) = Upper
    BY <2>2, <2>4, Events
  <2> QED
    BY <2>2, <2>5, <2>6 DEF AnsweredOnly, Wills
<1> QED
  BY <1>2, <1>3

LEMMA PushAgreedAnswered ==
  ASSUME NavHypothesis, NavInv, PushAgreed
  PROVE  AnsweredOnly
<1>1. /\ calls # << >> /\ calls[1] \in Call /\ life[calls[1].page] = "WillEnter"
      /\ calls[1].below = 0 \/ (calls[1].below = Upper /\ life[Upper] = "WillLeave")
      /\ \/ calls' = Tail(calls)
         \/ GoOn("entered")
         \/ calls[1].below # 0 /\ GoOn("left")
  BY AgreedToPush
<1>2. CASE calls' = Tail(calls)
  BY <1>1, <1>2, NoneBegins
<1>3. CASE GoOn("entered")
  <2> DEFINE c == [calls[1] EXCEPT !.at = "entered"]
  <2>1. "entered" \in Stand
    BY StandsAt DEF Closing
  <2>2. c \in Call /\ c.at = "entered" /\ c.page = calls[1].page
    BY <1>1, <2>1, GoneOn
  <2>3. life[Target(c)] \in Wills
    BY <1>1, <2>2, Events DEF Wills
  <2> QED
    BY <1>1, <1>3, <2>1, <2>3, GoesOnAnswered
<1>4. CASE calls[1].below # 0 /\ GoOn("left")
  <2> DEFINE c == [calls[1] EXCEPT !.at = "left"]
  <2>1. "left" \in Stand
    BY StandsAt
  <2>2. c \in Call /\ c.at = "left" /\ c.below = calls[1].below
    BY <1>1, <2>1, GoneOn
  <2>3. life[Target(c)] \in Wills
    BY <1>1, <1>4, <2>2, Events DEF Wills
  <2> QED
    BY <1>1, <1>4, <2>1, <2>3, GoesOnAnswered
<1> QED
  BY <1>1, <1>2, <1>3, <1>4

LEMMA PopAgreedAnswered ==
  ASSUME NavHypothesis, NavInv, PopAgreed
  PROVE  AnsweredOnly
<1>1. /\ calls # << >> /\ calls[1] \in Call /\ calls[1].page = Upper /\ life[Upper] = "WillLeave"
      /\ calls' = Tail(calls) \/ GoOn("popLeft")
  BY AgreedToPop
<1>2. CASE calls' = Tail(calls)
  BY <1>1, <1>2, NoneBegins
<1>3. CASE GoOn("popLeft")
  <2> DEFINE c == [calls[1] EXCEPT !.at = "popLeft"]
  <2>1. "popLeft" \in Stand
    BY StandsAt DEF Ending
  <2>2. c \in Call /\ c.at = "popLeft" /\ c.page = calls[1].page
    BY <1>1, <2>1, GoneOn
  <2>3. life[Target(c)] \in Wills
    BY <1>1, <2>2, Events DEF Wills
  <2> QED
    BY <1>1, <1>3, <2>1, <2>3, GoesOnAnswered
<1> QED
  BY <1>1, <1>2, <1>3

LEMMA LeftAnswered ==
  ASSUME NavHypothesis, NavInv, LeftReturns
  PROVE  AnsweredOnly
<1> DEFINE at == NextCallback[calls[1].at]
           c == [calls[1] EXCEPT !.at = at]
<1>1. /\ calls # << >> /\ Here \in {"left", "popLeft", "undoLeft"} /\ GoOn(at)
      /\ Here = calls[1].at
  <2>1. /\ calls # << >> /\ Head(calls).at \in {"left", "popLeft", "undoLeft"}
        /\ GoOn(NextCallback[Head(calls).at])
    BY DEF LeftReturns, NextCallback
  <2>2. Head(calls) = calls[1] /\ Here = calls[1].at
    BY <2>1, CallTypes
  <2> HIDE DEF Here
  <2> QED
    BY <2>1, <2>2, Zenon
<1>2. /\ Here = "left" => at = "entered"
      /\ Here = "popLeft" => at = "popEntered"
      /\ Here = "undoLeft" => at = "undoEntered"
  BY <1>1 DEF NextCallback
<1> HIDE DEF at
<1>3. at \in Stand
  BY <1>1, <1>2, StandsAt DEF Closing
<1>4. c \in Call /\ c.at = at /\ c.page = calls[1].page /\ c.below = calls[1].below
  BY <1>1, <1>3, GoneOn
<1> HIDE DEF c
<1>5. /\ Here = "popLeft" => calls[1].below = Upper /\ life[Upper] = "WillEnter"
      /\ Here = "left" => calls[1].page = Upper /\ life[Upper] = "WillEnter"
      /\ Here = "undoLeft" => calls[1].page = Upper /\ life[Upper] = "WillLeave"
  BY DEF NavInv, CallIsAnnounced
<1>6. life[Target(c)] \in Wills
  BY <1>1, <1>2, <1>4, <1>5, Events DEF Wills
<1> QED
  BY <1>1, <1>3, <1>6, GoesOnAnswered DEF c

-----------------------------------------------------------------------------
LEMMA LandsAnswered ==
  ASSUME NavInv, NEW n, NEW at \in {"left", "popLeft", "undoLeft"},
         NEW page \in Page, NEW below \in Page,
         LandsAt(n, at, page, below),
         life[IF at = "popLeft" THEN page ELSE below] \in Wills
  PROVE  AnsweredOnly
<1> DEFINE c == NewCall(at, page, below, TRUE)
<1>1. at \in Stand /\ "new" \in Lives
  BY StandsAt DEF Ending, Lives
<1>2. c \in Call /\ c.at = at /\ c.page = page /\ c.below = below
  BY <1>1 DEF Call, NewCall
<1>3. Dispatch(c, calls) /\ calls \in Seq(Call)
  BY CallTypes DEF LandsAt
<1> HIDE DEF c
<1>4. Target(c) = IF at = "popLeft" THEN page ELSE below
  BY <1>2, Events
<1> QED
  BY <1>2, <1>3, <1>4, BeginsAnswered

\* A push or a pop that lands tells only the pages that move.
LEMMA FinishAnswered ==
  ASSUME NavInv, calls = << >>, NEW n \in View, Same(n, nav),
         NEW completed \in BOOLEAN,
         FinishPush(n) \/ FinishPop(n, completed)
  PROVE  AnsweredOnly
<1>1. /\ n.pages = nav.pages /\ n.transitionKind = nav.transitionKind
      /\ n.popLifecycleActive <=> nav.popLifecycleActive
      /\ Top(n) = Upper /\ Below(n) = Lower
  BY StackTypes DEF Same, TopOf, NextOf, Upper, Lower
<1>2. There = "none" /\ There \notin Ending
  BY CallTypes DEF Ending
<1>3. CASE Moves("Push") /\ FinishPush(n)
  <2>1. /\ Len(nav.pages) >= 2 /\ nav.pages # << >> /\ nav.transitionKind = "Push"
        /\ life[Lower] = "WillLeave" /\ Upper \in Page /\ Lower \in Page
    BY <1>3, TopPages DEF NavInv, MotionIsWhole, Moves
  <2>2. Len(nav.pages) > 1
    BY <2>1, TopPages
  <2>3. LandsAt(LandPush(n), "left", Upper, Lower)
    BY <1>1, <1>3, <2>1, <2>2 DEF FinishPush
  <2> QED
    BY <2>1, <2>3, LandsAnswered DEF Wills
<1>4. CASE ~Moves("Push") /\ FinishPush(n)
  <2>1. n.transitionKind # "Push"
    BY <1>1, <1>4 DEF Moves, NavInv, MotionIsWhole
  <2>2. calls' = calls
    BY <1>4, <2>1 DEF FinishPush
  <2> QED
    BY <2>2, NoneBegins
<1>5. CASE FinishPop(n, completed)
  <2>1. CASE Len(n.pages) < 2 \/ ~n.popLifecycleActive
    <3>1. calls' = calls
      BY <1>5, <2>1 DEF FinishPop
    <3> QED
      BY <3>1, NoneBegins
  <2>2. CASE ~(Len(n.pages) < 2) /\ n.popLifecycleActive
    <3>1. Moves("Pop")
      BY <1>1, <1>2, <2>2 DEF NavInv, MotionIsWhole
    <3>2. Len(nav.pages) >= 2 /\ life[Upper] = "WillLeave" /\ life[Lower] = "WillEnter"
          /\ Upper \in Page /\ Lower \in Page
      BY <3>1, TopPages DEF NavInv, MotionIsWhole, Moves
    <3>3. \/ LandsAt(LandPop(n), "popLeft", Upper, Lower)
          \/ LandsAt(UndoPop(n), "undoLeft", Upper, Lower)
      BY <1>1, <1>5, <2>2 DEF FinishPop
    <3> QED
      BY <3>2, <3>3, LandsAnswered DEF Wills
  <2> QED
    BY <2>1, <2>2
<1> QED
  BY <1>3, <1>4, <1>5

LEMMA NavAnswers ==
  ASSUME NavHypothesis, NavInv, [Next]_(vars)
  PROVE  AnsweredOnly
<1>1. CASE UNCHANGED vars
  BY <1>1, NoneBegins DEF vars
<1>2. CASE \E animated \in BOOLEAN : Push(animated) \/ Pop(animated)
  BY <1>2, PushAnswered, PopAnswered
<1>3. CASE RefusePush
  BY <1>3, NoneBegins DEF RefusePush
<1>4. CASE CallbackReturns
  <2>1. CASE VetoPushLeave \/ PushRestored
    BY <2>1, NoneBegins DEF VetoPushLeave, PushRestored, PushFails
  <2>2. CASE VetoPopLeave \/ PopRestored
    BY <2>2, NoneBegins DEF VetoPopLeave, PopRestored
  <2>3. CASE EnteredReturns \/ UndoReturns \/ PopReturns
    BY <2>3, NoneBegins DEF EnteredReturns, UndoReturns, PopReturns
  <2> QED
    BY <1>4, <2>1, <2>2, <2>3, VetoedAnswered, AskedAnswered, PushAgreedAnswered,
       PopAgreedAnswered, LeftAnswered DEF CallbackReturns
<1>5. CASE Clear
  BY <1>5, NoneBegins DEF Clear
<1>6. CASE Rebuild
  BY <1>6, NoneBegins DEF Rebuild
<1>7. CASE Resize
  <2>1. calls = << >> /\ nav \in View /\ Same(nav, nav)
    BY <1>7 DEF Resize, Idle, NavInv, NavTypes, Same
  <2>2. \/ FinishPush(nav) \/ FinishPop(nav, FALSE) \/ calls' = calls
    BY <1>7 DEF Resize
  <2> QED
    BY <2>1, <2>2, FinishAnswered, NoneBegins
<1>8. CASE NextFrame
  BY <1>8, NoneBegins DEF NextFrame
<1>9. CASE RunTick
  <2> DEFINE tick == running[1]
             n == Apply(nav, tick.kind, tick.time)
  <2>1. /\ calls = << >> /\ n \in View /\ Same(n, nav)
        /\ calls' = calls \/ FinishPush(n) \/ FinishPop(n, TRUE)
    BY <1>9, TickRuns
  <2> HIDE DEF n, tick
  <2> QED
    BY <2>1, FinishAnswered, NoneBegins
<1> QED
  BY <1>1, <1>2, <1>3, <1>4, <1>5, <1>6, <1>7, <1>8, <1>9 DEF Next

\* What the types of NavInv say of the fields.
LEMMA NavInvTypes ==
  ASSUME NavInv
  PROVE  TypeOK
<1>1. /\ nav \in View /\ routes \in Seq(Page) /\ calls \in Seq(Call)
      /\ life \in [Page -> Lives] /\ made \in 0 .. MaxPages /\ spoiled \in BOOLEAN
  BY DEF NavInv, NavTypes
<1>2. /\ nav.pages \in Seq(Page)
      /\ nav.transitioning \in BOOLEAN /\ nav.popLifecycleActive \in BOOLEAN
      /\ nav.transitionKind \in {"None", "Push", "Pop"} /\ nav.progress \in 0 .. Steps
      /\ nav.x \in [Page -> -Steps .. Steps] /\ nav.visible \in [Page -> BOOLEAN]
  BY <1>1 DEF View
<1>3. \A i \in DOMAIN calls : calls[i].at \in DOMAIN EventAt
  <2>1. \A c \in Call : c.at \in Stand
    BY DEF Call
  <2>2. Stand = DOMAIN EventAt
    BY DEF Stand, Closing, Pushing, Ending, EventAt
  <2>3. \A i \in DOMAIN calls : calls[i] \in Call
    BY <1>1
  <2> QED
    BY <2>1, <2>2, <2>3
<1> QED
  BY <1>1, <1>2, <1>3 DEF TypeOK, Lives

\* What NavInv says of the pages once the navigator rests.
LEMMA RestingPages ==
  ASSUME NavInv
  PROVE  /\ PagesAreShownAndRouted
         /\ Settled /\ ~spoiled => WillsAnswered
<1>1. /\ nav.pages \in Seq(Page) /\ Len(nav.pages) \in Nat
      /\ DOMAIN nav.pages = 1 .. Len(nav.pages)
      /\ nav.pages # << >> => Len(nav.pages) >= 1
  BY TopPages
<1>2. calls = << >> => Here = "none" /\ There = "none" /\ "none" \notin Pushing
                       /\ "none" \notin Removing /\ "none" # "popEnter"
  BY CallTypes DEF Pushing, Removing
<1>3. RoutesArePages
  BY <1>2 DEF RoutesArePages, NavInv, RoutesMatch, Based
<1>4. nav.visible \in [Page -> BOOLEAN]
  BY DEF NavInv, NavTypes, View
<1>5. ASSUME Settled, ~spoiled, NEW i \in DOMAIN nav.pages
      PROVE  /\ nav.visible[nav.pages[i]] = (i = Len(nav.pages))
             /\ i = Len(nav.pages) => nav.x[nav.pages[i]] = 0
             /\ i = Len(nav.pages) => life[nav.pages[i]] = "DidEnter"
             /\ i # Len(nav.pages) => life[nav.pages[i]] = "DidLeave"
  <2>1. calls = << >> /\ ~nav.transitioning /\ PagesInPlace /\ PagesTold
    BY <1>5 DEF Settled, NavInv
  <2>2. i \in 1 .. Len(nav.pages) /\ nav.pages # << >> /\ nav.pages[i] \in Page
    BY <1>1, <1>5
  <2>3. \/ i = Len(nav.pages)
        \/ i = Len(nav.pages) - 1 /\ Len(nav.pages) >= 2 /\ i # Len(nav.pages)
        \/ i < Len(nav.pages) - 1 /\ i # Len(nav.pages)
    BY <1>1, <2>2
  <2>4. CASE i = Len(nav.pages)
    <3>1. nav.pages[i] = Upper
      BY <2>4 DEF Upper
    <3>2. nav.visible[Upper] /\ nav.x[Upper] = 0 /\ life[Upper] = "DidEnter"
      BY <1>2, <2>1, <2>2 DEF PagesInPlace, PagesTold
    <3> QED
      BY <1>4, <2>2, <2>4, <3>1, <3>2
  <2>5. CASE i = Len(nav.pages) - 1 /\ Len(nav.pages) >= 2 /\ i # Len(nav.pages)
    <3>1. nav.pages[i] = Lower
      BY <2>5 DEF Lower
    <3>2. ~nav.visible[Lower] /\ life[Lower] = "DidLeave"
      BY <1>2, <2>1, <2>5 DEF PagesInPlace, PagesTold
    <3> QED
      BY <1>4, <2>2, <2>5, <3>1, <3>2
  <2>6. CASE i < Len(nav.pages) - 1 /\ i # Len(nav.pages)
    <3>1. ~nav.visible[nav.pages[i]] /\ life[nav.pages[i]] = "DidLeave"
      BY <2>1, <2>2, <2>6 DEF PagesInPlace, PagesTold
    <3> QED
      BY <1>4, <2>2, <2>6, <3>1
  <2> QED
    BY <2>3, <2>4, <2>5, <2>6
<1>6. ScreenShowsTop
  BY <1>5 DEF ScreenShowsTop, TopIsShown
<1>7. Settled /\ ~spoiled => WillsAnswered
  BY <1>5 DEF WillsAnswered
<1> QED
  BY <1>3, <1>6, <1>7 DEF PagesAreShownAndRouted

\* The inductive invariant of the navigator.
THEOREM NavigatorInvariant == NavHypothesis /\ Spec => []NavInv
<1>1. NavHypothesis /\ Init => NavInv
  BY NavInitial
<1>2. NavHypothesis /\ NavInv /\ [Next]_(vars) => NavInv'
  BY NavSteps
<1>3. NavHypothesis => []NavHypothesis
  <2> HAVE NavHypothesis
  <2> QED
    BY PTL
<1> QED
  BY <1>1, <1>2, <1>3, PTL DEF Spec

-----------------------------------------------------------------------------
\* The fields of the navigator and of its view, the ticks and the calls under way
\* keep their types (navigation_stack.cpp, NavigationView and Navigator::Impl).
THEOREM PagesHaveTypes == NavHypothesis /\ Spec => []TypeOK
<1>1. NavInv => TypeOK
  BY NavInvTypes
<1> QED
  BY <1>1, NavigatorInvariant, PTL

\* Whatever callbacks refuse and whatever the last ones of a call go on to do,
\* once the navigator rests the page on top is in its place and visible and
\* those below it are hidden, and the routing table names the pages of the stack
\* (navigation_stack.cpp, finishPush and finishPop, Navigator::push and pop).
THEOREM PagesShown == NavHypothesis /\ Spec => []PagesAreShownAndRouted
<1>1. NavInv => PagesAreShownAndRouted
  BY RestingPages
<1> QED
  BY <1>1, NavigatorInvariant, PTL

\* Route events come in pairs: at rest every Will was answered, and no callback
\* begins with a Did for a page that got no Will, so no landing comes twice
\* (navigation_stack.cpp, beginPopLifecycle, finishPush and finishPop).
THEOREM WillsPaired == NavHypothesis /\ Spec => WillsArePaired
<1>1. NavInv => (Settled /\ ~spoiled => WillsAnswered)
  BY RestingPages
<1>2. NavHypothesis /\ NavInv /\ [Next]_(vars)
        => [(calls' # calls /\ Len(calls') >= Len(calls)
               /\ Event(Head(calls')) \in {"DidEnter", "DidLeave"})
             => life[Target(Head(calls'))] \in {"WillEnter", "WillLeave"}]_(calls)
  BY NavAnswers DEF AnsweredOnly, Wills, Dids
<1>3. NavHypothesis => []NavHypothesis
  <2> HAVE NavHypothesis
  <2> QED
    BY PTL
<1>4. Spec => [][Next]_(vars)
  BY PTL DEF Spec
<1> QED
  BY <1>1, <1>2, <1>3, <1>4, NavigatorInvariant, PTL DEF WillsArePaired
=============================================================================
