----------------------------- MODULE ViewLayout -----------------------------
(***************************************************************************)
(* The layout protocol of core/src/ui/render_view.cpp: constraints go      *)
(* down, sizes come up, dirty marks bubble to the root and a flush lays    *)
(* out from there, past what is clean; with the performLayout of every     *)
(* view of layout/flex_layout.cpp, controls and view/scroll_control.cpp,   *)
(* and the hit test and the painting of the result.                        *)
(*                                                                         *)
(* One axis, the main one of a Flex.  The views are the pages of a         *)
(* navigator: the host, its content view and below it a tree of a given    *)
(* shape, in which widgets are rebuilt, mounted and unmounted.             *)
(***************************************************************************)
EXTENDS Integers, Sequences, FiniteSets, SequencesExt

CONSTANTS
  Shapes,       \* [kind : kind of each view, kids : its children when all are mounted,
                \*  changes : the views whose widgets get new sizes]
  Optional,     \* views that come and go
  Interactive,  \* views with a gesture callback
  Sizes,        \* values of a widget's own size or insets, -1 a size not given
  Widths        \* widths the surface may have

None == "none"
Host == "host"
Page == "page"
Infinite == 1000     \* BoxConstraints::kInfinite

VARIABLES
  shape,       \* the shape of the tree
  tree,        \* the views
  painting     \* g_buildingFrame

vars == <<shape, tree, painting>>

View == DOMAIN shape.kind
Kind(v) == shape.kind[v]

-----------------------------------------------------------------------------
(* Constraints *)

Larger(m, n) == IF m > n THEN m ELSE n
Tight(w) == [min |-> Larger(0, w), max |-> Larger(0, w)]
Loose(c) == [min |-> 0, max |-> c.max]
Bounded(c) == c.max < Infinite
Deflate(c, by) ==
  LET min == Larger(0, c.min - by)
  IN  [min |-> min, max |-> IF Bounded(c) THEN Larger(min, c.max - by) ELSE Infinite]
Constrain(c, w) == IF w < c.min THEN c.min ELSE IF w > c.max THEN c.max ELSE w
Biggest(c) == IF Bounded(c) THEN c.max ELSE c.min
Fill(c, w) == IF Bounded(c) THEN c.max ELSE w

NoConstraints == [min |-> -1, max |-> -1]

-----------------------------------------------------------------------------
(* A tree t is a record of functions on the views; a view that is mounted  *)
(* has a parent.                                                           *)

Unmounted(v) == tree.parent[v] = None
ParentOf(v) == CHOOSE p \in View : v \in Range(shape.kids[p])

RECURSIVE Descendants(_)
Descendants(v) == {v} \cup UNION {Descendants(k) : k \in Range(shape.kids[v])}

\* setPosition
Put(t, v, x) == [t EXCEPT !.x[v] = x]

RECURSIVE Layout(_, _, _), Mark(_, _), Rebuild(_, _, _, _, _)

\* Slip: the mark stays where it was made.
MarkOnlyHere(t, v) == IF t.dirty[v] THEN t ELSE [t EXCEPT !.dirty[v] = TRUE]

\* markNeedsLayout
Mark(t, v) ==
  IF t.dirty[v] THEN t
  ELSE LET marked == [t EXCEPT !.dirty[v] = TRUE]
       IN  IF t.parent[v] = None THEN marked ELSE Mark(marked, t.parent[v])

\* flushLayout: every view here ends up under the host.
Flush(t) ==
  IF t.dirty[Host] /\ t.given[Host] # NoConstraints THEN Layout(t, Host, t.given[Host]) ELSE t

\* The children one after the other, each with its constraints.
LayoutAll(t, kids, c) ==
  FoldLeft(LAMBDA acc, k : Put(Layout(acc, k, c), k, 0), t, kids)

Widest(t, kids) ==
  LET widths == {0} \cup {t.w[k] : k \in Range(kids)}
  IN  CHOOSE w \in widths : \A u \in widths : u <= w

Total(t, kids) == FoldLeft(LAMBDA sum, k : sum + t.w[k], 0, kids)

\* FlexView: first the children that measure themselves, then those that share
\* what is left, then the positions.
Flex(t, v, c) ==
  LET kids == t.kids[v]
      rigid == SelectSeq(kids, LAMBDA k : t.flex[k] = 0)
      elastic == SelectSeq(kids, LAMBDA k : t.flex[k] > 0)
      first == FoldLeft(LAMBDA acc, k : Layout(acc, k, [min |-> 0, max |-> Infinite]), t, rigid)
      left == IF Bounded(c) THEN Larger(0, c.max - Total(first, rigid)) ELSE 0
      share == IF elastic = << >> THEN 0 ELSE left \div Len(elastic)
      second == FoldLeft(LAMBDA acc, k : Layout(acc, k, Tight(share)), first, elastic)
      placed == FoldLeft(LAMBDA acc, i : Put(acc, kids[i], Total(second, SubSeq(kids, 1, i - 1))),
                         second, [i \in DOMAIN kids |-> i])
  IN  <<placed, Fill(c, Total(second, kids))>>

\* The constraints a view with one child gives it, and where it puts it.
ForChild(t, v, c) ==
  CASE Kind(v) = "sized" -> IF t.size[v] >= 0 THEN Tight(t.size[v]) ELSE c
    [] Kind(v) = "padding" -> Deflate(c, 2 * t.size[v])
    [] Kind(v) = "center" -> Loose(c)
    [] Kind(v) = "wrap" -> c
    [] Kind(v) = "scroll" -> Tight(t.size[v])
    [] Kind(v) = "scrollContent" -> Tight(Biggest(c))

\* What it reports, given the child's size.
Reported(t, v, c, childSize) ==
  CASE Kind(v) = "sized" -> IF t.size[v] >= 0 THEN t.size[v] ELSE Fill(c, childSize)
    [] Kind(v) = "padding" -> childSize + 2 * t.size[v]
    [] Kind(v) = "center" -> Fill(c, childSize)
    [] Kind(v) = "wrap" -> IF t.kids[v] = << >> THEN Biggest(c) ELSE childSize
    [] Kind(v) \in {"scroll", "scrollContent"} -> Biggest(c)

Offset(t, v, w, childSize) ==
  CASE Kind(v) = "padding" -> t.size[v]
    [] Kind(v) = "center" -> (w - childSize) \div 2
    [] OTHER -> 0

OneChild(t, v, c) ==
  IF t.kids[v] = << >> THEN <<t, Reported(t, v, c, 0)>>
  ELSE LET k == Head(t.kids[v])
           done == Layout(t, k, ForChild(t, v, c))
           w == Reported(done, v, c, done.w[k])
       IN  <<Put(done, k, Offset(done, v, w, done.w[k])), w>>

\* The navigator's host: its content, the page, and, if the width has changed
\* during a transition, the end of the transition, whose callbacks rebuild.
HostLayout(t, c) ==
  LET w == Biggest(c)
      content == Put(Layout([t EXCEPT !.laidOut = w], "content", Tight(w)), "content", 0)
      paged == IF t.parent[Page] = None THEN content ELSE Layout(content, Page, Tight(w))
      lands == t.landing # None /\ t.laidOut # w /\ t.parent[Page] # None
  IN  <<IF lands
        THEN Rebuild([paged EXCEPT !.landing = None], Page, t.landing, 0, 0)
        ELSE paged, w>>

\* performLayout of each kind, with the size it returns; "plain" is the base
\* class, which leaves its children alone.
PerformLayout(t, v, c) ==
  CASE Kind(v) = "plain" -> <<t, Biggest(c)>>
    [] Kind(v) = "text" -> <<t, Constrain(c, t.size[v])>>
    [] Kind(v) = "flex" -> Flex(t, v, c)
    [] Kind(v) = "stack" ->
         LET done == LayoutAll(t, t.kids[v], Loose(c))
         IN  <<done, Fill(c, Widest(done, t.kids[v]))>>
    [] Kind(v) = "listContent" ->
         LET done == FoldLeft(LAMBDA acc, i :
               Put(Layout(acc, t.kids[v][i], Tight(t.size[v])), t.kids[v][i], t.size[v] * (i - 1)),
               t, [i \in DOMAIN t.kids[v] |-> i])
         IN  <<done, Biggest(c)>>
    [] Kind(v) = "host" -> HostLayout(t, c)
    [] OTHER -> OneChild(t, v, c)

\* Slip: new constraints are not looked at.
LayoutIfDirty(t, v, c) ==
  IF painting \/ (~t.dirty[v] /\ t.given[v] # NoConstraints) THEN t
  ELSE LET done == PerformLayout([t EXCEPT !.given[v] = c], v, c)
       IN  [done[1] EXCEPT !.w[v] = Constrain(c, done[2]), !.dirty[v] = FALSE]

\* View::layout; nothing is laid out while a frame is painted.
Layout(t, v, c) ==
  IF painting \/ (~t.dirty[v] /\ t.given[v] = c) THEN t
  ELSE LET done == PerformLayout([t EXCEPT !.given[v] = c], v, c)
       IN  [done[1] EXCEPT !.w[v] = Constrain(c, done[2]), !.dirty[v] = FALSE]

-----------------------------------------------------------------------------
(* Rebuilds *)

\* configureChild of a Flex, setFlexChild; other parents keep no data.
Configure(t, k, flex) ==
  IF Kind(t.parent[k]) # "flex" THEN t
  ELSE Flush(Mark([t EXCEPT !.flex[k] = flex], t.parent[k]))

\* Slip: a rebuild copies the sizes, and that is all.
RebuildOnlyCopies(t, v, w, size, flex) ==
  LET updated == IF v = w THEN [t EXCEPT !.size[v] = size] ELSE t
  IN  FoldLeft(LAMBDA acc, k : Rebuild(acc, k, w, size, flex), updated, t.kids[v])

\* A rebuild of v in which the widget of w has a new size and flex factor:
\* updateRenderObject, updateChildren down the tree, then mark and flush.
Rebuild(t, v, w, size, flex) ==
  LET updated == IF v = w THEN [t EXCEPT !.size[v] = size] ELSE t
      below == FoldLeft(LAMBDA acc, k :
                 Configure(Rebuild(acc, k, w, size, flex), k, IF k = w THEN flex ELSE acc.flex[k]),
                 updated, t.kids[v])
  IN  Flush(Mark(below, v))

\* addChild of a new view, its children after it, then updateChildren's end.
RECURSIVE MountTree(_, _, _)
MountTree(t, v, p) ==
  LET added == Mark([t EXCEPT !.parent[v] = p, !.kids[p] = Append(@, v)], p)
      below == FoldLeft(LAMBDA acc, k : MountTree(acc, k, v), added, shape.kids[v])
  IN  Configure(Flush(Mark(below, v)), v, below.flex[v])

\* removeChild: the parent is laid out at once, without the child.
RECURSIVE UnmountTree(_, _)
UnmountTree(t, v) ==
  LET p == t.parent[v]
      below == FoldLeft(UnmountTree, t, t.kids[v])
      gone == [below EXCEPT !.parent[v] = None, !.kids[p] = SelectSeq(@, LAMBDA k : k # v),
                            !.dirty[v] = TRUE, !.given[v] = NoConstraints,
                            !.x[v] = 0, !.w[v] = 0, !.flex[v] = 0]
  IN  Flush(Mark(gone, p))

-----------------------------------------------------------------------------

Init ==
  /\ shape \in Shapes
  /\ tree =
       LET below == {v \in View : \E p \in View : v \in Range(shape.kids[p])}
       IN [parent |-> [v \in View |-> IF v \in below THEN ParentOf(v) ELSE None],
           kids |-> shape.kids,
           size |-> [v \in View |-> 0], flex |-> [v \in View |-> 0],
           dirty |-> [v \in View |-> TRUE], given |-> [v \in View |-> NoConstraints],
           x |-> [v \in View |-> 0], w |-> [v \in View |-> 0],
           visible |-> [v \in View |-> TRUE],
           laidOut |-> 0, landing |-> None]
  /\ painting = FALSE

\* setBounds of the root, when the surface changes its size.
SetBounds ==
  /\ ~painting
  /\ \E w \in Widths : tree' = Layout(tree, Host, Tight(w))
  /\ UNCHANGED <<shape, painting>>

\* A setState of the element of v; the application may do it in a painter.
SetState ==
  /\ \E v \in {Page} \cup shape.changes : \E w \in shape.changes, size \in Sizes, flex \in {0, 1} :
       /\ ~Unmounted(v) /\ ~Unmounted(w) /\ w \in Descendants(v)
       /\ Kind(tree.parent[w]) # "flex" => flex = 0
       /\ size < 0 => Kind(w) = "sized"
       /\ tree' = Rebuild(tree, v, w, size, flex)
  /\ UNCHANGED <<shape, painting>>

\* The parent's rebuild mounts the child or unmounts it.
MountChild ==
  /\ ~painting
  /\ \E v \in Optional \cap View :
       /\ Unmounted(v) /\ ~Unmounted(ParentOf(v))
       /\ tree' = Rebuild(MountTree(tree, v, ParentOf(v)), ParentOf(v), None, 0, 0)
  /\ UNCHANGED <<shape, painting>>

UnmountChild ==
  /\ ~painting
  /\ \E v \in Optional \cap View :
       /\ ~Unmounted(v)
       /\ tree' = Rebuild(UnmountTree(tree, v), ParentOf(v), None, 0, 0)
  /\ UNCHANGED <<shape, painting>>

SetVisible ==
  /\ \E v \in Optional \cap View : tree' = [tree EXCEPT !.visible[v] = ~@]
  /\ UNCHANGED <<shape, painting>>

\* A transition begins; a view will be rebuilt by the page when it lands.
Navigate ==
  /\ ~painting
  /\ tree.landing = None
  /\ \E v \in shape.changes : tree' = [tree EXCEPT !.landing = v]
  /\ UNCHANGED <<shape, painting>>

\* buildFrame lays out what is still dirty before it paints.
BeginFrame ==
  /\ ~painting
  /\ tree' = Flush(tree)
  /\ painting' = TRUE
  /\ UNCHANGED shape

EndFrame ==
  /\ painting
  /\ painting' = FALSE
  /\ UNCHANGED <<shape, tree>>

Next ==
  \/ SetBounds \/ SetState \/ MountChild \/ UnmountChild \/ SetVisible
  \/ Navigate \/ BeginFrame \/ EndFrame

Spec == Init /\ [][Next]_vars

-----------------------------------------------------------------------------
(* Painting and hit testing, of views where updateActuals puts them *)

Meet(a, b) == [from |-> Larger(a.from, b.from), to |-> IF a.to < b.to THEN a.to ELSE b.to]

\* paint: the views in the order they are drawn, each with the part that shows.
RECURSIVE Paint(_, _, _)
Paint(v, origin, clip) ==
  LET from == origin + tree.x[v]
      shows == Meet(clip, [from |-> from, to |-> from + tree.w[v]])
  IN  IF ~tree.visible[v] \/ shows.from >= shows.to THEN << >>
      ELSE <<[view |-> v, shows |-> shows]>>
             \o FlattenSeq([i \in DOMAIN tree.kids[v] |-> Paint(tree.kids[v][i], from, shows)])

\* Slip: the first child that is hit, not the one on top.
RECURSIVE HitFirst(_, _, _)
HitFirst(v, origin, point) ==
  LET from == origin + tree.x[v]
      hits == SelectSeq([i \in DOMAIN tree.kids[v] |-> HitFirst(tree.kids[v][i], from, point)],
                        LAMBDA hit : hit # None)
  IN  IF ~tree.visible[v] \/ point < from \/ point >= from + tree.w[v] THEN None
      ELSE IF hits # << >> THEN Head(hits)
      ELSE IF v \in Interactive THEN v ELSE None

RECURSIVE HitTest(_, _, _)
HitTest(v, origin, point) ==
  LET from == origin + tree.x[v]
      hits == SelectSeq([i \in DOMAIN tree.kids[v] |-> HitTest(tree.kids[v][i], from, point)],
                        LAMBDA hit : hit # None)
  IN  IF ~tree.visible[v] \/ point < from \/ point >= from + tree.w[v] THEN None
      ELSE IF hits # << >> THEN Last(hits)
      ELSE IF v \in Interactive THEN v ELSE None

-----------------------------------------------------------------------------
(* Properties *)

TypeOK ==
  /\ painting \in BOOLEAN
  /\ \A v \in View :
       /\ tree.parent[v] \in View \cup {None}
       /\ tree.dirty[v] \in BOOLEAN
       /\ tree.w[v] \in Nat
       /\ \A i \in DOMAIN tree.kids[v] : tree.parent[tree.kids[v][i]] = v

\* The layout of the same widgets from nothing.
Afresh ==
  Layout([tree EXCEPT !.dirty = [v \in View |-> TRUE], !.landing = None], Host, tree.given[Host])

\* As long as the root is clean every view has the place and the size it would
\* have if everything were laid out from the root: no legal sequence of
\* rebuilds, mounts, new bounds and layouts within layouts loses a mark
\* (markNeedsLayout, flushLayout, layout).
CleanMeansLaidOut ==
  ~painting /\ ~tree.dirty[Host] =>
    /\ \A v \in View : ~Unmounted(v) => ~tree.dirty[v]
    /\ tree.x = Afresh.x /\ tree.w = Afresh.w

\* A touch reaches the topmost of the interactive views that show there: hitTest
\* and paint walk the tree the other way round, with their own clipping.
HitIsOnTop ==
  LET drawn == Paint(Host, 0, [from |-> 0, to |-> tree.w[Host]])
  IN  \A point \in 0 .. tree.w[Host] :
        LET under == SelectSeq(drawn, LAMBDA d : d.view \in Interactive
                                        /\ point >= d.shows.from /\ point < d.shows.to)
        IN  HitTest(Host, 0, point) = IF under = << >> THEN None ELSE Last(under).view
=============================================================================
