------------------------------- MODULE MCViews -------------------------------
(***************************************************************************)
(* Small instances of what keeps a page up to date: rebuilds of widgets    *)
(* into elements and views (WidgetTree), widgets that depend on inherited  *)
(* data (InheritedTree), the layout of views (ViewLayout), the lines of a  *)
(* text (TextFlow) and the pages of its glyphs (GlyphAtlas), and the tree  *)
(* a screen reader works on (Semantics).                                   *)
(*                                                                         *)
(* They are checked side by side: "part", chosen once, says which of them  *)
(* runs, and the others rest in one initial state.                         *)
(***************************************************************************)
EXTENDS WidgetTree, TextOnScreen

CONSTANT Address     \* of the views a screen reader is told of

VARIABLES
  part,
  shape, box, painting,
  elements, themes, dangling,
  maxLines, at, lineStart, lastBreak,
  pages,
  page, enabled, nodes, views, actionViews, ids, nextId, surface, talkBack, snapshot,
  built, sent

\* Two leaf types; lists that grow, shrink, leave gaps, change the type of a slot
\* before one that is kept, and move Expanded from slot to slot.
Plain(kind) == [flex |-> FALSE, kind |-> kind]
Expanded(kind) == [flex |-> TRUE, kind |-> kind]

MCLeaf == {"text", "box"}
MCLists ==
  { << >>,
    << Plain(Counter) >>,
    << Plain("text"), Expanded(Counter), Plain("text") >>,
    << Nothing, Expanded(Counter), Plain(Counter) >>,
    << Plain(Counter), Expanded("text") >>,
    << Expanded(Counter), Nothing, Plain("text") >> }

\* A window, its content and a page over views a, b and c, whose kinds, children and
\* changing widgets are given; a and c come and go.
Shape(kinds, kids, changes) ==
  [kind |-> [host |-> "host", content |-> "plain", page |-> kinds[1],
             a |-> kinds[2], b |-> kinds[3], c |-> kinds[4]],
   kids |-> [host |-> <<"content">>, content |-> <<"page">>, page |-> kids[1],
             a |-> kids[2], b |-> kids[3], c |-> << >>],
   changes |-> changes]

\* A row of a box and a text, a stack of a padded text and a centred one, boxes in
\* boxes, a list in a scrolling view, and a scrolling view in another view.
MCShapes ==
  { Shape(<<"flex", "sized", "text", "text">>, <<<<"a", "c">>, <<"b">>, << >>>>, {"a", "b"}),
    Shape(<<"stack", "padding", "text", "center">>, <<<<"a", "c">>, <<"b">>, << >>>>, {"a", "b"}),
    Shape(<<"center", "wrap", "sized", "text">>, <<<<"a">>, <<"b">>, <<"c">>>>, {"b", "c"}),
    Shape(<<"scroll", "listContent", "text", "wrap">>, <<<<"a">>, <<"b", "c">>, << >>>>,
          {"page", "a"}),
    Shape(<<"wrap", "scroll", "scrollContent", "text">>, <<<<"a">>, <<"b">>, <<"c">>>>,
          {"a", "c"}) }

Layouts == INSTANCE ViewLayout WITH
  Shapes <- MCShapes, Optional <- {"a", "c"}, Interactive <- {"page", "a", "c"},
  Sizes <- {-1, 0, 2}, Widths <- {3, 4}, tree <- box
Inherited == INSTANCE InheritedTree WITH
  Data <- {"dark", "light"}, MaxThemes <- 2, MaxReaders <- 3, MaxElements <- 7

\* A wide glyph is wider than a line may be.
MCAdvance == [letter |-> 1, wide |-> 4, space |-> 1, newline |-> 1]
Lines == INSTANCE TextFlow WITH
  MaxGlyphs <- 5, Widths <- {0, 1, 3}, Limits <- {0, 2}, i <- at

\* A blank, bitmaps that leave a shelf by one pixel in width or height, and some that
\* fill two pages of six pixels with fewer than four glyphs.
MCExtents == {[w |-> e[1], h |-> e[2]] : e \in {<<0, 1>>, <<1, 1>>, <<1, 2>>, <<3, 1>>, <<2, 3>>}}
Atlas == INSTANCE GlyphAtlas WITH
  Glyph <- 1 .. 4, Extents <- MCExtents, kMaxAtlasPages <- 2
ASSUME MCTextAssumption == Lines!TextAssumption
ASSUME MCAtlasAssumption == Atlas!AtlasAssumption

\* A container with an onClick of its own and one leaf, a text or one to press long;
\* and one with two leaves, texts or leaves to tap or to press long.
Reader == INSTANCE Semantics WITH
  Slot <- 1 .. 1, Labels <- {"buy"}, MaxIds <- 3, MaxLeaves <- 1,
  OwnActions <- {{}, {"tap"}}, LeafActions <- {{}, {"longPress"}}
Merging == INSTANCE Semantics WITH
  Slot <- 1 .. 1, Labels <- {"buy"}, MaxIds <- 3, MaxLeaves <- 2,
  OwnActions <- {{}}, LeafActions <- {{}, {"tap"}, {"longPress"}}

\* No operation tells one address from another.
Addresses == Permutations(Address)

layoutVars == <<shape, box, painting>>
inheritedVars == <<elements, themes, dangling>>
textVars == <<text, breaks, maxWidth, maxLines, at, lineStart, lastBreak, lines, done>>
atlasVars == <<extent, pages, glyphCache, bitmaps, marked>>
readerVars == <<page, enabled, nodes, views, actionViews, ids, nextId, surface, talkBack,
                snapshot, built, sent>>
suiteVars ==
  <<part, vars, layoutVars, inheritedVars, textVars, atlasVars, readerVars>>

InTree ==
  /\ part = "tree"
  /\ UNCHANGED <<part, layoutVars, inheritedVars, textVars, atlasVars, readerVars>>
InLayouts ==
  /\ part = "layouts"
  /\ UNCHANGED <<part, vars, inheritedVars, textVars, atlasVars, readerVars>>
InInherited ==
  /\ part = "inherited"
  /\ UNCHANGED <<part, vars, layoutVars, textVars, atlasVars, readerVars>>
InText ==
  /\ part = "text"
  /\ UNCHANGED <<part, vars, layoutVars, inheritedVars, atlasVars, readerVars>>
InAtlas ==
  /\ part = "atlas"
  /\ UNCHANGED <<part, vars, layoutVars, inheritedVars, textVars, readerVars>>
InReader ==
  /\ part \in {"reader", "merging"}
  /\ UNCHANGED <<part, vars, layoutVars, inheritedVars, textVars, atlasVars>>

SuiteInit ==
  /\ part \in {"tree", "layouts", "inherited", "text", "atlas", "reader", "merging"}
  /\ part # "text" => text = << >> /\ maxWidth = 0 /\ maxLines = 0
  /\ part # "atlas" => extent = [g \in 1 .. 4 |-> [w |-> 0, h |-> 1]]
  /\ part \notin {"reader", "merging"} => talkBack = TRUE
  /\ Init /\ Layouts!Init /\ Inherited!Init /\ Lines!Init /\ Atlas!Init /\ Reader!Init
  /\ part # "layouts" => shape.kind["page"] = "flex"

SuiteNext ==
  \/ InTree /\ Next
  \/ InLayouts /\ Layouts!Next
  \/ InInherited /\ Inherited!Next
  \/ InText /\ Lines!Next
  \/ InAtlas /\ Atlas!Next
  \/ InReader /\ part = "reader" /\ Reader!Next
  \/ InReader /\ part = "merging" /\ Merging!Next

SuiteSpec == SuiteInit /\ [][SuiteNext]_suiteVars

\* The types of the six.
Types ==
  /\ TypeOK /\ Layouts!TypeOK /\ Inherited!TypeOK /\ Lines!TypeOK /\ Atlas!TypeOK
  /\ IF part = "merging" THEN Merging!TypeOK ELSE Reader!TypeOK

\* The views of a Flex are those of its slots, each once, and only a child that
\* is wrapped in Expanded stretches (widget_tree.cpp, rebuilds of the host and of a
\* State; flex_layout.cpp, parent data by position).
ViewsAreOfSlots == ChildrenAreSlots /\ DataIsOwn

\* As long as the root is clean every view has the place and size it would have if
\* everything were laid out anew, and a touch reaches the topmost of the views that
\* show where it is (render_view.cpp, layout, markNeedsLayout, hitTest and paint).  It
\* is long to evaluate, and asked only where the layout runs.
LayoutIsCurrentAndHit ==
  part = "layouts" => Layouts!CleanMeansLaidOut /\ Layouts!HitIsOnTop

\* Who reads a theme has read what the nearest one carries now, a theme knows its
\* readers and they know it, and no destroyed element is called
\* (widget_tree.cpp, dependOnInherited; inherited_widget.cpp, update).
ReadersAreCurrent == Inherited!ReadersAreCurrent /\ Inherited!DependentsAreAlive

\* The core keeps a tree without double ids, the copy the screen reader works on
\* is that tree as the views are now, and after a frame that sent an update the page
\* answers the actions the reader is offered, all but those merged into a node and
\* routed past the view that has the callback (semantics.cpp, frame, absorbLeafActions
\* and performAction; SemanticsA11yBridge.java, applyUpdate).
ReaderIsInStep ==
  Reader!NodesAreATree /\ Reader!ReaderSeesThePage /\ Reader!SentActionsAreAnswered
=============================================================================
