------------------------------ MODULE GlyphAtlas ------------------------------
(***************************************************************************)
(* The pages of rasterised glyphs (core/src/ui/font_engine.cpp): shelves   *)
(* filled from left to right, a new shelf when a glyph is too wide for the *)
(* rest of one or too high for it, a new page when no page has room, and   *)
(* no glyph at all when there are enough pages.                            *)
(*                                                                         *)
(* A glyph stands for font, glyph index and size in pixels.  It is not     *)
(* larger than a page: for a larger one rasterizeGlyph writes past the end *)
(* of a fresh page, which no size of text an application uses comes to.    *)
(***************************************************************************)
EXTENDS AtlasState, Sequences

CONSTANTS
  Glyph,
  Extents,         \* the bitmaps a glyph may have: [w, h : Nat]
  kMaxAtlasPages

AtlasAssumption ==
  /\ kAtlasPageSize \in Nat /\ kMaxAtlasPages \in Nat \ {0} /\ kGlyphPadding \in Nat
  /\ \A e \in Extents : /\ e.w \in Nat /\ e.w + 2 * kGlyphPadding <= kAtlasPageSize
                        /\ e.h \in Nat /\ e.h + 2 * kGlyphPadding <= kAtlasPageSize

VARIABLES
  pages          \* [cursorX, cursorY, rowHeight]

vars == <<extent, pages, glyphCache, bitmaps, marked>>

Coordinate == 0 .. kAtlasPageSize
Region == [page : 1 .. kMaxAtlasPages, x : Coordinate, y : Coordinate, w : Coordinate,
           h : Coordinate]

TypeOK ==
  /\ extent \in [Glyph -> Extents]
  /\ Len(pages) <= kMaxAtlasPages
  /\ \A p \in DOMAIN pages :
       pages[p] \in [cursorX : Coordinate, cursorY : Coordinate, rowHeight : Coordinate]
  /\ DOMAIN glyphCache \subseteq Glyph
  /\ \A g \in DOMAIN glyphCache :
       glyphCache[g] \in [page : 0 .. kMaxAtlasPages, x : Coordinate, y : Coordinate]
  /\ marked \subseteq Region
  /\ \A p \in bitmaps : p.glyph \in Glyph

Init ==
  /\ extent \in [Glyph -> Extents]
  /\ pages = << >> /\ glyphCache = [g \in {} |-> 0] /\ bitmaps = {} /\ marked = {}

NeedW(e) == e.w + 2 * kGlyphPadding
NeedH(e) == e.h + 2 * kGlyphPadding

\* Slip: only a full shelf is left.
WrapsAtTheEnd(page, e) == page.cursorX + NeedW(e) > kAtlasPageSize

Wraps(page, e) ==
  page.cursorX + NeedW(e) > kAtlasPageSize \/ page.rowHeight < NeedH(e)

\* Slip: the shelf that a new one begins below is forgotten.
FitsForgetfully(page, e) ==
  IF Wraps(page, e) THEN page.cursorY + NeedH(e) <= kAtlasPageSize
  ELSE page.cursorY + page.rowHeight <= kAtlasPageSize

Fits(page, e) ==
  IF Wraps(page, e) THEN page.cursorY + page.rowHeight + NeedH(e) <= kAtlasPageSize
  ELSE page.cursorY + page.rowHeight <= kAtlasPageSize

Shelf(page, e) ==
  IF Wraps(page, e)
    THEN [cursorX |-> 0, cursorY |-> page.cursorY + page.rowHeight, rowHeight |-> NeedH(e)]
    ELSE page

FreshPage == [cursorX |-> 0, cursorY |-> 0, rowHeight |-> 0]

\* Slip: the region starts at the bitmap, behind the padding.
DirtyInside(p, page, e) ==
  [page |-> p, x |-> page.cursorX + kGlyphPadding, y |-> page.cursorY + kGlyphPadding,
   w |-> NeedW(e) - 2 * kGlyphPadding - 1, h |-> NeedH(e) - 2 * kGlyphPadding]

DirtyRegion(p, page, e) ==
  [page |-> p, x |-> page.cursorX, y |-> page.cursorY, w |-> NeedW(e), h |-> NeedH(e)]

\* A glyph takes the place behind the last one on page p of all.
Place(g, p, all) ==
  LET e == extent[g]
      page == Shelf(all[p], e)
  IN /\ pages' = [all EXCEPT ![p] = [page EXCEPT !.cursorX = @ + NeedW(e)]]
     /\ glyphCache' = [h \in DOMAIN glyphCache \cup {g} |->
                         IF h = g THEN [page |-> p, x |-> page.cursorX, y |-> page.cursorY]
                         ELSE glyphCache[h]]
     /\ bitmaps' = bitmaps \cup {[page |-> p, x |-> page.cursorX + kGlyphPadding,
                                y |-> page.cursorY + kGlyphPadding, w |-> e.w, h |-> e.h,
                                glyph |-> g]}
     /\ marked' = marked \cup {DirtyRegion(p, page, e)}

Room(g) == {p \in DOMAIN pages : Fits(pages[p], extent[g])}

\* The last page with room, or a new one; nothing happens when there are enough.
Rasterize(g) ==
  /\ extent[g].w > 0 /\ extent[g].h > 0
  /\ \/ \E p \in Room(g) : (\A q \in Room(g) : q <= p) /\ Place(g, p, pages)
     \/ /\ Room(g) = {} /\ Len(pages) < kMaxAtlasPages
        /\ Place(g, Len(pages) + 1, Append(pages, FreshPage))

\* A blank has no pixels, but is known.
CacheBlank(g) ==
  /\ extent[g].w = 0 \/ extent[g].h = 0
  /\ glyphCache' = [h \in DOMAIN glyphCache \cup {g} |->
                      IF h = g THEN [page |-> 0, x |-> 0, y |-> 0] ELSE glyphCache[h]]
  /\ UNCHANGED <<pages, bitmaps, marked>>

\* rasterizeGlyph, of a glyph that is not in the cache.
RasterizeGlyph(g) ==
  /\ g \notin DOMAIN glyphCache
  /\ Rasterize(g) \/ CacheBlank(g)
  /\ UNCHANGED extent

Next == \E g \in Glyph : RasterizeGlyph(g)

Spec == Init /\ [][Next]_vars
==============================================================================
