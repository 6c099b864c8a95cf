----------------------------- MODULE AtlasState -----------------------------
(***************************************************************************)
(* The bitmaps of rasterised glyphs (core/src/ui/font_engine.cpp) and what *)
(* is promised of them.  GlyphAtlas has the operations.                    *)
(***************************************************************************)
EXTENDS Integers

CONSTANTS
  kAtlasPageSize, kGlyphPadding

VARIABLES
  extent,        \* of each glyph, as its font has it
  glyphCache,    \* glyph -> [page, x, y], page 0 for a blank one
  bitmaps,       \* history: what was written, as [page, x, y, w, h, glyph]
  marked         \* history: the regions marked dirty, as [page, x, y, w, h]

-----------------------------------------------------------------------------
(* Properties *)

Apart(a, b) ==
  \/ a.page # b.page
  \/ a.x + a.w <= b.x \/ b.x + b.w <= a.x \/ a.y + a.h <= b.y \/ b.y + b.h <= a.y

Within(a, b) ==
  /\ a.page = b.page
  /\ b.x <= a.x /\ a.x + a.w <= b.x + b.w /\ b.y <= a.y /\ a.y + a.h <= b.y + b.h

\* A bitmap with what a linear filter may read around it.
WithPadding(p) ==
  [page |-> p.page, x |-> p.x - kGlyphPadding, y |-> p.y - kGlyphPadding,
   w |-> p.w + 2 * kGlyphPadding, h |-> p.h + 2 * kGlyphPadding]

\* Where forEachGlyph says the bitmap of a cached glyph is.
Sampled(g) ==
  [page |-> glyphCache[g].page, x |-> glyphCache[g].x + kGlyphPadding,
   y |-> glyphCache[g].y + kGlyphPadding, w |-> extent[g].w, h |-> extent[g].h, glyph |-> g]

\* A cached glyph is where it is drawn from, within its page and marked for upload,
\* and no other glyph was or will be written so near that it shows at the rim.
GlyphsKeepTheirCells ==
  /\ \A g \in DOMAIN glyphCache : glyphCache[g].page # 0 => Sampled(g) \in bitmaps
  /\ \A p \in bitmaps :
       /\ Within(WithPadding(p), [page |-> p.page, x |-> 0, y |-> 0,
                                  w |-> kAtlasPageSize, h |-> kAtlasPageSize])
       /\ \E m \in marked : Within(p, m)
       /\ \A q \in bitmaps : q # p => Apart(WithPadding(p), WithPadding(q))
=============================================================================
