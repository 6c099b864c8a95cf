---------------------------- MODULE TextOnScreen ----------------------------
(* A text on the screen: its lines, and the bitmaps of its glyphs. *)
EXTENDS TextState, AtlasState

\* A text shows all its glyphs in order, in lines that fit, which end in a word
\* only if it is too long and take every word that fits where words are apart by
\* one space (text_layout.cpp, layout and applyMaxLines); and the bitmap of a glyph
\* lies where it is drawn from, was marked for upload, and keeps its padding from all
\* others (font_engine.cpp, rasterizeGlyph).
TextIsWhole ==
  /\ NothingIsLost /\ LinesFit /\ WordsStayWhole /\ LinesAreFilled
  /\ GlyphsKeepTheirCells
=============================================================================
