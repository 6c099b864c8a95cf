SPECIFICATION Spec
CONSTANTS
  Advance <- MCAdvance
  EllipsisWidth = 1
  MaxGlyphs = 4
  Widths <- MCWidths
  Limits <- MCLimits
INVARIANT EmptyLinesAreEmptyParagraphs
CHECK_DEADLOCK FALSE
