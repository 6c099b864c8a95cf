------------------------------ MODULE TextFlow ------------------------------
(***************************************************************************)
(* Breaking a text into lines: TextLayout::layout, pushLine and            *)
(* applyMaxLines of core/src/ui/text_layout.cpp.                           *)
(*                                                                         *)
(* A text is a sequence of glyphs that are told apart by their width and   *)
(* by being a space or a newline; where a line may end is given with it,   *)
(* as libunibreak would (Breakable).  The scan of the glyphs takes a step  *)
(* for each turn of its loop.                                              *)
(***************************************************************************)
EXTENDS TextState

CONSTANTS
  MaxGlyphs,   \* bound on the length of a text
  Widths,      \* what maxWidth may be; 0 is without limit
  Limits       \* what maxLines may be; 0 is without limit

Glyph == DOMAIN Advance

TextAssumption ==
  /\ Advance \in [Glyph -> Nat] /\ {Space, Newline} \subseteq Glyph
  /\ EllipsisWidth \in Nat
  /\ MaxGlyphs \in Nat /\ Widths \subseteq Nat /\ Limits \subseteq Nat

None == 0

VARIABLES
  maxLines,                \* of the input
  i, lineStart, lastBreak  \* the scan

input == <<text, breaks, maxWidth, maxLines>>
vars == <<input, i, lineStart, lastBreak, lines, done>>

TypeOK ==
  /\ text \in Seq(Glyph) /\ Len(text) <= MaxGlyphs
  /\ breaks \subseteq 1 .. Len(text)
  /\ maxWidth \in Widths /\ maxLines \in Limits
  /\ i \in 1 .. Len(text) + 1 /\ lineStart \in 1 .. Len(text) + 1
  /\ lastBreak \in 0 .. Len(text)
  /\ lines \in Seq([begin : 1 .. Len(text) + 1, end : 1 .. Len(text) + 1,
                    ellipsized : BOOLEAN])
  /\ done \in BOOLEAN

\* UAX #14: no break before spaces and newlines; after a newline and the last
\* glyph one must break, which is not the mark the code takes.
Breakable(t) ==
  {k \in 1 .. Len(t) - 1 : t[k] # Newline /\ t[k + 1] \notin {Space, Newline}}

Init ==
  /\ text \in BoundedSeq(Glyph, MaxGlyphs)
  /\ breaks \in SUBSET Breakable(text)
  /\ maxWidth \in Widths /\ maxLines \in Limits
  /\ i = 1 /\ lineStart = 1 /\ lastBreak = None
  /\ lines = << >>
  /\ done = FALSE

-----------------------------------------------------------------------------

\* The first position from p on that is not a space.
SkipSpaces(p) ==
  CHOOSE q \in p .. Len(text) + 1 :
    /\ q = Len(text) + 1 \/ text[q] # Space
    /\ \A r \in p .. q - 1 : text[r] = Space

PushLine(begin, end) ==
  lines' = Append(lines, [begin |-> begin, end |-> Trimmed(begin, end), ellipsized |-> FALSE])

Scanning == ~done /\ i <= Len(text)

\* Slip: the break remembered is one of the paragraph before.
HardBreakRemembers ==
  /\ Scanning
  /\ text[i] = Newline
  /\ PushLine(lineStart, i)
  /\ lineStart' = i + 1 /\ i' = i + 1
  /\ UNCHANGED <<input, lastBreak, done>>

HardBreak ==
  /\ Scanning
  /\ text[i] = Newline
  /\ PushLine(lineStart, i)
  /\ lineStart' = i + 1 /\ lastBreak' = None /\ i' = i + 1
  /\ UNCHANGED <<input, done>>

LeadingSpace ==
  /\ Scanning
  /\ text[i] = Space /\ i = lineStart
  /\ lineStart' = i + 1 /\ i' = i + 1
  /\ UNCHANGED <<input, lastBreak, lines, done>>

Overflows ==
  /\ Scanning
  /\ text[i] # Newline
  /\ maxWidth > 0 /\ i > lineStart
  /\ Extent(lineStart, i + 1) > maxWidth

\* Slip: a space that may not be broken after ends the line too.
AnySpaceFits == text[i] = Space /\ Extent(lineStart, i) <= maxWidth

\* The space that is too much ends the line itself.
SpaceFits == text[i] = Space /\ i \in breaks /\ Extent(lineStart, i) <= maxWidth

BreakAtSpace ==
  /\ Overflows
  /\ SpaceFits
  /\ PushLine(lineStart, i + 1)
  /\ lineStart' = SkipSpaces(i + 1) /\ lastBreak' = None /\ i' = i + 1
  /\ UNCHANGED <<input, done>>

\* The last break there is among the glyphs of the new line that are scanned already.
Rescanned(start) == Max({None} \cup {j \in breaks : start <= j /\ j < i})

\* Back to the last break, or in the middle of a word; the glyph that was too much
\* is looked at again.
BreakBefore ==
  /\ Overflows
  /\ ~SpaceFits
  /\ LET end == IF lastBreak # None THEN lastBreak + 1 ELSE i IN
       /\ PushLine(lineStart, end)
       /\ lineStart' = SkipSpaces(end)
       /\ lastBreak' = Rescanned(SkipSpaces(end))
  /\ UNCHANGED <<input, i, done>>

TakeGlyph ==
  /\ Scanning
  /\ text[i] # Newline
  /\ ~(text[i] = Space /\ i = lineStart)
  /\ ~Overflows
  /\ lastBreak' = IF i \in breaks THEN i ELSE lastBreak
  /\ i' = i + 1
  /\ UNCHANGED <<input, lineStart, lines, done>>

\* Slip: the ellipsis is given no room.
CutBare(line) ==
  LET fits == {e \in line.begin .. line.end : Extent(line.begin, e) <= maxWidth}
  IN [line EXCEPT !.ellipsized = TRUE,
                  !.end = IF maxWidth = 0 THEN @
                          ELSE Trimmed(line.begin, Max({line.begin} \cup fits))]

\* The line as it is cut for the ellipsis.
Cut(line) ==
  LET fits == {e \in line.begin .. line.end :
                 Extent(line.begin, e) + EllipsisWidth <= maxWidth}
  IN [line EXCEPT !.ellipsized = TRUE,
                  !.end = IF maxWidth = 0 THEN @
                          ELSE Trimmed(line.begin, Max({line.begin} \cup fits))]

ApplyMaxLines(all) ==
  IF maxLines = 0 \/ Len(all) <= maxLines THEN all
  ELSE Append(SubSeq(all, 1, maxLines - 1), Cut(all[maxLines]))

\* What is left after the scan, an empty line after a last newline, and the limit.
Finish ==
  /\ ~done /\ i = Len(text) + 1
  /\ LET n == Len(text)
         rest(b) == [begin |-> b, end |-> Trimmed(b, n + 1), ellipsized |-> FALSE]
     IN lines' = ApplyMaxLines(IF lineStart <= n THEN Append(lines, rest(lineStart))
                               ELSE IF n > 0 /\ text[n] = Newline THEN Append(lines, rest(n + 1))
                               ELSE lines)
  /\ done' = TRUE
  /\ UNCHANGED <<input, i, lineStart, lastBreak>>

Next == HardBreak \/ LeadingSpace \/ BreakAtSpace \/ BreakBefore \/ TakeGlyph \/ Finish

Spec == Init /\ [][Next]_vars

-----------------------------------------------------------------------------
(* Properties *)

\* A line without glyphs is a paragraph without glyphs that show: spaces at the end
\* of a line are dropped and take no room (text_layout.h, line 15).
EmptyLinesAreEmptyParagraphs ==
  done => \A k \in DOMAIN lines :
    lines[k].begin >= lines[k].end /\ ~lines[k].ellipsized =>
      \A g \in Seen : \E p \in Min({g, lines[k].begin}) .. Max({g, lines[k].begin}) - 1 :
        text[p] = Newline
=============================================================================
