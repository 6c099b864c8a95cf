------------------------------ MODULE TextState -----------------------------
(***************************************************************************)
(* A text that is broken into lines (core/src/ui/text_layout.cpp), the     *)
(* lines it has, and what is promised of these.  TextFlow has the          *)
(* operations.                                                             *)
(*                                                                         *)
(* Positions count from 1, and the end of a line is the position after its *)
(* last glyph.                                                             *)
(***************************************************************************)
EXTENDS Integers, Sequences, SequencesExt

CONSTANTS
  Advance,         \* the width of each kind of glyph
  EllipsisWidth

Space == "space"
Newline == "newline"

VARIABLES
  text, breaks, maxWidth,   \* breaks are the glyphs with canBreakAfter
  lines,                    \* lines_
  done

\* The sums of the widths, one for each glyph and one for none.
prefix[k \in 0 .. Len(text)] == IF k = 0 THEN 0 ELSE prefix[k - 1] + Advance[text[k]]

Extent(begin, end) == prefix[end - 1] - prefix[begin - 1]

\* The end without the spaces before it.
Trimmed(begin, end) ==
  IF end < begin THEN end
  ELSE CHOOSE q \in begin .. end :
         /\ q = begin \/ text[q - 1] # Space
         /\ \A r \in q .. end - 1 : text[r] = Space

-----------------------------------------------------------------------------
(* Properties *)

Seen == {k \in 1 .. Len(text) : text[k] \notin {Space, Newline}}
PositionsOf(line) == line.begin .. line.end - 1
Cutoff == lines # << >> /\ Last(lines).ellipsized

\* Every glyph that shows is on one line, the lines follow each other, and only an
\* ellipsis leaves glyphs out, those behind it (text_layout.cpp, pushLine and
\* applyMaxLines).
NothingIsLost ==
  done =>
    /\ \A k, l \in DOMAIN lines : k < l => lines[k].end <= lines[l].begin
    /\ \A g \in Seen : \/ \E k \in DOMAIN lines : g \in PositionsOf(lines[k])
                       \/ Cutoff /\ g >= Last(lines).end

\* A line is no wider than it may be, its ellipsis included, unless it has a single
\* glyph or nothing but the ellipsis.
LinesFit ==
  done /\ maxWidth > 0 => \A k \in DOMAIN lines : LET line == lines[k] IN
    \/ Extent(line.begin, line.end) + (IF line.ellipsized THEN EllipsisWidth ELSE 0) <= maxWidth
    \/ line.ellipsized /\ line.end = line.begin
    \/ ~line.ellipsized /\ line.end = line.begin + 1

\* Two lines of one paragraph, one after the other.
Wrapped(k) ==
  /\ k + 1 \in DOMAIN lines
  /\ lines[k].begin < lines[k].end
  /\ \A p \in lines[k].begin .. lines[k + 1].begin - 1 : text[p] # Newline

\* A line ends where a break is allowed, and within a word only if the word alone
\* is too long (text_layout.h, lines 15-16).
WordsStayWhole ==
  done => \A k \in DOMAIN lines : Wrapped(k) =>
    \/ lines[k + 1].begin - 1 \in breaks
    \/ breaks \cap (lines[k].begin .. lines[k + 1].begin - 2) = {}

\* Where a single space stands between words, a line takes every word that fits:
\* what the next line begins with, up to its first break, would have been too much
\* (text_layout.cpp, lines 95-99).
SingleSpaces ==
  \A k \in 1 .. Len(text) : text[k] = Space => k \in breaks
LinesAreFilled ==
  done /\ SingleSpaces => \A k \in DOMAIN lines : Wrapped(k) /\ ~lines[k + 1].ellipsized =>
    LET first == lines[k + 1].begin
        ends == {b + 1 : b \in {b \in breaks : b >= first}} \cup {Len(text) + 1}
                  \cup {p \in first .. Len(text) : text[p] = Newline}
    IN Extent(lines[k].begin, Trimmed(first, Min(ends))) > maxWidth

=============================================================================
