----------------------------- MODULE MCTextFlow -----------------------------
(* A small instance of TextFlow. *)
EXTENDS TextFlow

MCAdvance == [letter |-> 1, wide |-> 4, space |-> 1, newline |-> 1]
MCWidths == {0, 1, 3}
MCLimits == {0, 2}
=============================================================================
