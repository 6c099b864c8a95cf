------------------------------- MODULE MCScroll ------------------------------
(* A page that scrolls one way, or further. *)
EXTENDS ScrollControl

Size(w, h) == [a \in Axis |-> IF a = "x" THEN w ELSE h]
MCContents == {Size(1, 2), Size(1, 3)}
MCViewports == {Size(1, 1), Size(1, 2)}
=============================================================================
