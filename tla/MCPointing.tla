----------------------------- MODULE MCPointing ------------------------------
(* A small instance of Pointing for TLC. *)
EXTENDS Pointing

CONSTANTS d, w

S(ch) == Cell(ch, "S")
Row3(x, y, z) == [c \in Cols |-> CASE c = 0 -> x [] c = 1 -> y [] c = 2 -> z]

\* A double width character of a word, before and behind another character.
MCLines == {Row3(Cell(w, "L"), Cell(w, "R"), S(d)), Row3(S(d), Cell(w, "L"), Cell(w, "R"))}
MCWordChars == {w}
==============================================================================
