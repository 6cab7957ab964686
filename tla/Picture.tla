------------------------------ MODULE Picture -------------------------------
(***************************************************************************)
(* How one row of a terminal gets onto the display.  A cell of the         *)
(* terminal is a character and its type, a double width character being    *)
(* its left and its right half in neighbouring cells.  VTerm::expose       *)
(* hands the characters of a range to drawChars, which draws them one      *)
(* behind the other: a half without its partner shifts what follows.       *)
(* Colours are left out.                                                   *)
(***************************************************************************)
EXTENDS Integers, FiniteSets

CONSTANTS
  W,            \* width
  Blank         \* the space

Cols == 0 .. W - 1
Cell(ch, type) == [ch |-> ch, type |-> type]
BlankCell == Cell(Blank, "S")

\* The characters of the row that are not half ones.
IsWhole(row, c) ==
  CASE row[c].type = "S" -> TRUE
    [] row[c].type = "L" -> c + 1 \in Cols /\ row[c + 1] = Cell(row[c].ch, "R")
    [] row[c].type = "R" -> c - 1 \in Cols /\ row[c - 1] = Cell(row[c].ch, "L")

Whole(row) == \A c \in Cols : IsWhole(row, c)

\* The range expose is asked for, extended to the halves it cuts off; the
\* left end is of type u16, and before column 0 it is past every right end.
ExposedStart(row, sx) == IF row[sx].type = "R" THEN sx - 1 ELSE sx
ExposedEnd(row, ex) == IF row[ex].type = "L" THEN ex + 1 ELSE ex

Exposed(row, sx, ex) ==
  IF ExposedStart(row, sx) < 0 THEN {}
  ELSE ExposedStart(row, sx) .. ExposedEnd(row, ex)

\* Where the character of column c is drawn: as many cells behind the start
\* as the characters before it are wide.
DrawnFrom(row, start, c) ==
  start + Cardinality({k \in Cols : k \in start .. c - 1 /\ row[k].type # "R"})
        + Cardinality({k \in Cols : k \in start .. c - 1 /\ row[k].type = "L"})

\* What expose draws in column p, by a character of the range sx to ex: the
\* whole of it or one half.
DrawnIn(row, sx, ex, p) ==
  {Cell(row[c].ch, IF row[c].type = "L" /\ p # DrawnFrom(row, ExposedStart(row, sx), c)
                   THEN "R" ELSE row[c].type) :
     c \in {k \in Cols \cap Exposed(row, sx, ex) :
              /\ row[k].type # "R"
              /\ p - DrawnFrom(row, ExposedStart(row, sx), k)
                   \in IF row[k].type = "L" THEN 0 .. 1 ELSE {0}}}
=============================================================================
