------------------------------- MODULE Cells --------------------------------
(***************************************************************************)
(* One row of a window, column by column: what printing, insertion,        *)
(* deletion and erasure do to its cells and to the range of columns marked *)
(* as changed, what update() then draws, and the cursor, drawn over it and *)
(* blinking.  The row is the last of the screen, with the scrolling region *)
(* ending above it: a character that does not fit goes to its beginning.   *)
(***************************************************************************)
EXTENDS RowState

CONSTANTS
  Letters,      \* characters one column wide
  Wides,        \* characters two columns wide
  Shapes,       \* the cursor shapes programs ask for
  DefaultShape, \* the option cursor-shape
  MaxOps        \* bound on the characters and sequences of one read

ASSUME WidthAssumption == W \in Nat /\ W >= 2
ASSUME CharactersAssumption == Blank \notin Letters /\ Letters \cap Wides = {}
ASSUME ShapeAssumption == /\ Shapes \subseteq {"none", "underline", "block"}
                          /\ DefaultShape \in Shapes

vars == <<cells, dirty, cx, wrap, insert, visible, shape, drawn, tick,
          active, busy, ops, hung, shows, torn, late, left>>
modes == <<wrap, insert, visible, shape>>
display == <<drawn, shows, torn, late, left>>

Clean == <<W, 0>>

\* A cell of the display: the glyph, and the part of the cursor over it.
Garbage == [ch |-> Blank, type |-> "?", mark |-> "no"]
Shown(cell) == [ch |-> cell.ch, type |-> cell.type, mark |-> "no"]

\* The constructor and resize.
Init ==
  /\ cells = [c \in Cols |-> BlankCell]
  /\ dirty = <<0, W - 1>> /\ cx = 0
  /\ wrap = TRUE /\ insert = FALSE /\ visible = TRUE
  /\ shape = DefaultShape
  /\ drawn = [x |-> W, cell |-> BlankCell, showed |-> FALSE]
  /\ tick = FALSE
  /\ active = FALSE /\ busy = FALSE /\ ops = 0 /\ hung = FALSE
  /\ shows = [c \in Cols |-> Garbage]
  /\ torn = FALSE /\ late = FALSE /\ left = FALSE

-----------------------------------------------------------------------------
(* The row and its marks.                                                  *)

\* changed_line.
Changed(d, sx, ex) ==
  LET s == IF sx >= W THEN W - 1 ELSE sx
      e == IF ex >= W THEN W - 1 ELSE ex
  IN  <<IF d[1] > s THEN s ELSE d[1], IF d[2] < e THEN e ELSE d[2]>>

\* clear_area within the row.
Cleared(row, sx, ex) == [c \in Cols |-> IF c \in sx .. ex THEN BlankCell ELSE row[c]]

ClearArea(sx, ex) ==
  IF sx >= W THEN UNCHANGED <<cells, dirty>>
  ELSE /\ cells' = Cleared(cells, sx, ex)
       /\ dirty' = Changed(dirty, sx, ex)

\* shift_text from column x to the end of the row; n < 0 deletes.
ShiftedBy(row, x, n) ==
  [c \in Cols |-> IF c < x THEN row[c]
                  ELSE IF c - n \in x .. W - 1 THEN row[c - n] ELSE BlankCell]

ShiftText(n) ==
  /\ cells' = ShiftedBy(cells, cx, n)
  /\ dirty' = Changed(dirty, cx, W - 1)

-----------------------------------------------------------------------------
(* The cursor.                                                             *)

\* What updateCursor draws in column p: a line under the character that is
\* there, or the character anew, as it was when the cursor came.
CursorDrawn(screen, c, p) ==
  LET mark == IF ~ c.showed THEN "no" ELSE IF shape = "block" THEN "inverse" ELSE "bar"
      half == IF c.cell.type = "S" THEN "S"
              ELSE IF p = c.x - (IF c.cell.type = "R" THEN 1 ELSE 0) THEN "L" ELSE "R"
  IN  [(IF shape = "block" THEN Shown(Cell(c.cell.ch, half)) ELSE screen[p])
         EXCEPT !.mark = mark]

WithCursor(screen, c) ==
  [p \in Cols |-> IF p \in CursorCells(c) THEN CursorDrawn(screen, c, p) ELSE screen[p]]

\* updateCursor.
UpdateCursor(screen, c) ==
  LET toggled == [c EXCEPT !.showed = ~ @]
  IN  IF active' /\ c.x < W
      THEN drawn' = toggled /\ shows' = WithCursor(screen, toggled)
      ELSE drawn' = c /\ shows' = screen

\* Slip: a cursor that was drawn before stays in its column.
DrawCursorThere(screen) ==
  LET x == IF drawn.x < W THEN drawn.x ELSE cx
  IN  IF visible
      THEN UpdateCursor(screen, [x |-> x, cell |-> IF x < W THEN cells[x] ELSE BlankCell,
                                 showed |-> FALSE])
      ELSE UNCHANGED drawn /\ shows' = screen

\* draw_cursor and drawCursor; the cell behind the last column is not read.
DrawCursor(screen) ==
  IF visible
  THEN UpdateCursor(screen, [x |-> cx, cell |-> IF cx < W THEN cells[cx] ELSE BlankCell,
                             showed |-> FALSE])
  ELSE UNCHANGED drawn /\ shows' = screen

\* VTerm::expose of the columns sx to ex.
Painted(screen, sx, ex) ==
  IF ~ active' THEN screen
  ELSE [p \in Cols |-> LET drawnIn == DrawnIn(cells, sx, ex, p)
                       IN  IF drawnIn = {} THEN screen[p]
                           ELSE Shown(CHOOSE cell \in drawnIn : TRUE)]

-----------------------------------------------------------------------------
(* Actions.  Between BeginInput and EndInput nothing else runs.            *)

\* Bound: what becomes of a display with a torn character or a stray cursor
\* is not followed, until the window is painted again.
Followed == ~ torn /\ ~ late

\* The start of input(): the cursor, if it is shown, is to be painted over.
BeginInput ==
  /\ Followed /\ ~ busy /\ busy' = TRUE /\ ops' = 0
  /\ dirty' = IF visible THEN Changed(dirty, cx, cx) ELSE dirty
  /\ UNCHANGED <<cells, cx, modes, display, tick, active, hung>>

\* The end of input(): update() and draw_cursor().
EndInput ==
  /\ busy /\ busy' = FALSE /\ ops' = 0
  /\ UNCHANGED active
  /\ DrawCursor(IF dirty[2] >= dirty[1] THEN Painted(shows, dirty[1], dirty[2]) ELSE shows)
  /\ dirty' = Clean
  /\ torn' = (torn \/ (active /\ ~ Whole(cells)))
  /\ left' = (left /\ W - 1 \notin dirty[1] .. dirty[2])
  /\ UNCHANGED <<cells, cx, modes, tick, hung, late>>

\* One more character or sequence of the output at hand.
Does == busy /\ ops < MaxOps /\ ops' = ops + 1 /\ UNCHANGED busy

\* Where do_normal_char puts a character of n columns.
Fits(n) == cx + n <= W
PrintsAt(n) == IF Fits(n) THEN cx ELSE IF wrap THEN 0 ELSE W - 1

\* A wide character that wraps leaves a blank in the last column.
WrapsWide(n) == ~ Fits(n) /\ wrap /\ n = 2 /\ cx = W - 1
BeforeWrap(n) == IF WrapsWide(n) THEN [cells EXCEPT ![W - 1] = BlankCell] ELSE cells

\* The shift of insert mode, from the right: i is of type u16 and never
\* less than 0, so in column 0 the loop does not end.
MakeRoom(row, x, n) ==
  [c \in Cols |-> IF insert /\ c - n \in x .. W - n - 1 THEN row[c - n] ELSE row[c]]

Put(row, x, ch, n) ==
  [c \in Cols |-> IF n = 1 /\ c = x THEN Cell(ch, "S")
                  ELSE IF n = 2 /\ c = x THEN Cell(ch, "L")
                  ELSE IF n = 2 /\ c = x + 1 THEN Cell(ch, "R")
                  ELSE row[c]]

\* Slip: insert mode marks only the character, not what it pushes aside.
MarkedAlone(x, n) == Changed(dirty, x, x + n - 1)

\* What do_normal_char marks.
Marked(x, n) ==
  IF insert THEN Changed(dirty, x, W - 1) ELSE Changed(dirty, x, x + n - 1)

\* do_normal_char.
PrintChar(ch, n) ==
  LET x == PrintsAt(n) IN
  /\ Does
  /\ Fits(n) \/ wrap \/ n = 1
  /\ IF insert /\ x = 0
     THEN hung' = TRUE /\ UNCHANGED <<cells, dirty, cx, left>>
     ELSE /\ cells' = Put(MakeRoom(BeforeWrap(n), x, n), x, ch, n)
          /\ dirty' = Marked(x, n)
          /\ cx' = x + n
          /\ left' = (left \/ (WrapsWide(n) /\ cells[W - 1] # BlankCell))
          /\ UNCHANGED hung
  /\ UNCHANGED <<modes, drawn, shows, torn, late, tick, active>>

\* insert_char (n > 0) and delete_char (n < 0).
ShiftChars(n) ==
  /\ Does
  /\ IF n >= W - cx \/ -n >= W - cx THEN ClearArea(cx, W - 1) ELSE ShiftText(n)
  /\ UNCHANGED <<cx, modes, display, tick, active, hung>>

\* erase_char, erase_line, and erase_display as it concerns this row.
Erase(sx, ex) ==
  /\ Does
  /\ ClearArea(sx, ex)
  /\ UNCHANGED <<cx, modes, display, tick, active, hung>>

EraseChar(n) == Erase(cx, cx + (IF n > W - cx THEN W - cx ELSE n) - 1)
EraseLine(part) ==
  CASE part = 0 -> Erase(cx, W - 1)
    [] part = 1 -> Erase(0, cx)
    [] part = 2 -> Erase(0, W - 1)

\* cr, bs, tab, cursor_left, cursor_right, cursor_position_col, ...
MoveCursor(x) ==
  /\ Does /\ x # cx
  /\ cx' = x
  /\ UNCHANGED <<cells, dirty, modes, display, tick, active, hung>>

\* FbShell::modeChanged, enableCursor: the timer runs while the active window
\* shows a cursor.  A signal that is pending when it stops is not taken back.
Blinks(a, v, s) == a /\ v /\ s # "none"

SetTimer(v, s) ==
  tick' \in IF Blinks(active, v, s) THEN {FALSE}
            ELSE IF Blinks(active, visible, shape) THEN BOOLEAN ELSE {tick}

\* enable_mode and set_cursor_type.
SetMode(w, i, v, s) ==
  /\ Cardinality({k \in 1 .. 4 : <<w, i, v, s>>[k] # modes[k]}) = 1
  /\ Does
  /\ wrap' = w /\ insert' = i /\ visible' = v /\ shape' = s
  /\ SetTimer(v, s)
  /\ UNCHANGED <<cells, dirty, cx, display, active, hung>>

\* reset (ESC c).
Reset ==
  /\ Does
  /\ wrap' = TRUE /\ insert' = FALSE /\ visible' = TRUE /\ shape' = DefaultShape
  /\ cx' = 0
  /\ ClearArea(0, W - 1)
  /\ SetTimer(TRUE, DefaultShape)
  /\ UNCHANGED <<display, active, hung>>

\* FbTerm's handling of SIGALRM, which waits while output is processed.
Blink ==
  /\ Followed /\ ~ busy /\ tick' = FALSE
  /\ tick \/ Blinks(active, visible, shape)
  /\ UNCHANGED active
  /\ UpdateCursor(shows, drawn)
  /\ late' = (late \/ (active /\ ~ visible /\ drawn.x < W /\ shape # "none"))
  /\ UNCHANGED <<cells, dirty, cx, modes, busy, ops, hung, torn, left>>

\* The window becomes the active one and is painted, the cursor last
\* (FbShell::switchVt, expose); or it gives way to another or to the console,
\* which sets the timer as it needs it and gets what is pending.
Activate ==
  /\ ~ busy /\ ~ active /\ active' = TRUE
  /\ UNCHANGED modes
  /\ LET painted == Painted(shows, 0, W - 1)
     IN  IF visible /\ drawn.x < W
         THEN UpdateCursor(painted, [drawn EXCEPT !.showed = FALSE])
         ELSE UNCHANGED drawn /\ shows' = painted
  /\ torn' = ~ Whole(cells) /\ late' = FALSE /\ left' = FALSE
  /\ tick' \in IF Blinks(TRUE, visible, shape) THEN {FALSE} ELSE BOOLEAN
  /\ UNCHANGED <<cells, dirty, cx, busy, ops, hung>>

Deactivate ==
  /\ ~ busy /\ active /\ active' = FALSE
  /\ shows' = [c \in Cols |-> Garbage]
  /\ tick' = FALSE
  /\ UNCHANGED <<cells, dirty, cx, modes, drawn, busy, ops, hung, torn, late, left>>

Returns ==
  \/ BeginInput \/ EndInput
  \/ \E ch \in Letters : PrintChar(ch, 1)
  \/ \E ch \in Wides : PrintChar(ch, 2)
  \/ \E n \in (-W) .. W : n # 0 /\ ShiftChars(n)
  \/ \E n \in 1 .. W : EraseChar(n)
  \/ \E part \in 0 .. 2 : EraseLine(part)
  \/ \E x \in Cols : MoveCursor(x)
  \/ \E w, i, v \in BOOLEAN, s \in Shapes : SetMode(w, i, v, s)
  \/ Reset
  \/ Blink
  \/ Activate \/ Deactivate

Next == \/ ~ hung /\ Returns
        \/ hung /\ UNCHANGED vars

Spec == Init /\ [][Next]_vars
=============================================================================
