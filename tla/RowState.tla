------------------------------ MODULE RowState ------------------------------
(***************************************************************************)
(* One row of a window, the cursor, and what the display shows of them;    *)
(* and what a window promises of its display.  Cells says how they change. *)
(***************************************************************************)
EXTENDS Picture

VARIABLES
  cells,        \* text and attrs of the row
  dirty,        \* <<dirty_startx, dirty_endx>>
  cx,           \* cursor_x; W after a character in the last column
  wrap, insert, \* mode_flags.auto_wrap, insert_mode
  visible,      \* mode_flags.cursor_visible
  shape,        \* mode_flags.cursor_shape
  drawn,        \* mCursor
  tick,         \* a SIGALRM is pending from before the blink timer stopped
  active,       \* this is the active window
  busy,         \* VTerm::input runs
  ops,          \* characters and sequences it has done, see MaxOps
  hung,         \* it never returns
  shows,        \* what the display shows in each column
  torn, late,   \* history: a character was drawn without its other half,
                \* the cursor was drawn while it was hidden,
  left          \* the last column was blanked and not marked as changed

\* The columns the cursor c covers: a block both halves of a character.
CursorCells(c) ==
  CASE shape = "none" -> {}
    [] shape = "underline" -> {c.x}
    [] shape = "block" -> CASE c.cell.type = "S" -> {c.x}
                            [] c.cell.type = "L" -> {c.x, c.x + 1}
                            [] c.cell.type = "R" -> IF c.x = 0 THEN {} ELSE {c.x - 1, c.x}

-----------------------------------------------------------------------------
(* Properties.                                                             *)

\* The last column, after do_normal_char blanked it to wrap a double width
\* character, which it does not mark, and until the column is painted again.
LeftBehind == IF left THEN {W - 1} ELSE {}

\* When no output is being processed the active window shows the characters of
\* its row (changed_line, update, expose): in every column but the last one after
\* a double width character was wrapped out of it, until it is painted again;
\* and not from when a character lost a half, or a late signal drew an old
\* cursor, until the window is painted again.
RowShown ==
  active /\ ~ busy /\ ~ torn /\ ~ late =>
    \A p \in Cols : \/ Cell(shows[p].ch, shows[p].type) = cells[p]
                    \/ p \in LeftBehind

\* When no output is being processed the active window shows one cursor, at
\* cursor_x, over the whole character there, while it is visible and in the
\* shown half of its blinking, and otherwise none (input, draw_cursor,
\* updateCursor).  The exceptions are those of RowShown: the last column after a
\* wrapped character, a character that lost a half, a late signal.
OneCursor ==
  active /\ ~ busy /\ ~ torn /\ ~ late =>
    LET there == IF visible /\ drawn.showed
                 THEN CursorCells([x |-> cx, cell |-> cells[cx]]) ELSE {}
    IN  \A p \in Cols \ LeftBehind : shows[p].mark # "no" <=> p \in there
=============================================================================
