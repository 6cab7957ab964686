----------------------------- MODULE ScreenPan ------------------------------
(***************************************************************************)
(* How Screen moves rows of text without drawing them: it pans the display *)
(* over a video memory that is larger, or wraps around in it, and repairs  *)
(* what moved by mistake.  Pixels are taken line by line along the         *)
(* direction of scrolling, whichever it is in the memory: with Rotate180   *)
(* and Rotate90 the lines run backwards.                                   *)
(***************************************************************************)
EXTENDS Integers

CONSTANTS
  R,            \* mRows
  F,            \* the height of the font
  Bottom,       \* lines below the last row, mHeight % FH(1)
  Spare,        \* lines of memory that are not displayed
  Content,      \* what a row of text can hold
  Junk, Bare    \* lines that are not a row's; a line of an erased margin

ASSUME RowsAssumption == R \in Nat \ {0} /\ F \in Nat \ {0}
ASSUME LinesAssumption == Bottom \in 0 .. F - 1 /\ Spare \in Nat

VARIABLES
  text,         \* what the rows of the active window hold
  kind,         \* mScrollType
  back,         \* mRotateType is Rotate90 or Rotate180
  enabled,      \* mScrollEnable
  off,          \* mOffsetCur
  mem, edge,    \* the memory: the part under the text, and right of it
  on            \* this console is in the foreground

vars == <<text, kind, back, enabled, off, mem, edge, on>>
device == <<kind, back>>

Rows == 0 .. R - 1
Height == R * F + Bottom
Lines == 0 .. Height - 1
Size == Height + Spare
Memory == 0 .. Size - 1

\* mOffsetMax, as FbDev and VesaDev set it.
OffsetMax == CASE kind = "redraw" -> 0 [] kind = "pan" -> Spare [] kind = "wrap" -> Size - 1

\* rotateRect, adjustOffset: where line y of the screen is in the memory.
Place(o, y) ==
  LET z == (IF back THEN Height - 1 - y ELSE y) + o
  IN  IF kind = "wrap" /\ z > OffsetMax THEN z - (OffsetMax + 1) ELSE z

\* fillRect, drawGlyph: what is to be on some lines of the screen goes into
\* the memory m.
Drawn(m, o, lines) ==
  [k \in Memory |->
     LET here == {y \in DOMAIN lines : Place(o, y) = k}
     IN  IF here = {} THEN m[k] ELSE lines[CHOOSE y \in here : TRUE]]

LinesOf(rs) == {y \in Lines : y < R * F /\ y \div F \in rs}
TextLine(tx, y) == <<tx[y \div F], y % F>>

\* FbShellManager::redraw, requestUpdate of whole rows.
RowsDrawn(m, o, tx, rs) == Drawn(m, o, [y \in LinesOf(rs) |-> TextLine(tx, y)])

\* eraseMargin: right of h rows at the top or at the bottom, and below all.
EdgeErased(e, o, top, h) ==
  Drawn(e, o, [y \in LinesOf(IF top THEN 0 .. h - 1 ELSE R - h .. R - 1)
                     \cup (Lines \ LinesOf(Rows)) |-> Bare])
BottomErased(m, o) == Drawn(m, o, [y \in Lines \ LinesOf(Rows) |-> Bare])

Init ==
  /\ text \in [Rows -> Content]
  /\ kind \in {"redraw", "pan", "wrap"} /\ back \in BOOLEAN
  /\ enabled = TRUE
  /\ off = 0
  /\ mem = [k \in Memory |-> Junk] /\ edge = [k \in Memory |-> Junk]
  /\ on = FALSE

-----------------------------------------------------------------------------
(* Screen::move of h rows from srow to drow, in all columns.               *)

Over(s, d) == IF s < d THEN s ELSE d
Under(s, d, h) == (IF s < d THEN d ELSE s) + h

\* Panning must draw less than drawing the region would.
Accepts(s, d, h) ==
  enabled /\ kind # "redraw" /\ Under(s, d, h) - Over(s, d) - 1 > R - h

Panned(s, d) == off + F * (IF back THEN d - s ELSE s - d)

\* Slip: a step behind the last offset is taken for the last.
OffsetLoose(s, d) ==
  LET o == Panned(s, d)
  IN  IF kind = "wrap" THEN o % (OffsetMax + 1)
      ELSE IF o < 0 THEN OffsetMax ELSE IF o > OffsetMax + 1 THEN 0 ELSE o

\* The new offset; where panning ends, the display goes to the other end of
\* the memory and everything is to be drawn.
Offset(s, d) ==
  LET o == Panned(s, d)
  IN  IF kind = "wrap" THEN o % (OffsetMax + 1)
      ELSE IF o < 0 THEN OffsetMax ELSE IF o > OffsetMax THEN 0 ELSE o

StartsOver(s, d) == kind = "pan" /\ Panned(s, d) \notin 0 .. OffsetMax

Outside(s, d, h) == {r \in Rows : r < Over(s, d) \/ r >= Under(s, d, h)}

\* Slip: the margin is erased at the end that was there before.
EdgeMovedWrong(s, d) ==
  IF StartsOver(s, d) THEN EdgeErased(edge, Offset(s, d), TRUE, R)
  ELSE EdgeErased(edge, Offset(s, d), s > d, IF d > s THEN d - s ELSE s - d)

EdgeMoved(s, d) ==
  IF StartsOver(s, d) THEN EdgeErased(edge, Offset(s, d), TRUE, R)
  ELSE EdgeErased(edge, Offset(s, d), d > s, IF d > s THEN d - s ELSE s - d)

Moved(s, d, h, tx) ==
  BottomErased(RowsDrawn(mem, Offset(s, d), tx, Outside(s, d, h)), Offset(s, d))

-----------------------------------------------------------------------------
(* Actions.                                                                *)

\* A region of the window has been scrolled by n and the rows that come in
\* hold c (VTerm::update, historyDisplay): the others are moved,
\* and drawn where that fails.
Scroll(t, b, n, c) ==
  LET s == IF n > 0 THEN t + n ELSE t
      d == IF n > 0 THEN t ELSE t - n
      h == b - t + 1 - (IF n > 0 THEN n ELSE -n)
      moved == d .. d + h - 1
      tx == [r \in Rows |-> IF r \in moved THEN text[r + n]
                            ELSE IF r \in t .. b THEN c ELSE text[r]]
      moves == Accepts(s, d, h)
      left == IF moves /\ ~ StartsOver(s, d) THEN (t .. b) \ moved ELSE t .. b
  IN
  /\ on /\ h > 0
  /\ text' = tx
  /\ IF moves
     THEN /\ off' = Offset(s, d)
          /\ mem' = RowsDrawn(Moved(s, d, h, tx), Offset(s, d), tx, left)
          /\ edge' = EdgeMoved(s, d)
     ELSE mem' = RowsDrawn(mem, off, tx, left) /\ UNCHANGED <<off, edge>>
  /\ UNCHANGED <<device, enabled, on>>

\* A row of the window changes and is drawn, or only changes, in the
\* background.
Change(r, c) ==
  /\ text' = [text EXCEPT ![r] = c]
  /\ mem' = IF on THEN RowsDrawn(mem, off, text', {r}) ELSE mem
  /\ UNCHANGED <<device, enabled, off, edge, on>>

\* A window of the input method comes or goes (enableScroll).
EnableScroll ==
  /\ enabled' = ~ enabled
  /\ UNCHANGED <<text, device, off, mem, edge, on>>

\* SIGUSR1: the console goes to another program, which draws what it likes.
Leave ==
  /\ on /\ on' = FALSE
  /\ off' = 0
  /\ mem' = [k \in Memory |-> Junk] /\ edge' = [k \in Memory |-> Junk]
  /\ UNCHANGED <<text, device, enabled>>

\* SIGUSR2, or the first window: the margins are erased by switchVc or with the
\* first palette (setPalette), then FbShellManager draws everything.
Enter ==
  /\ ~ on /\ on' = TRUE
  /\ off' = 0
  /\ mem' = RowsDrawn(BottomErased(mem, 0), 0, text, Rows)
  /\ edge' = EdgeErased(edge, 0, TRUE, R)
  /\ UNCHANGED <<text, device, enabled>>

Next ==
  \/ \E t, b \in Rows, n \in (-R) .. R, c \in Content :
       t <= b /\ n # 0 /\ Scroll(t, b, n, c)
  \/ \E r \in Rows, c \in Content : Change(r, c)
  \/ EnableScroll
  \/ Leave
  \/ Enter

Spec == Init /\ [][Next]_vars

-----------------------------------------------------------------------------
(* Properties.                                                             *)

\* Wherever panning has come to, in either direction, the display shows every
\* line of every row, and clean margins (move, eraseMargin, redraw).
DisplayRight ==
  on => \A y \in Lines :
          /\ mem[Place(off, y)] = IF y < R * F THEN TextLine(text, y) ELSE Bare
          /\ edge[Place(off, y)] = Bare

\* The device is never asked to display what is not in its memory, and each
\* line has a place of its own (move, adjustOffset, setupOffset).
InMemory ==
  /\ off \in 0 .. OffsetMax
  /\ \A y \in Lines : Place(off, y) \in Memory
  /\ \A y, z \in Lines : Place(off, y) = Place(off, z) => y = z
=============================================================================
