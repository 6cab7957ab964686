------------------------------- MODULE Scroll -------------------------------
(***************************************************************************)
(* The screen and the history of a window as VTerm keeps them, one line    *)
(* being one value.  Lines never move in memory: linenumbers says which    *)
(* line a row shows, a scroll renumbers, and the copy it owes the display  *)
(* (pending_scroll) is made by update() after all the output at hand is    *)
(* processed, together with the rows marked dirty.  The history is a ring  *)
(* in the first H lines of the same memory.                                *)
(***************************************************************************)
EXTENDS Integers, Sequences, FiniteSets

CONSTANTS
  N,            \* height
  H,            \* history_lines
  U16,          \* how many values a u16 has
  Content,      \* what a line can hold
  Blank,        \* a line clear_area has cleared
  Garbage,      \* display memory that shows no line of this window
  Unseen,       \* see Terminal
  WideChars,    \* whether programs print double width characters
  MaxPending    \* bound on pending_scroll, an s32 in the code

ASSUME HeightAssumption == N \in Nat \ {0}
ASSUME HistoryAssumption == H \in Nat
ASSUME U16Assumption == U16 \in Nat /\ H < U16 /\ N < U16
ASSUME ContentAssumption == Blank \in Content /\ Garbage \notin Content
ASSUME UnseenAssumption == Unseen \notin Content
ASSUME WideCharsAssumption == WideChars \in BOOLEAN
ASSUME MaxPendingAssumption == MaxPending \in Nat \ {0}

VARIABLES
  text,         \* text and attrs: history lines 0 .. H-1, then screen lines
  lines,        \* linenumbers
  dirty,        \* rows with dirty_startx <= dirty_endx
  pending,      \* pending_scroll
  save, full,   \* history_save_line, history_full
  view,         \* visual_start_line
  top, bot,     \* scroll_top, scroll_bot
  cy,           \* cursor_y
  on,           \* this is the active window
  busy,         \* VTerm::input runs
  fb            \* what the display shows in each row

vars == <<text, lines, dirty, pending, save, full, view, top, bot, cy, on, busy, fb>>
history == <<save, full, view>>
margins == <<top, bot>>

Rows == 0 .. N - 1
Memory == 0 .. H + N - 1
Abs(n) == IF n < 0 THEN -n ELSE n

\* Slip: the ring is read from its first line, full or not.
GetLineUnwrapped(v, r) ==
  LET line == (v + r) % U16
      total == IF full THEN H ELSE save
  IN  IF line >= total THEN lines[line - total] ELSE line % H

\* total_history_lines and get_line; linenumbers and line are of type u16.
Total == IF full THEN H ELSE save

GetLine(v, r) ==
  LET line == (v + r) % U16
  IN  IF line >= Total THEN lines[line - Total]
                       ELSE ((IF full THEN save ELSE 0) + line) % H

\* The rows of a display that starts at history line v.
Seen(v) == [r \in Rows |-> text[GetLine(v, r)]]

\* The constructor and resize: the screen is cleared, the ring is as it comes.
Init ==
  /\ lines = [r \in Rows |-> (H + r) % U16]
  /\ \E old \in [0 .. H - 1 -> Content] :
       text = [k \in Memory |-> IF k < H THEN old[k] ELSE Blank]
  /\ dirty = Rows /\ pending = 0
  /\ save = 0 /\ full = FALSE /\ view = 0
  /\ top = 0 /\ bot = N - 1 /\ cy = 0
  /\ on = FALSE /\ busy = FALSE
  /\ fb = [r \in Rows |-> Garbage]

-----------------------------------------------------------------------------
(* moveChars: Screen::move shifts the rows of region by n if it can.  The  *)
(* driver may refuse; it may also have to start over at the other end of   *)
(* the video memory, where nothing of the region is.  Either way move has  *)
(* the rows outside the region repainted.  A window that is not active is  *)
(* told that the rows were moved (FbShell::moveChars).                     *)

Outcomes == {"copied", "refused", "scrambled"}

Moved(how, region, n, seen) ==
  IF ~ on \/ how = "refused" THEN fb
  ELSE [r \in Rows |-> IF r \notin region THEN seen[r]
                       ELSE IF how = "copied" /\ r + n \in region THEN fb[r + n]
                       ELSE Garbage]

\* requestUpdate, expose, FbShell::drawChars: paint the rows of rs.
Painted(display, rs, seen) ==
  IF on THEN [r \in Rows |-> IF r \in rs THEN seen[r] ELSE display[r]] ELSE display

\* update(): the copy is made only if part of the region stays in it, and
\* when it fails the rows it was to fill are painted.
Update(how) ==
  LET region == top .. bot
      moves == pending # 0 /\ Abs(pending) < bot - top + 1
      failed == moves /\ on /\ how # "copied"
      stale == IF failed THEN {r \in region : r + pending \in region} ELSE {}
  IN  /\ fb' = Painted(IF moves THEN Moved(how, region, pending, Seen(view)) ELSE fb,
                       dirty \cup stale, Seen(view))
      /\ pending' = 0
      /\ dirty' = {}

-----------------------------------------------------------------------------
(* scroll_region: its results, for a scroll of rows s to e by n.           *)

\* The loop over the rows runs: not for a region that is wholly replaced.
Turns(s, e, n) == s <= e /\ Abs(n) < e - s + 1

\* Slip: off by one where the rows wrap around.
TakeYOff(s, e, n, y) ==
  IF y + n < s THEN e - (s - (y + n))
  ELSE IF y + n > e THEN s + (y + n - e)
  ELSE y + n

TakeY(s, e, n, y) ==
  IF y + n < s THEN e + 1 - (s - (y + n))
  ELSE IF y + n > e THEN s - 1 + (y + n - e)
  ELSE y + n

Cleared(s, e, n) == {y \in s .. e : y + n \notin s .. e}

ScrolledLines(s, e, n) ==
  IF Turns(s, e, n)
  THEN [y \in Rows |-> IF y \in s .. e THEN lines[TakeY(s, e, n, y)] ELSE lines[y]]
  ELSE lines

\* history_scroll copies the first n rows into the ring.
Records(s, e, n) == s = 0 /\ s <= e /\ n > 0 /\ H > 0

RecordedText(tx, n) ==
  [k \in Memory |->
     LET rows == {i \in 0 .. n - 1 : (save + i) % H = k}
     IN  IF k >= H \/ rows = {} THEN tx[k]
         ELSE tx[lines[CHOOSE i \in rows : \A j \in rows : j <= i]]]

\* The cleared rows take the lines of those pushed out at the other end.
ScrolledText(tx, s, e, n) ==
  LET recorded == IF Records(s, e, n) THEN RecordedText(tx, n) ELSE tx
      blanked == {lines[TakeY(s, e, n, y)] : y \in Cleared(s, e, n)}
  IN  IF Turns(s, e, n)
      THEN [k \in Memory |-> IF k \in blanked THEN Blank ELSE recorded[k]]
      ELSE recorded

\* A scroll of the whole region goes to pending_scroll and the marks move
\* with the lines; any other scroll marks its rows.
Fast(s, e) == s = top /\ e = bot

\* Slip: the marks of a fast scroll stay where they are.
MarksStay(s, e, n) ==
  IF ~ Turns(s, e, n) THEN dirty
  ELSE IF Fast(s, e) THEN dirty \cup Cleared(s, e, n) ELSE dirty \cup s .. e

ScrolledDirty(s, e, n) ==
  IF ~ Turns(s, e, n) THEN dirty
  ELSE IF Fast(s, e)
  THEN {y \in dirty : y \notin s .. e} \cup Cleared(s, e, n)
         \cup {y \in s .. e : y + n \in s .. e /\ y + n \in dirty}
  ELSE dirty \cup s .. e

Scroll(tx, s, e, n) ==
  /\ lines' = ScrolledLines(s, e, n)
  /\ pending' = IF s <= e /\ Fast(s, e) THEN pending + n ELSE pending
  /\ pending' \in (-MaxPending) .. MaxPending
  /\ IF Records(s, e, n)
     THEN /\ save' = (save + n) % H
          /\ full' = (full \/ save + n >= H)
          /\ view' = Total'
     ELSE UNCHANGED history

ScrollRegion(s, e, n) ==
  /\ Scroll(text, s, e, n)
  /\ text' = ScrolledText(text, s, e, n)
  /\ dirty' = ScrolledDirty(s, e, n)

-----------------------------------------------------------------------------
(* Actions.  Between BeginInput and EndInput nothing else runs.            *)

\* historyDisplay(absolute, v): the rows still visible may be moved.
HistoryDisplay(v, how) ==
  LET n == v - view
      kept == {r \in Rows : r + n \in Rows}
      moves == kept # {}
  IN  /\ view' = v
      /\ fb' = IF moves /\ (~ on \/ how = "copied")
               THEN Painted(Moved(how, Rows, n, Seen(v)), Rows \ kept, Seen(v))
               ELSE Painted(fb, Rows, Seen(v))

\* The start of input(): back to the screen, and the cursor, if it is shown,
\* is to be painted over.
BeginInput ==
  /\ ~ busy /\ busy' = TRUE
  /\ \E how \in Outcomes :
       IF view # Total THEN HistoryDisplay(Total, how) ELSE UNCHANGED <<view, fb>>
  /\ dirty' \in {dirty, dirty \cup {cy}}
  /\ UNCHANGED <<text, lines, pending, save, full, margins, cy, on>>

\* The end of input().
EndInput ==
  /\ busy /\ busy' = FALSE
  /\ \E how \in Outcomes : Update(how)
  /\ UNCHANGED <<text, lines, history, margins, cy, on>>

\* lf, next_line, index_down.
LineFeed ==
  /\ busy
  /\ IF cy < bot
     THEN cy' = cy + 1 /\ UNCHANGED <<text, lines, dirty, pending, history>>
     ELSE ScrollRegion(top, bot, 1) /\ UNCHANGED cy
  /\ UNCHANGED <<margins, on, busy, fb>>

\* index_up.
ReverseFeed ==
  /\ busy
  /\ IF cy > top
     THEN cy' = cy - 1 /\ UNCHANGED <<text, lines, dirty, pending, history>>
     ELSE ScrollRegion(top, bot, -1) /\ UNCHANGED cy
  /\ UNCHANGED <<margins, on, busy, fb>>

\* do_normal_char within a row, insert_char, delete_char, erase_char,
\* erase_line: the row of the cursor changes.
ChangeLine(c) ==
  /\ busy
  /\ text' = [text EXCEPT ![lines[cy]] = c]
  /\ dirty' = dirty \cup {cy}
  /\ UNCHANGED <<lines, pending, history, margins, cy, on, busy, fb>>

\* do_normal_char when the character does not fit: next_line, then the
\* character.  A wide one clears the last column first, and changes the row
\* to d without marking it.
WrapChar(c, d) ==
  LET left == [text EXCEPT ![lines[cy]] = d] IN
  /\ busy
  /\ d = text[lines[cy]] \/ WideChars
  /\ IF cy < bot
     THEN /\ cy' = cy + 1
          /\ text' = [left EXCEPT ![lines[cy + 1]] = c]
          /\ dirty' = dirty \cup {cy + 1}
          /\ UNCHANGED <<lines, pending, history>>
     ELSE /\ Scroll(left, top, bot, 1)
          /\ text' = [ScrolledText(left, top, bot, 1) EXCEPT ![lines'[cy]] = c]
          /\ dirty' = ScrolledDirty(top, bot, 1) \cup {cy}
          /\ UNCHANGED cy
  /\ UNCHANGED <<margins, on, busy, fb>>

\* clear_area over whole rows.
Clear(rs) == [k \in Memory |-> IF k \in {lines[r] : r \in rs} THEN Blank ELSE text[k]]

\* erase_display; c is what is left of the row of the cursor.
EraseDisplay(part, c) ==
  LET rs == CASE part = "below" -> {r \in Rows : r > cy}
              [] part = "above" -> {r \in Rows : r < cy}
              [] part = "all" -> Rows
  IN  /\ busy
      /\ text' = IF part = "all" THEN Clear(rs) ELSE [Clear(rs) EXCEPT ![lines[cy]] = c]
      /\ dirty' = dirty \cup rs \cup {cy}
      /\ UNCHANGED <<lines, pending, history, margins, cy, on, busy, fb>>

\* screen_align.
ScreenAlign(c) ==
  /\ busy
  /\ text' = [k \in Memory |-> IF k \in {lines[r] : r \in Rows} THEN c ELSE text[k]]
  /\ dirty' = Rows
  /\ UNCHANGED <<lines, pending, history, margins, cy, on, busy, fb>>

\* delete_line (n > 0) and insert_line (n < 0); mx is of type u16.
ShiftLines(n) ==
  LET mx == (bot - cy + 1) % U16 IN
  /\ busy
  /\ IF Abs(n) >= mx
     THEN /\ text' = Clear(cy .. bot)
          /\ dirty' = dirty \cup cy .. bot
          /\ UNCHANGED <<lines, pending, history>>
     ELSE ScrollRegion(cy, bot, n)
  /\ UNCHANGED <<margins, cy, on, busy, fb>>

\* cursor_up, cursor_down, cursor_position, restore_cursor, ...
MoveCursor(y) ==
  /\ busy
  /\ cy' = y
  /\ UNCHANGED <<text, lines, dirty, pending, history, margins, on, busy, fb>>

\* move_cursor's clamp.
OnScreen(y) == IF y >= N THEN N - 1 ELSE y

\* set_margins: the scrolling owed to the old region is done first.  The top
\* margin is any number, the bottom one a row of the screen.
SetMargins(t, b) ==
  LET low == IF cy < t THEN OnScreen(t) ELSE cy IN
  /\ busy
  /\ IF pending # 0 THEN \E how \in Outcomes : Update(how)
                    ELSE UNCHANGED <<dirty, pending, fb>>
  /\ top' = t /\ bot' = b
  /\ cy' = IF low > b THEN OnScreen(b) ELSE low
  /\ UNCHANGED <<text, lines, history, on, busy>>

\* reset (ESC c).
Reset ==
  /\ busy
  /\ pending' = 0 /\ top' = 0 /\ bot' = N - 1 /\ cy' = 0
  /\ text' = Clear(Rows)
  /\ dirty' = Rows
  /\ UNCHANGED <<lines, history, on, busy, fb>>

\* SHIFT_PAGEUP and SHIFT_PAGEDOWN: by a screen of rows, as far as there is
\* history.
HistoryScroll(n) ==
  LET past == IF view + n < 0 THEN 0 ELSE view + n
      v == IF past > Total THEN Total ELSE past
  IN  /\ ~ busy /\ on /\ H > 0 /\ v # view
      /\ \E how \in Outcomes : HistoryDisplay(v, how)
      /\ UNCHANGED <<text, lines, dirty, pending, save, full, margins, cy, on, busy>>

\* The window becomes the active one and is painted (FbShellManager::redraw),
\* or another takes its place on the display.
Activate ==
  /\ ~ busy /\ ~ on /\ on' = TRUE
  /\ fb' = Seen(view)
  /\ UNCHANGED <<text, lines, dirty, pending, history, margins, cy, busy>>

Deactivate ==
  /\ ~ busy /\ on /\ on' = FALSE
  /\ fb' = [r \in Rows |-> Garbage]
  /\ UNCHANGED <<text, lines, dirty, pending, history, margins, cy, busy>>

Next ==
  \/ BeginInput
  \/ EndInput
  \/ LineFeed
  \/ ReverseFeed
  \/ \E c \in Content : ChangeLine(c)
  \/ \E c, d \in Content : WrapChar(c, d)
  \/ \E part \in {"below", "above", "all"}, c \in Content : EraseDisplay(part, c)
  \/ \E c \in Content : ScreenAlign(c)
  \/ \E n \in (-N) .. N : n # 0 /\ ShiftLines(n)
  \/ \E y \in Rows : MoveCursor(y)
  \/ \E t \in 0 .. N, b \in Rows : SetMargins(t, b)
  \/ Reset
  \/ \E n \in {-N, N} : HistoryScroll(n)
  \/ Activate
  \/ Deactivate

Spec == Init /\ [][Next]_vars

-----------------------------------------------------------------------------
(* Properties.                                                             *)

\* Every variable has its type.
TypeOK ==
  /\ text \in [Memory -> Content]
  /\ lines \in [Rows -> 0 .. U16 - 1]
  /\ dirty \in SUBSET Rows
  /\ pending \in (-MaxPending) .. MaxPending
  /\ save \in 0 .. H /\ full \in BOOLEAN
  /\ view \in 0 .. H
  /\ top \in 0 .. N /\ bot \in Rows /\ cy \in Rows
  /\ on \in BOOLEAN /\ busy \in BOOLEAN
  /\ fb \in [Rows -> Content \cup {Garbage}]

\* However lines were renumbered, the rows of the screen have a line each,
\* none of them a line of the history ring (scroll_region, resize).
LinesApart ==
  /\ \A r, q \in Rows : lines[r] = lines[q] => r = q
  /\ \A r \in Rows : lines[r] \in H .. H + N - 1

\* What update() relies on: a row not marked dirty is on the display already,
\* pending_scroll rows away and inside the scrolling region, so that the copy
\* brings it to its place (scroll_region, update).
CleanRowsShown ==
  on => \A r \in Rows \ dirty :
          LET shifted == top < bot /\ r \in top .. bot
              src == IF shifted THEN r + pending ELSE r
          IN  /\ shifted => src \in top .. bot
              /\ fb[src] = Seen(view)[r]

\* VTerm implements Terminal: the ring read from its oldest line is the
\* sequence of rows that scrolled off, the lines read through linenumbers are
\* the screen.
HistorySeq ==
  [i \in 1 .. Total |-> text[((IF full THEN save ELSE 0) + i - 1) % H]]

T == INSTANCE Terminal WITH
       screen <- [r \in Rows |-> text[lines[r]]],
       hist <- HistorySeq,
       shown <- IF on /\ ~ busy THEN fb ELSE Unseen

ImplementsTerminal == T!TSpec
=============================================================================
