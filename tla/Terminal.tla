------------------------------ MODULE Terminal ------------------------------
(***************************************************************************)
(* What a window of FbTerm promises to the program in it and to the user:  *)
(* a screen of N rows with a scrolling region, the last H rows that left   *)
(* it at the top, and, while the window is the active one, a display that  *)
(* shows what the window holds whenever no output is being processed.      *)
(* Scroll, the algorithm of VTerm, implements this specification.          *)
(***************************************************************************)
EXTENDS Integers, Sequences

CONSTANTS
  N,          \* height
  H,          \* history_lines
  Content,    \* what a row can hold
  Blank,      \* an erased row
  Unseen      \* the display while it shows another window, or is changing

VARIABLES
  screen,     \* contents of the rows
  hist,       \* rows that scrolled off, the oldest first
  view,       \* visual_start_line: history rows above the first visible row
  top, bot,   \* scroll_top, scroll_bot
  cy,         \* cursor_y
  on,         \* this is the active window
  busy,       \* output of the program is being processed
  shown       \* the rows on the display

tvars == <<screen, hist, view, top, bot, cy, on, busy, shown>>

Rows == 0 .. N - 1

\* The rows a user sees who has gone back to history row v.
Seen(scr, h, v) ==
  [r \in Rows |-> IF v + r < Len(h) THEN h[v + r + 1] ELSE scr[v + r - Len(h)]]

Display(scr, h, v) == IF on THEN Seen(scr, h, v) ELSE Unseen

Newest(h) == IF Len(h) > H THEN SubSeq(h, Len(h) - H + 1, Len(h)) ELSE h

TInit ==
  /\ screen = [r \in Rows |-> Blank]
  /\ hist = << >> /\ view = 0
  /\ top = 0 /\ bot = N - 1 /\ cy = 0
  /\ ~ on /\ ~ busy
  /\ shown = Unseen

\* The program writes: the user is taken back to the screen.
TBeginInput ==
  /\ ~ busy /\ busy' = TRUE
  /\ view' = Len(hist)
  /\ shown' = Unseen
  /\ UNCHANGED <<screen, hist, top, bot, cy, on>>

TEndInput ==
  /\ busy /\ busy' = FALSE
  /\ shown' = Display(screen, hist, view)
  /\ UNCHANGED <<screen, hist, view, top, bot, cy, on>>

-----------------------------------------------------------------------------
(* Operations on the screen.                                               *)

\* Rows s to e move up by n (down when n < 0); a region of one row stays.
Shifted(scr, s, e, n) ==
  [r \in Rows |-> IF r \notin s .. e \/ s = e THEN scr[r]
                  ELSE IF r + n \in s .. e THEN scr[r + n] ELSE Blank]

\* Rows that leave at the top of the screen become history.
Recorded(scr, s, e, n) ==
  IF s = 0 /\ s <= e /\ n > 0
  THEN Newest(hist \o [i \in 1 .. n |-> scr[i - 1]])
  ELSE hist

TScroll(scr, s, e, n) ==
  /\ screen' = Shifted(scr, s, e, n)
  /\ hist' = Recorded(scr, s, e, n)
  /\ UNCHANGED cy

TLineFeed ==
  IF cy < bot THEN cy' = cy + 1 /\ UNCHANGED <<screen, hist>>
              ELSE TScroll(screen, top, bot, 1)

TReverseFeed ==
  IF cy > top THEN cy' = cy - 1 /\ UNCHANGED <<screen, hist>>
              ELSE TScroll(screen, top, bot, -1)

TChange(c) ==
  /\ screen' = [screen EXCEPT ![cy] = c]
  /\ UNCHANGED <<hist, cy>>

\* A character that does not fit starts the next row; a wide one leaves the
\* row it does not fit in as d.
TWrap(c, d) ==
  LET left == [screen EXCEPT ![cy] = d] IN
  IF cy < bot
  THEN /\ screen' = [left EXCEPT ![cy + 1] = c]
       /\ cy' = cy + 1
       /\ UNCHANGED hist
  ELSE /\ screen' = [Shifted(left, top, bot, 1) EXCEPT ![cy] = c]
       /\ hist' = Recorded(left, top, bot, 1)
       /\ UNCHANGED cy

\* Erase from the cursor to the end, from the start to the cursor, or all;
\* c is what is left of the row of the cursor.
TErase(part, c) ==
  /\ screen' = [r \in Rows |->
                  IF part = "all" \/ (part = "below" /\ r > cy) \/ (part = "above" /\ r < cy)
                  THEN Blank
                  ELSE IF r = cy THEN c ELSE screen[r]]
  /\ UNCHANGED <<hist, cy>>

TFill(c) ==
  /\ screen' = [r \in Rows |-> c]
  /\ UNCHANGED <<hist, cy>>

\* Delete n > 0 or insert -n > 0 lines between the cursor and the margin.
TShiftLines(n) ==
  IF n \in (cy - bot) .. (bot - cy)
  THEN TScroll(screen, cy, bot, n)
  ELSE /\ screen' = [r \in Rows |-> IF r \in cy .. bot THEN Blank ELSE screen[r]]
       /\ UNCHANGED <<hist, cy>>

TMoveCursor(y) == cy' = y /\ UNCHANGED <<screen, hist>>

TEdit ==
  /\ busy
  /\ \/ TLineFeed
     \/ TReverseFeed
     \/ \E y \in Rows : TMoveCursor(y)
     \/ \E c \in Content : TChange(c) \/ TFill(c)
     \/ \E n \in (-N) .. N : n # 0 /\ TShiftLines(n)
     \/ \E part \in {"below", "above", "all"}, c \in Content : TErase(part, c)
     \/ \E c, d \in Content : TWrap(c, d)
  /\ view' = Len(hist')
  /\ UNCHANGED <<top, bot, on, busy, shown>>

Clamped(y, t, b) ==
  LET low == IF y < t THEN (IF t < N THEN t ELSE N - 1) ELSE y
  IN  IF low > b THEN b ELSE low

TSetMargins ==
  /\ busy
  /\ \E t \in 0 .. N, b \in Rows :
       top' = t /\ bot' = b /\ cy' = Clamped(cy, t, b)
  /\ UNCHANGED <<screen, hist, view, on, busy, shown>>

TReset ==
  /\ busy
  /\ screen' = [r \in Rows |-> Blank]
  /\ top' = 0 /\ bot' = N - 1 /\ cy' = 0
  /\ UNCHANGED <<hist, view, on, busy, shown>>

\* The user looks at older or newer rows.
THistory ==
  /\ ~ busy /\ on
  /\ view' \in 0 .. Len(hist)
  /\ shown' = Display(screen, hist, view')
  /\ UNCHANGED <<screen, hist, top, bot, cy, on, busy>>

TActivate ==
  /\ ~ busy /\ ~ on /\ on' = TRUE
  /\ shown' = Seen(screen, hist, view)
  /\ UNCHANGED <<screen, hist, view, top, bot, cy, busy>>

TDeactivate ==
  /\ ~ busy /\ on /\ on' = FALSE
  /\ shown' = Unseen
  /\ UNCHANGED <<screen, hist, view, top, bot, cy, busy>>

TNext ==
  \/ TBeginInput \/ TEndInput
  \/ TSetMargins \/ TEdit \/ TReset
  \/ THistory \/ TActivate \/ TDeactivate

TSpec == TInit /\ [][TNext]_tvars
=============================================================================
