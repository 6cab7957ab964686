------------------------------ MODULE Pointing ------------------------------
(***************************************************************************)
(* The mouse over a window: the pointer FbShell draws, and the selection   *)
(* of text Shell keeps by reversing the colors of the cells themselves, so *)
(* that every reversal has to be undone on the same cells.  The window has *)
(* K lines of history; its rows are whole (see Cells), its cursor hidden.  *)
(* A position counts the cells of the screen row by row, in a u32.         *)
(***************************************************************************)
EXTENDS Picture, Sequences

CONSTANTS
  H,            \* height
  K,            \* lines of history
  U32,          \* how many values a u32 has
  Lines,        \* what a line can hold
  WordChars     \* the characters that are part of words (inwordLut)

ASSUME SizeAssumption == W \in Nat \ {0} /\ H \in Nat \ {0} /\ K \in Nat
ASSUME U32Assumption == U32 \in Nat /\ U32 > 2 * W * H
ASSUME LinesAssumption == \A line \in Lines : Whole(line)

VARIABLES
  text,         \* text, and attrs without reverse: the history, the screen
  rev,          \* attrs.reverse
  view,         \* visual_start_line
  sel,          \* mSelState: start, end, selecting, inversed (color_inversed)
  at,           \* history: the view the selection was made in
  kept,         \* what this step gives to mSelText, if anything
  pointer,      \* mMousePointer: drawed, and where
  on,           \* this is the active window
  fb,           \* what the display shows in each position
  lost          \* history: positions that are not on the screen were used, a
                \* selection was undone in another view, or a drawn pointer
                \* was moved along with its row

vars == <<text, rev, view, sel, at, kept, pointer, on, fb, lost>>

Positions == 0 .. W * H - 1
Memory == 0 .. K + H - 1
Least(a, b) == IF a < b THEN a ELSE b
Most(a, b) == IF a < b THEN b ELSE a

\* charCode, charAttr; get_line with a history that is full.
LineOf(p) == view + p \div W
CellAt(p) == text[LineOf(p)][p % W]
TypeAt(p) == CellAt(p).type
Reverse(reversed, v, p) == reversed[v + p \div W][p % W]

\* A cell of the display.
Garbage == [cell |-> BlankCell, reverse |-> FALSE, other |-> TRUE]
Pixels(cell, reverse) == [cell |-> cell, reverse |-> reverse, other |-> FALSE]

\* The positions from a to b with the halves cut off (inverse, expose).
Span(a, b) ==
  (Least(a, b) - (IF TypeAt(Least(a, b)) = "R" THEN 1 ELSE 0)) ..
  (Most(a, b) + (IF TypeAt(Most(a, b)) = "L" THEN 1 ELSE 0))

\* VTerm::expose of the positions ps, reversed being the attributes.
Painted(screen, reversed, v, ps) ==
  IF ~ on THEN screen
  ELSE [p \in Positions |->
          IF p \in ps THEN Pixels(text[v + p \div W][p % W], reversed[v + p \div W][p % W])
                      ELSE screen[p]]

Init ==
  /\ text \in [Memory -> Lines]
  /\ rev = [l \in Memory |-> [c \in Cols |-> FALSE]]
  /\ view = K
  /\ \E p \in {0, U32 - 1} : \* start and end are not initialized
       sel = [start |-> p, end |-> p, selecting |-> FALSE, inversed |-> FALSE]
  /\ at = K
  /\ kept = <<>>
  /\ pointer = [drawed |-> FALSE, at |-> 0]
  /\ on = FALSE
  /\ fb = [p \in Positions |-> Garbage]
  /\ lost = FALSE

-----------------------------------------------------------------------------
(* What the operations do to a picture: the reversals and the display.     *)

Now == [rev |-> rev, fb |-> fb]
Show(pic) == rev' = pic.rev /\ fb' = pic.fb

\* inverseTextColor.
Inversed(pic, a, b) ==
  LET span == Span(a, b)
      reversed == [l \in Memory |-> [c \in Cols |->
                     pic.rev[l][c] # ((l - view) * W + c \in span)]]
  IN  [rev |-> reversed, fb |-> Painted(pic.fb, reversed, view, span)]

\* resetTextSelect.
Reset(pic) == IF sel.inversed THEN Inversed(pic, sel.start, sel.end) ELSE pic
Strays == sel.inversed /\ at # view

\* Slip: the pointer is forgotten and stays on the display.
ClearedForgotten(pic) == pic

\* clearMousePointer.
Cleared(pic) ==
  IF pointer.drawed
  THEN [pic EXCEPT !.fb = Painted(@, pic.rev, view, Span(pointer.at, pointer.at))]
  ELSE pic

\* FbShell::mouseInput draws the pointer over the character in p.
Pointed(pic, p) ==
  IF ~ on THEN pic
  ELSE [pic EXCEPT !.fb = [q \in Positions |->
          IF q \in Span(p, p) THEN Pixels(CellAt(q), ~ pic.rev[LineOf(q)][q % W]) ELSE @[q]]]

\* Slip: the other half of a character is not stepped over.
StepOverOne(p) == (IF sel.end >= sel.start THEN p + 1 ELSE p - 1) % U32

\* middleTextSelect.  What is between the old end and the new one changes;
\* the one of both that stays selected is stepped over, and u32 wraps.
StepOver(p) ==
  (IF sel.end >= sel.start THEN p + (IF TypeAt(p) = "L" THEN 2 ELSE 1)
                           ELSE p - (IF TypeAt(p) = "R" THEN 2 ELSE 1)) % U32

Turned(p) == (sel.end >= sel.start) # (p >= sel.start)
Grows(p) == (sel.end >= sel.start) = (p > sel.end)
ChangeFrom(p) == IF Grows(p) THEN StepOver(sel.end) ELSE sel.end
ChangeTo(p) == IF Grows(p) THEN p ELSE StepOver(p)

Changes(p) ==
  ChangeFrom(p) # ChangeTo(p) => (ChangeTo(p) > ChangeFrom(p)) = (p > sel.end)

Extended(pic, p) ==
  IF Turned(p) THEN Inversed(Inversed(pic, sel.start, sel.end), sel.start, p)
  ELSE IF Changes(p) THEN Inversed(pic, ChangeFrom(p), ChangeTo(p))
  ELSE pic

LeavesScreen(p) ==
  ~ Turned(p) /\ Changes(p) /\ ~ {ChangeFrom(p), ChangeTo(p)} \subseteq Positions

\* autoTextSelect: the word around p in its row.  Neither loop looks at the
\* last column it comes to.
InWord(p) == CellAt(p).ch \in WordChars
RowStart(p) == (p \div W) * W
WordStart(p) ==
  LET other == {q \in RowStart(p) + 1 .. p : InWord(q) # InWord(p)}
  IN  IF other = {} THEN RowStart(p) ELSE 1 + CHOOSE q \in other : \A o \in other : o <= q

WordEnd(p) ==
  LET other == {q \in p .. RowStart(p) + W - 2 : InWord(q) # InWord(p)}
  IN  IF other = {} THEN RowStart(p) + W - 1 ELSE (CHOOSE q \in other : \A o \in other : q <= o) - 1

\* Slip: double width characters are taken twice.
CharsTwice(a, b) == [i \in 1 .. b - a + 1 |-> CellAt(a + i - 1).ch]

\* The characters from a to b, each double width one once.
CharsFrom(a, b) ==
  LET firsts == {p \in a .. b : p = a \/ TypeAt(p) # "R"}
      nth(i) == CHOOSE p \in firsts : Cardinality({q \in firsts : q <= p}) = i
  IN  [i \in 1 .. Cardinality(firsts) |-> CellAt(nth(i)).ch]

-----------------------------------------------------------------------------
(* Actions.                                                                *)

\* Bound: once lost is TRUE nothing more is followed, but that the window is
\* left and the display painted anew.
Events == ~ lost /\ on
Fixed == kept' = <<>> /\ UNCHANGED <<text, view, on>>

\* A new selection from a to b, in the place of the old one.
Select(pic, a, b, dragging) ==
  /\ Show(Inversed(Reset(pic), a, b))
  /\ sel' = [start |-> a, end |-> b, selecting |-> dragging, inversed |-> TRUE]
  /\ at' = view
  /\ lost' = Strays

\* resetTextSelect alone.
Unselect(pic) ==
  /\ Show(Reset(pic))
  /\ sel' = [sel EXCEPT !.selecting = FALSE, !.inversed = FALSE]
  /\ lost' = Strays
  /\ UNCHANGED at

\* The mouse moves to p and the pointer with it: without the left button, or
\* where the program has asked for the reports and shift is up.
MovePointer(p) == pointer' = [drawed |-> TRUE, at |-> p - (IF TypeAt(p) = "R" THEN 1 ELSE 0)]

Hover(p) ==
  /\ Events /\ MovePointer(p)
  /\ Show(Pointed(Cleared(Now), p))
  /\ Fixed /\ UNCHANGED <<sel, at, lost>>

\* With the left button: startTextSelect or middleTextSelect.
Drag(p) ==
  LET pic == Pointed(Cleared(Now), p) IN
  /\ Events /\ MovePointer(p)
  /\ IF ~ sel.selecting THEN Select(pic, p, p, TRUE)
     ELSE /\ Show(IF LeavesScreen(p) THEN pic ELSE Extended(pic, p))
          /\ sel' = [sel EXCEPT !.end = p]
          /\ lost' = (LeavesScreen(p) \/ Strays)
          /\ UNCHANGED at
  /\ Fixed

\* The left button goes down, twice for a word (autoTextSelect).
Press(p) ==
  /\ Events
  /\ Select(Now, p, p, TRUE)
  /\ Fixed /\ UNCHANGED pointer

DoubleClick(p) ==
  /\ Events
  /\ Select(Now, WordStart(p), WordEnd(p), FALSE)
  /\ Fixed /\ UNCHANGED pointer

\* It comes up, and the text between start and end is kept (endTextSelect).
Release ==
  /\ Events
  /\ sel' = [sel EXCEPT !.selecting = FALSE]
  /\ IF {sel.start, sel.end} \subseteq Positions
     THEN kept' = CharsFrom(Least(sel.start, sel.end), Most(sel.start, sel.end)) /\ UNCHANGED lost
     ELSE lost' = TRUE /\ kept' = <<>>
  /\ UNCHANGED <<text, rev, view, at, pointer, on, fb>>

\* The right button, down once or twice (putSelectedText); the wheel and the
\* other buttons do nothing unless they are reported.
Put ==
  /\ Events
  /\ Unselect(Now)
  /\ Fixed /\ UNCHANGED pointer

\* A key for the program (FbShell::imInput, Shell::keyInput).
KeyInput ==
  /\ Events
  /\ Unselect(Cleared(Now))
  /\ pointer' = [pointer EXCEPT !.drawed = FALSE]
  /\ Fixed

\* historyDisplay to line v: the rows that stay visible may be moved.
Outcomes == {"copied", "refused"}

Viewed(pic, v, how) ==
  LET stay == {p \in Positions : p + (v - view) * W \in Positions}
      moved == [p \in Positions |-> IF p \in stay THEN pic.fb[p + (v - view) * W] ELSE pic.fb[p]]
  IN  IF how = "copied" /\ on THEN Painted(moved, pic.rev, v, Positions \ stay)
      ELSE Painted(pic.fb, pic.rev, v, Positions)

\* SHIFT_PAGEUP and SHIFT_PAGEDOWN do not pass through the window's input.
HistoryScroll(v, how) ==
  /\ Events /\ v # view
  /\ view' = v
  /\ fb' = Viewed(Now, v, how)
  /\ lost' = (pointer.drawed /\ how = "copied")
  /\ kept' = <<>>
  /\ UNCHANGED <<text, rev, sel, at, pointer, on>>

\* Output of the program (FbShell::readyRead, Shell::readyRead, input): the
\* pointer, the selection and the look into the history go before the text of
\* row r changes.
Output(r, line, how) ==
  LET pic == Reset(Cleared(Now))
      plain == [pic.rev EXCEPT ![K + r] = [c \in Cols |-> FALSE]]
      screen == IF view # K THEN Viewed(pic, K, how) ELSE pic.fb
      row == r * W .. r * W + W - 1
  IN
  /\ ~ lost
  /\ text' = [text EXCEPT ![K + r] = line]
  /\ view' = K
  /\ rev' = plain
  /\ fb' = [p \in Positions |->
              IF p \in row /\ on THEN Pixels(line[p % W], FALSE) ELSE screen[p]]
  /\ pointer' = [pointer EXCEPT !.drawed = FALSE]
  /\ sel' = [sel EXCEPT !.selecting = FALSE, !.inversed = FALSE]
  /\ lost' = Strays
  /\ kept' = <<>>
  /\ UNCHANGED <<at, on>>

\* The window becomes the active one and is painted, or it is left.
Activate ==
  /\ ~ lost /\ ~ on /\ on' = TRUE
  /\ fb' = [p \in Positions |-> Pixels(CellAt(p), rev[LineOf(p)][p % W])]
  /\ kept' = <<>>
  /\ UNCHANGED <<text, rev, view, sel, at, pointer, lost>>

Deactivate ==
  /\ on /\ on' = FALSE
  /\ fb' = [p \in Positions |-> Garbage]
  /\ kept' = <<>>
  /\ UNCHANGED <<text, rev, view, sel, at, pointer, lost>>

Next ==
  \/ \E p \in Positions : Hover(p) \/ Drag(p) \/ Press(p) \/ DoubleClick(p)
  \/ Release
  \/ Put
  \/ KeyInput
  \/ \E v \in 0 .. K, how \in Outcomes : HistoryScroll(v, how)
  \/ \E r \in 0 .. H - 1, line \in Lines, how \in Outcomes : Output(r, line, how)
  \/ Activate
  \/ Deactivate
  \/ lost /\ ~ on /\ UNCHANGED vars

Spec == Init /\ [][Next]_vars

-----------------------------------------------------------------------------
(* Properties.                                                             *)

\* The positions the selection reverses, in the view it was made in.
Selected ==
  LET first == text[at + Least(sel.start, sel.end) \div W][Least(sel.start, sel.end) % W]
      last == text[at + Most(sel.start, sel.end) \div W][Most(sel.start, sel.end) % W]
  IN  (Least(sel.start, sel.end) - (IF first.type = "R" THEN 1 ELSE 0)) ..
      (Most(sel.start, sel.end) + (IF last.type = "L" THEN 1 ELSE 0))

\* However the mouse was dragged back and forth over characters of both widths,
\* and whether a press, a key, output or a switch of the window ended the
\* selection, the cells whose colors are reversed are those from its start to
\* its end, or none (startTextSelect, middleTextSelect, resetTextSelect).  It is
\* not stated from when a drag leaves the screen, a selection is undone in
\* another view than its own, or a drawn pointer is copied with its row (lost).
OnlySelectionReversed ==
  ~ lost =>
    {x \in Memory \X Cols : rev[x[1]][x[2]]} =
      IF ~ sel.inversed THEN {}
      ELSE {x \in Memory \X Cols : (x[1] - at) * W + x[2] \in Selected}

\* The active window shows its text with the selection; a drawn pointer may
\* be over one character, and over no other (mouseInput, clearMousePointer,
\* inverseTextColor, historyDisplay).  The exceptions are those of
\* OnlySelectionReversed (lost).
TextShown ==
  on /\ ~ lost =>
    \A p \in Positions :
      \/ fb[p] = Pixels(CellAt(p), rev[LineOf(p)][p % W])
      \/ /\ pointer.drawed /\ p \in Span(pointer.at, pointer.at)
         /\ fb[p] = Pixels(CellAt(p), ~ rev[LineOf(p)][p % W])

\* What the user gets is what the display shows as selected: when text
\* is kept while a selection is shown, it is that selection's
\* (endTextSelect).
KeepsWhatIsShown ==
  [][kept' # <<>> /\ sel.inversed /\ at = view =>
       LET reversed == {p \in Positions : rev[LineOf(p)][p % W] /\ TypeAt(p) # "R"}
       IN  /\ Len(kept') = Cardinality(reversed)
           /\ \A p \in reversed :
                kept'[Cardinality({q \in reversed : q <= p})] = CellAt(p).ch]_vars
=============================================================================
