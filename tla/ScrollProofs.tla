---------------------------- MODULE ScrollProofs ----------------------------
(***************************************************************************)
(* Machine-checked proofs about the lines of a window, its history and its *)
(* display, for every height, history, width of a line number and set of   *)
(* line contents.                                                          *)
(***************************************************************************)
EXTENDS Scroll, WellFoundedInduction, SequenceTheorems, TLAPS

\* Every row has a line of the memory, also where 16 bits are too few for all.
LinesInMemory == \A r \in Rows : lines[r] \in Memory

\* The ring's write position is one of its lines.
SaveInRing == IF H = 0 THEN save = 0 /\ ~ full ELSE save < H

\* The user has not gone further back than the history goes.
ViewInHistory == view <= Total

TypeInv == TypeOK /\ LinesInMemory /\ SaveInRing /\ ViewInHistory

-----------------------------------------------------------------------------
(* Arithmetic                                                              *)

\* A non-empty set of numbers has a least element.
LEMMA LeastElement ==
  ASSUME NEW S \in SUBSET Nat, S # {}
  PROVE  \E x \in S : \A y \in S : x <= y
<1>1. \E x \in S : \A y \in S : ~ (<<y, x>> \in OpToRel(<, Nat))
  BY NatLessThanWellFounded, WFMin
<1>2. ASSUME NEW x \in Nat, NEW y \in Nat, ~ (<<y, x>> \in OpToRel(<, Nat))
      PROVE  x <= y
  <2>1. ~ (y < x)  BY <1>2 DEF OpToRel
  <2>. QED  BY <2>1
<1>. QED  BY <1>1, <1>2

\* A non-empty set of numbers below n has a greatest element.
LEMMA GreatestElement ==
  ASSUME NEW n \in Nat, NEW S \in SUBSET (0 .. n - 1), S # {}
  PROVE  \E x \in S : \A y \in S : y <= x
<1> DEFINE above == {k \in Nat : \E x \in S : k = n - x}
<1>1. above # {} /\ above \in SUBSET Nat
  <2>1. PICK x \in S : TRUE  OBVIOUS
  <2>2. n - x \in above  BY <2>1
  <2>. QED  BY <2>2
<1>2. PICK k \in above : \A j \in above : k <= j  BY <1>1, LeastElement
<1>3. PICK x \in S : k = n - x  BY <1>2
<1>4. ASSUME NEW y \in S  PROVE y <= x
  <2>1. n - y \in above  OBVIOUS
  <2>2. k <= n - y  BY <1>2, <2>1
  <2>. QED  BY <1>3, <2>2
<1>. QED  BY <1>4

\* What the constants are.
LEMMA Constants ==
  /\ N \in Nat \ {0} /\ H \in Nat /\ U16 \in Nat \ {0} /\ H < U16 /\ N < U16
  /\ MaxPending \in Nat \ {0}
  /\ Blank \in Content /\ Garbage \notin Content
  BY HeightAssumption, HistoryAssumption, U16Assumption, ContentAssumption,
     MaxPendingAssumption

-----------------------------------------------------------------------------
(* Types                                                                   *)

\* A scroll leaves every variable it assigns in its type.
LEMMA ScrollType ==
  ASSUME TypeInv, NEW tx \in [Memory -> Content],
         NEW s \in 0 .. N, NEW e \in Rows, NEW n \in (-N) .. N, Scroll(tx, s, e, n)
  PROVE  /\ lines' \in [Rows -> 0 .. U16 - 1] /\ LinesInMemory'
         /\ ScrolledText(tx, s, e, n) \in [Memory -> Content]
         /\ ScrolledDirty(s, e, n) \in SUBSET Rows
         /\ pending' \in (-MaxPending) .. MaxPending
         /\ save' \in 0 .. H /\ full' \in BOOLEAN /\ view' \in 0 .. H /\ SaveInRing' /\ ViewInHistory'
<1> USE Constants
<1>1. lines \in [Rows -> 0 .. U16 - 1] /\ LinesInMemory /\ save \in 0 .. H /\ full \in BOOLEAN
      /\ view \in 0 .. H /\ dirty \subseteq Rows
  BY DEF TypeInv, TypeOK
<1>2. lines' \in [Rows -> 0 .. U16 - 1] /\ LinesInMemory'
  <2>1. lines' = ScrolledLines(s, e, n)  BY DEF Scroll
  <2>2. ASSUME Turns(s, e, n), NEW y \in s .. e  PROVE TakeY(s, e, n, y) \in Rows
    BY <2>2 DEF Turns, TakeY, Rows, Abs
  <2>3. \A y \in Rows : lines'[y] \in 0 .. U16 - 1 /\ lines'[y] \in Memory
    BY <1>1, <2>1, <2>2 DEF ScrolledLines, LinesInMemory
  <2>. QED  BY <2>1, <2>3, <1>1 DEF ScrolledLines, LinesInMemory
<1>3. RecordedText(tx, n) \in [Memory -> Content]
  <2>1. SUFFICES ASSUME NEW k \in Memory,
                        {i \in 0 .. n - 1 : (save + i) % H = k} # {}
                 PROVE  tx[lines[CHOOSE i \in {i \in 0 .. n - 1 : (save + i) % H = k} :
                             \A j \in {j \in 0 .. n - 1 : (save + j) % H = k} : j <= i]] \in Content
    BY DEF RecordedText
  <2> DEFINE rows == {i \in 0 .. n - 1 : (save + i) % H = k}
  <2>2. n \in Nat  BY <2>1
  <2>3. \E i \in rows : \A j \in rows : j <= i
    <3>1. rows \in SUBSET (0 .. n - 1) /\ rows # {}  BY <2>1
    <3> HIDE DEF rows
    <3>. QED  BY <2>2, <3>1, GreatestElement
  <2>4. (CHOOSE i \in rows : \A j \in rows : j <= i) \in 0 .. n - 1  BY <2>3
  <2>5. (CHOOSE i \in rows : \A j \in rows : j <= i) \in Rows  BY <2>4 DEF Rows
  <2>. QED  BY <1>1, <2>5 DEF LinesInMemory
<1>4. ScrolledText(tx, s, e, n) \in [Memory -> Content]
  BY <1>3 DEF ScrolledText
<1>5. ScrolledDirty(s, e, n) \in SUBSET Rows
  <2>1. s .. e \subseteq Rows  BY DEF Rows
  <2>. QED  BY <1>1, <2>1 DEF ScrolledDirty, Cleared
<1>6. pending' \in (-MaxPending) .. MaxPending  BY DEF Scroll
<1>7. save' \in 0 .. H /\ full' \in BOOLEAN /\ view' \in 0 .. H /\ SaveInRing' /\ ViewInHistory'
  <2>1. CASE Records(s, e, n)
    <3>1. H > 0 /\ save + n \in Nat  BY <1>1, <2>1 DEF Records
    <3>2. save' = (save + n) % H /\ full' \in BOOLEAN /\ view' = Total'
      BY <1>1, <2>1 DEF Scroll
    <3>3. save' \in 0 .. H - 1  BY <3>1, <3>2
    <3>. QED  BY <3>1, <3>2, <3>3, <1>1 DEF Total, SaveInRing, ViewInHistory
  <2>2. CASE ~ Records(s, e, n)
    BY <1>1, <2>2 DEF Scroll, history, TypeInv, SaveInRing, ViewInHistory, Total
  <2>. QED  BY <2>1, <2>2
<1>. QED  BY <1>2, <1>4, <1>5, <1>6, <1>7

\* The display shows contents and garbage, whatever is painted and moved.
LEMMA DisplayType ==
  ASSUME TypeInv, NEW how, NEW region, NEW n \in Int, NEW rs,
         NEW seen \in [Rows -> Content], NEW display \in [Rows -> Content \cup {Garbage}]
  PROVE  /\ Painted(display, rs, seen) \in [Rows -> Content \cup {Garbage}]
         /\ region \subseteq Rows => Moved(how, region, n, seen) \in [Rows -> Content \cup {Garbage}]
<1>1. fb \in [Rows -> Content \cup {Garbage}]  BY DEF TypeInv, TypeOK
<1>. QED  BY <1>1 DEF Painted, Moved

\* Every row of a view of the history or the screen is some line.
LEMMA SeenType ==
  ASSUME TypeInv, NEW v \in 0 .. Total
  PROVE  Seen(v) \in [Rows -> Content]
<1> USE Constants
<1>1. lines \in [Rows -> 0 .. U16 - 1] /\ LinesInMemory /\ save \in 0 .. H /\ full \in BOOLEAN
      /\ text \in [Memory -> Content]
  BY DEF TypeInv, TypeOK
<1>2. SUFFICES ASSUME NEW r \in Rows  PROVE GetLine(v, r) \in Memory
  BY <1>1 DEF Seen
<1> DEFINE line == (v + r) % U16
<1>3. v + r \in Nat /\ v + r <= Total + N - 1 /\ Total \in 0 .. H
  BY <1>1 DEF Rows, Total
<1>4. line \in 0 .. U16 - 1 /\ line <= v + r
  <2>1. CASE v + r < U16  BY <1>3, <2>1
  <2>2. CASE v + r >= U16  BY <1>3, <2>2
  <2>. QED  BY <1>3, <2>1, <2>2
<1>5. CASE line >= Total
  <2>1. line - Total \in Rows  BY <1>3, <1>4, <1>5 DEF Rows
  <2>. QED  BY <1>1, <1>4, <1>5, <2>1 DEF GetLine, LinesInMemory
<1>6. CASE line < Total
  <2>1. H > 0 /\ (IF full THEN save ELSE 0) + line \in Nat  BY <1>1, <1>4, <1>6 DEF Total
  <2>2. ((IF full THEN save ELSE 0) + line) % H \in 0 .. H - 1  BY <2>1
  <2>3. 0 .. H - 1 \subseteq Memory  BY DEF Memory
  <2>. QED  BY <1>4, <1>6, <2>2, <2>3, <1>1 DEF GetLine, Total
<1>. QED  BY <1>3, <1>4, <1>5, <1>6

\* A window starts with every variable in its type.
LEMMA TypeInit == Init => TypeInv
<1> SUFFICES ASSUME Init  PROVE TypeInv
  OBVIOUS
<1> USE Constants
<1>1. \A r \in Rows : (H + r) % U16 \in 0 .. U16 - 1 /\ (H + r) % U16 \in Memory
  <2>1. SUFFICES ASSUME NEW r \in Rows
                 PROVE  (H + r) % U16 \in 0 .. U16 - 1 /\ (H + r) % U16 \in Memory
    OBVIOUS
  <2>2. H + r \in Memory  BY DEF Rows, Memory
  <2>3. CASE H + r < U16
    <3>1. (H + r) % U16 = H + r  BY <2>2, <2>3 DEF Memory
    <3>. QED  BY <2>2, <2>3, <3>1 DEF Memory
  <2>4. CASE H + r >= U16
    <3>1. (H + r) % U16 \in 0 .. U16 - 1  BY <2>2 DEF Memory
    <3>. QED  BY <2>2, <2>4, <3>1 DEF Memory
  <2>. QED  BY <2>2, <2>3, <2>4 DEF Memory
<1>2. text \in [Memory -> Content]
  <2>1. PICK old \in [0 .. H - 1 -> Content] :
               text = [k \in Memory |-> IF k < H THEN old[k] ELSE Blank]
    BY DEF Init
  <2>2. \A k \in Memory : k < H => k \in 0 .. H - 1  BY DEF Memory
  <2>. QED  BY <2>1, <2>2
<1>3. 0 \in Rows /\ N - 1 \in Rows  BY DEF Rows
<1>4. lines \in [Rows -> 0 .. U16 - 1] /\ LinesInMemory
  BY <1>1 DEF Init, LinesInMemory
<1>5. fb \in [Rows -> Content \cup {Garbage}] /\ dirty \in SUBSET Rows
  BY DEF Init
<1>6. /\ pending = 0 /\ save = 0 /\ full = FALSE /\ view = 0
      /\ top = 0 /\ bot = N - 1 /\ cy = 0 /\ on = FALSE /\ busy = FALSE
  BY DEF Init
<1>7. pending \in (-MaxPending) .. MaxPending /\ save \in 0 .. H /\ view \in 0 .. H
      /\ top \in 0 .. N
  BY <1>6
<1>8. TypeOK  BY <1>2, <1>3, <1>4, <1>5, <1>6, <1>7 DEF TypeOK
<1>. QED
  BY <1>4, <1>6, <1>8 DEF TypeInv, SaveInRing, ViewInHistory, Total

\* update() paints and forgets what it owed.
LEMMA UpdateType ==
  ASSUME TypeInv, NEW how, Update(how)
  PROVE  /\ fb' \in [Rows -> Content \cup {Garbage}]
         /\ pending' = 0 /\ dirty' = {}
<1>1. /\ top .. bot \subseteq Rows /\ pending \in Int /\ view \in 0 .. Total
      /\ fb \in [Rows -> Content \cup {Garbage}]
  BY Constants DEF TypeInv, TypeOK, ViewInHistory, Total, Rows
<1>2. Seen(view) \in [Rows -> Content]  BY <1>1, SeenType
<1>3. Moved(how, top .. bot, pending, Seen(view)) \in [Rows -> Content \cup {Garbage}]
  BY <1>1, <1>2, DisplayType
<1>4. \A rs : /\ Painted(fb, rs, Seen(view)) \in [Rows -> Content \cup {Garbage}]
              /\ Painted(Moved(how, top .. bot, pending, Seen(view)), rs, Seen(view))
                   \in [Rows -> Content \cup {Garbage}]
  BY <1>1, <1>2, <1>3, DisplayType
<1>. QED  BY <1>4 DEF Update

\* Turning to another part of the history does.
LEMMA HistoryDisplayType ==
  ASSUME TypeInv, NEW v \in 0 .. Total, NEW how, HistoryDisplay(v, how)
  PROVE  fb' \in [Rows -> Content \cup {Garbage}] /\ view' = v
<1>1. /\ v - view \in Int /\ fb \in [Rows -> Content \cup {Garbage}]
  BY Constants DEF TypeInv, TypeOK, Total
<1>2. Seen(v) \in [Rows -> Content]  BY SeenType
<1>3. Moved(how, Rows, v - view, Seen(v)) \in [Rows -> Content \cup {Garbage}]
  BY <1>1, <1>2, DisplayType
<1>4. \A rs : /\ Painted(fb, rs, Seen(v)) \in [Rows -> Content \cup {Garbage}]
              /\ Painted(Moved(how, Rows, v - view, Seen(v)), rs, Seen(v))
                   \in [Rows -> Content \cup {Garbage}]
  BY <1>1, <1>2, <1>3, DisplayType
<1>. QED  BY <1>4 DEF HistoryDisplay

\* Every operation leaves every variable in its type.
LEMMA TypeNext == TypeInv /\ [Next]_vars => TypeInv'
<1> SUFFICES ASSUME TypeInv, [Next]_vars  PROVE TypeInv'
  OBVIOUS
<1> USE Constants
<1>0. /\ 0 .. Total \subseteq 0 .. H /\ Total \in 0 .. Total
      /\ lines \in [Rows -> 0 .. U16 - 1] /\ LinesInMemory
      /\ text \in [Memory -> Content]
      /\ top \in 0 .. N /\ bot \in Rows /\ cy \in Rows
      /\ 1 \in (-N) .. N /\ -1 \in (-N) .. N
      /\ Rows \subseteq 0 .. N
  BY DEF TypeInv, TypeOK, Total, Rows
<1>1. CASE BeginInput
  <2>1. /\ fb' \in [Rows -> Content \cup {Garbage}] /\ view' \in 0 .. H
        /\ view' <= Total
    <3>1. CASE view # Total
      BY <1>0, <1>1, <3>1, HistoryDisplayType DEF BeginInput
    <3>2. CASE view = Total
      BY <1>0, <1>1, <3>2 DEF BeginInput, TypeInv, TypeOK
    <3>. QED  BY <3>1, <3>2
  <2>. QED
    BY <1>0, <1>1, <2>1
    DEF BeginInput, TypeInv, TypeOK, margins, LinesInMemory, SaveInRing, ViewInHistory, Total
<1>2. CASE EndInput
  <2>1. fb' \in [Rows -> Content \cup {Garbage}] /\ pending' = 0 /\ dirty' = {}
    BY <1>2, UpdateType DEF EndInput
  <2>2. pending' \in (-MaxPending) .. MaxPending /\ dirty' \in SUBSET Rows
    BY <2>1
  <2>3. TypeOK'
    BY <1>2, <2>1, <2>2 DEF EndInput, TypeInv, TypeOK, margins, history
  <2>. QED
    BY <1>2, <2>3 DEF EndInput, TypeInv, history, LinesInMemory,
       SaveInRing, ViewInHistory, Total
<1>3. ASSUME NEW s \in 0 .. N, NEW e \in Rows, NEW n \in (-N) .. N, ScrollRegion(s, e, n),
             cy' \in Rows, UNCHANGED <<margins, on, busy, fb>>
      PROVE  TypeInv'
  <2>1. Scroll(text, s, e, n)  BY <1>3 DEF ScrollRegion
  <2>. QED
    BY <1>0, <1>3, <2>1, ScrollType
    DEF ScrollRegion, TypeInv, TypeOK, margins
<1>4. ASSUME text' \in [Memory -> Content], dirty' \in SUBSET Rows, cy' \in Rows,
             UNCHANGED <<lines, pending, history, margins, on, busy, fb>>
      PROVE  TypeInv'
  BY <1>4 DEF TypeInv, TypeOK, margins, history, LinesInMemory, SaveInRing, ViewInHistory, Total
<1>5. CASE LineFeed
  <2>1. CASE cy < bot
    <3>1. cy' \in Rows  BY <1>0, <1>5, <2>1 DEF LineFeed, Rows
    <3>. QED  BY <1>4, <1>5, <2>1, <3>1 DEF LineFeed, TypeInv, TypeOK
  <2>2. CASE ~ (cy < bot)
    BY <1>0, <1>3, <1>5, <2>2 DEF LineFeed
  <2>. QED  BY <2>1, <2>2
<1>6. CASE ReverseFeed
  <2>1. CASE cy > top
    <3>1. cy' \in Rows  BY <1>0, <1>6, <2>1 DEF ReverseFeed, Rows
    <3>. QED  BY <1>4, <1>6, <2>1, <3>1 DEF ReverseFeed, TypeInv, TypeOK
  <2>2. CASE ~ (cy > top)
    BY <1>0, <1>3, <1>6, <2>2 DEF ReverseFeed
  <2>. QED  BY <2>1, <2>2
<1>7. ASSUME NEW c \in Content, ChangeLine(c)  PROVE TypeInv'
  <2>1. text' \in [Memory -> Content]  BY <1>0, <1>7 DEF ChangeLine
  <2>2. dirty' \in SUBSET Rows  BY <1>0, <1>7 DEF ChangeLine, TypeInv, TypeOK
  <2>. QED  BY <1>0, <1>4, <1>7, <2>1, <2>2 DEF ChangeLine
<1>8. ASSUME NEW c \in Content, NEW d \in Content, WrapChar(c, d)  PROVE TypeInv'
  <2> DEFINE left == [text EXCEPT ![lines[cy]] = d]
  <2>1. left \in [Memory -> Content]  BY <1>0
  <2>2. CASE cy < bot
    <3>1. cy' \in Rows /\ cy' = cy + 1  BY <1>0, <1>8, <2>2 DEF WrapChar, Rows
    <3>2. text' = [left EXCEPT ![lines[cy + 1]] = c]  BY <1>8, <2>2 DEF WrapChar
    <3> HIDE DEF left
    <3>3. text' \in [Memory -> Content]  BY <2>1, <3>2
    <3>4. dirty' \in SUBSET Rows  BY <1>8, <2>2, <3>1 DEF WrapChar, TypeInv, TypeOK
    <3>. QED  BY <1>4, <1>8, <2>2, <3>1, <3>3, <3>4 DEF WrapChar
  <2>3. CASE ~ (cy < bot)
    <3>1. /\ Scroll(left, top, bot, 1)
          /\ text' = [ScrolledText(left, top, bot, 1) EXCEPT ![lines'[cy]] = c]
          /\ dirty' = ScrolledDirty(top, bot, 1) \cup {cy}
          /\ UNCHANGED <<cy, margins, on, busy, fb>>
      BY <1>8, <2>3 DEF WrapChar
    <3> HIDE DEF left
    <3>2. /\ lines' \in [Rows -> 0 .. U16 - 1] /\ LinesInMemory'
          /\ ScrolledText(left, top, bot, 1) \in [Memory -> Content]
          /\ ScrolledDirty(top, bot, 1) \in SUBSET Rows
          /\ pending' \in (-MaxPending) .. MaxPending
          /\ save' \in 0 .. H /\ full' \in BOOLEAN /\ view' \in 0 .. H
          /\ SaveInRing' /\ ViewInHistory'
      BY <1>0, <2>1, <3>1, ScrollType
    <3>3. text' \in [Memory -> Content]  BY <3>1, <3>2
    <3>. QED  BY <1>0, <3>1, <3>2, <3>3 DEF TypeInv, TypeOK, margins
  <2>. QED  BY <2>2, <2>3
<1>9. ASSUME NEW rs  PROVE Clear(rs) \in [Memory -> Content]
  BY <1>0 DEF Clear
<1>10. ASSUME NEW part \in {"below", "above", "all"}, NEW c \in Content, EraseDisplay(part, c)
       PROVE  TypeInv'
  <2>1. \A rs : [Clear(rs) EXCEPT ![lines[cy]] = c] \in [Memory -> Content]  BY <1>9
  <2>2. text' \in [Memory -> Content]  BY <1>9, <1>10, <2>1 DEF EraseDisplay
  <2>3. dirty' \in SUBSET Rows  BY <1>0, <1>10 DEF EraseDisplay, TypeInv, TypeOK
  <2>. QED  BY <1>0, <1>4, <1>10, <2>2, <2>3 DEF EraseDisplay
<1>11. ASSUME NEW c \in Content, ScreenAlign(c)  PROVE TypeInv'
  <2>1. text' \in [Memory -> Content]  BY <1>0, <1>11 DEF ScreenAlign
  <2>. QED  BY <1>0, <1>4, <1>11, <2>1 DEF ScreenAlign
<1>12. ASSUME NEW n \in (-N) .. N, ShiftLines(n)  PROVE TypeInv'
  <2> DEFINE mx == (bot - cy + 1) % U16
  <2>1. CASE Abs(n) >= mx
    <3>1. cy .. bot \subseteq Rows  BY <1>0 DEF Rows
    <3>2. dirty' \in SUBSET Rows  BY <1>12, <2>1, <3>1 DEF ShiftLines, TypeInv, TypeOK
    <3>3. text' \in [Memory -> Content]  BY <1>9, <1>12, <2>1 DEF ShiftLines
    <3>. QED  BY <1>0, <1>4, <1>12, <2>1, <3>2, <3>3 DEF ShiftLines
  <2>2. CASE ~ (Abs(n) >= mx)
    <3>1. ScrollRegion(cy, bot, n) /\ UNCHANGED <<margins, cy, on, busy, fb>>
      BY <1>12, <2>2 DEF ShiftLines
    <3>. QED  BY <1>0, <1>3, <3>1
  <2>. QED  BY <2>1, <2>2
<1>13. ASSUME NEW y \in Rows, MoveCursor(y)  PROVE TypeInv'
  BY <1>4, <1>13 DEF MoveCursor, TypeInv, TypeOK
<1>14. ASSUME NEW t \in 0 .. N, NEW b \in Rows, SetMargins(t, b)  PROVE TypeInv'
  <2>1. /\ fb' \in [Rows -> Content \cup {Garbage}] /\ dirty' \in SUBSET Rows
        /\ pending' \in (-MaxPending) .. MaxPending
    <3>1. CASE pending # 0
      BY <1>14, <3>1, UpdateType DEF SetMargins
    <3>2. CASE pending = 0
      BY <1>14, <3>2 DEF SetMargins, TypeInv, TypeOK
    <3>. QED  BY <3>1, <3>2
  <2>2. cy' \in Rows  BY <1>0, <1>14 DEF SetMargins, OnScreen, Rows
  <2>. QED
    BY <1>14, <2>1, <2>2 DEF SetMargins, TypeInv, TypeOK, history, LinesInMemory,
       SaveInRing, ViewInHistory, Total
<1>15. CASE Reset
  <2>1. text' \in [Memory -> Content]  BY <1>9, <1>15 DEF Reset
  <2>2. 0 \in Rows /\ N - 1 \in Rows  BY DEF Rows
  <2>. QED
    BY <1>15, <2>1, <2>2 DEF Reset, TypeInv, TypeOK, history, LinesInMemory,
       SaveInRing, ViewInHistory, Total
<1>16. ASSUME NEW n \in {-N, N}, HistoryScroll(n)  PROVE TypeInv'
  <2> DEFINE past == IF view + n < 0 THEN 0 ELSE view + n
             v == IF past > Total THEN Total ELSE past
  <2>1. v \in 0 .. Total  BY <1>0 DEF TypeInv, TypeOK
  <2>2. PICK how : HistoryDisplay(v, how)  BY <1>16 DEF HistoryScroll
  <2> HIDE DEF v
  <2>3. fb' \in [Rows -> Content \cup {Garbage}] /\ view' = v
    BY <2>1, <2>2, HistoryDisplayType
  <2>. QED
    BY <1>0, <1>16, <2>1, <2>3 DEF HistoryScroll, TypeInv, TypeOK, margins, LinesInMemory,
       SaveInRing, ViewInHistory, Total
<1>17. CASE Activate
  <2>1. view \in 0 .. Total  BY DEF TypeInv, TypeOK, ViewInHistory, Total
  <2>2. fb' \in [Rows -> Content \cup {Garbage}]
    BY <1>17, <2>1, SeenType DEF Activate
  <2>. QED
    BY <1>17, <2>2 DEF Activate, TypeInv, TypeOK, history, margins, LinesInMemory,
       SaveInRing, ViewInHistory, Total
<1>18. CASE Deactivate
  BY <1>18 DEF Deactivate, TypeInv, TypeOK, history, margins, LinesInMemory,
     SaveInRing, ViewInHistory, Total
<1>19. CASE UNCHANGED vars
  BY <1>19 DEF vars, TypeInv, TypeOK, history, margins, LinesInMemory,
     SaveInRing, ViewInHistory, Total
<1>. QED
  BY <1>1, <1>2, <1>5, <1>6, <1>7, <1>8, <1>10, <1>11, <1>12, <1>13, <1>14, <1>15,
     <1>16, <1>17, <1>18, <1>19
  DEF Next

\* Every variable has its type, even where line numbers wrap.
THEOREM TypeCorrect == Spec => []TypeOK
<1>1. Init => TypeInv  BY TypeInit
<1>2. TypeInv /\ [Next]_vars => TypeInv'  BY TypeNext
<1>3. TypeInv => TypeOK  BY DEF TypeInv
<1>. QED  BY <1>1, <1>2, <1>3, PTL DEF Spec

-----------------------------------------------------------------------------
(* Lines                                                                   *)

\* 16 bits are enough for the lines of the history and the screen.
LinesFit == H + N <= U16

\* The loop of scroll_region takes the line of every row of the region once.
LEMMA TakeYPermutes ==
  ASSUME NEW s \in Nat, NEW e \in Nat, NEW n \in Int, Turns(s, e, n),
         NEW y \in s .. e, NEW z \in s .. e
  PROVE  /\ TakeY(s, e, n, y) \in s .. e
         /\ TakeY(s, e, n, y) = TakeY(s, e, n, z) => y = z
<1>1. s <= e /\ n < e - s + 1 /\ -n < e - s + 1  BY DEF Turns, Abs
<1>. QED  BY <1>1 DEF TakeY

\* So renumbering leaves every row a line of its own outside the ring.
LEMMA ScrolledLinesApart ==
  ASSUME TypeInv, LinesApart, NEW s \in 0 .. N, NEW e \in Rows, NEW n \in (-N) .. N,
         lines' = ScrolledLines(s, e, n)
  PROVE  LinesApart'
<1> USE Constants
<1>1. s \in Nat /\ e \in Nat /\ n \in Int /\ s .. e \subseteq Rows  BY DEF Rows
<1>2. CASE ~ Turns(s, e, n)
  BY <1>2 DEF ScrolledLines, LinesApart
<1>3. CASE Turns(s, e, n)
  <2> DEFINE src(y) == IF y \in s .. e THEN TakeY(s, e, n, y) ELSE y
  <2>1. \A y \in Rows : src(y) \in Rows /\ lines'[y] = lines[src(y)]
    <3>1. \A y \in s .. e : TakeY(s, e, n, y) \in s .. e  BY <1>1, <1>3, TakeYPermutes
    <3>. QED  BY <1>1, <1>3, <3>1 DEF ScrolledLines
  <2>2. \A y, z \in Rows : src(y) = src(z) => y = z
    <3>1. \A y, z \in s .. e : /\ TakeY(s, e, n, y) \in s .. e
                               /\ TakeY(s, e, n, y) = TakeY(s, e, n, z) => y = z
      BY <1>1, <1>3, TakeYPermutes
    <3>. QED  BY <3>1
  <2> HIDE DEF src
  <2>. QED  BY <2>1, <2>2 DEF LinesApart
<1>. QED  BY <1>2, <1>3

\* An operation renumbers by a scroll or not at all.
LEMMA LinesChange ==
  ASSUME TypeInv, [Next]_vars
  PROVE  \/ lines' = lines
         \/ \E s \in 0 .. N, e \in Rows, n \in (-N) .. N : lines' = ScrolledLines(s, e, n)
<1> USE Constants
<1>1. /\ top \in 0 .. N /\ bot \in Rows /\ cy \in Rows /\ cy \in 0 .. N
      /\ 1 \in (-N) .. N /\ -1 \in (-N) .. N
  BY DEF TypeInv, TypeOK, Rows
<1>2. CASE LineFeed \/ ReverseFeed \/ \E c, d \in Content : WrapChar(c, d)
  BY <1>1, <1>2 DEF LineFeed, ReverseFeed, WrapChar, ScrollRegion, Scroll
<1>3. CASE \E n \in (-N) .. N : n # 0 /\ ShiftLines(n)
  BY <1>1, <1>3 DEF ShiftLines, ScrollRegion, Scroll
<1>4. CASE BeginInput \/ EndInput \/ (\E n \in {-N, N} : HistoryScroll(n)) \/ Activate
           \/ Deactivate \/ UNCHANGED vars
  BY <1>4 DEF BeginInput, EndInput, HistoryScroll, Activate, Deactivate, vars
<1>5. CASE (\E c \in Content : ChangeLine(c) \/ ScreenAlign(c)) \/ Reset
           \/ (\E part \in {"below", "above", "all"}, c \in Content : EraseDisplay(part, c))
           \/ (\E y \in Rows : MoveCursor(y))
           \/ (\E t \in 0 .. N, b \in Rows : SetMargins(t, b))
  BY <1>5 DEF ChangeLine, ScreenAlign, Reset, EraseDisplay, MoveCursor, SetMargins
<1>. QED  BY <1>2, <1>3, <1>4, <1>5 DEF Next

\* At first the rows have the lines after the ring.
LEMMA LinesInit == LinesFit /\ Init => LinesApart
<1> SUFFICES ASSUME LinesFit, Init  PROVE LinesApart
  OBVIOUS
<1>1. \A r \in Rows : lines[r] = H + r
  <2>1. \A r \in Rows : H + r \in Nat /\ H + r < U16  BY Constants DEF LinesFit, Rows
  <2>2. \A r \in Rows : (H + r) % U16 = H + r  BY <2>1, Constants
  <2>. QED  BY <2>2 DEF Init
<1>. QED  BY <1>1, Constants DEF LinesApart, Rows

\* Every operation keeps the lines apart.
LEMMA LinesNext == TypeInv /\ LinesApart /\ [Next]_vars => LinesApart'
<1> SUFFICES ASSUME TypeInv, LinesApart, [Next]_vars  PROVE LinesApart'
  OBVIOUS
<1>1. CASE lines' = lines  BY <1>1 DEF LinesApart
<1>. QED  BY <1>1, LinesChange, ScrolledLinesApart

\* However lines were renumbered, the rows of the screen have a line each, none
\* of them a line of the history ring (scroll_region, resize), as long as 16
\* bits are enough for the lines.
THEOREM LinesApartAlways ==
  ASSUME LinesFit
  PROVE  Spec => []LinesApart
<1>1. Init => TypeInv /\ LinesApart  BY TypeInit, LinesInit
<1>2. TypeInv /\ LinesApart /\ [Next]_vars => TypeInv' /\ LinesApart'
  BY TypeNext, LinesNext
<1>. QED  BY <1>1, <1>2, PTL DEF Spec

-----------------------------------------------------------------------------
(* The display                                                             *)

(* The inductive invariant: while output is processed the view is on the   *)
(* screen and update() can rely on the clean rows; otherwise nothing is    *)
(* owed and the active window's display is right.                          *)
DisplayInv ==
  /\ busy => view = Total /\ CleanRowsShown
  /\ ~ busy => pending = 0 /\ (on => fb = Seen(view))

Inv == TypeInv /\ LinesApart /\ DisplayInv

\* Seen from the end of the history, row r is row r of the screen.
LEMMA ScreenSeen ==
  LinesFit /\ TypeInv /\ view = Total => \A r \in Rows : Seen(view)[r] = text[lines[r]]
<1> SUFFICES ASSUME LinesFit, TypeInv, view = Total, NEW r \in Rows
             PROVE  Seen(view)[r] = text[lines[r]]
  OBVIOUS
<1>1. Total \in 0 .. H  BY Constants DEF TypeInv, TypeOK, Total
<1>2. (Total + r) % U16 = Total + r  BY <1>1, Constants DEF LinesFit, Rows
<1>3. GetLine(Total, r) = lines[r]  BY <1>1, <1>2, Constants DEF GetLine, Rows
<1>. QED  BY <1>3 DEF Seen

\* What a row of the screen holds after a scroll: what the row n away held, if
\* that is in the region, and nothing if it is not.
LEMMA ScrolledRow ==
  ASSUME TypeInv, LinesApart, NEW tx \in [Memory -> Content],
         NEW s \in 0 .. N, NEW e \in Rows, NEW n \in (-N) .. N, NEW y \in Rows
  PROVE  ScrolledText(tx, s, e, n)[ScrolledLines(s, e, n)[y]] =
           IF ~ Turns(s, e, n) \/ y \notin s .. e THEN tx[lines[y]]
           ELSE IF y + n \in s .. e THEN tx[lines[y + n]] ELSE Blank
<1> USE Constants
<1>1. s \in Nat /\ e \in Nat /\ n \in Int /\ s .. e \subseteq Rows  BY DEF Rows
<1>2. \A r \in Rows : lines[r] \in Memory /\ lines[r] >= H
  BY DEF TypeInv, LinesInMemory, LinesApart
<1> DEFINE recorded == IF Records(s, e, n) THEN RecordedText(tx, n) ELSE tx
           blanked == {lines[TakeY(s, e, n, z)] : z \in Cleared(s, e, n)}
<1>3. \A r \in Rows : recorded[lines[r]] = tx[lines[r]]
  BY <1>2 DEF RecordedText
<1>4. CASE ~ Turns(s, e, n)
  BY <1>3, <1>4 DEF ScrolledText, ScrolledLines
<1>5. CASE Turns(s, e, n)
  <2>1. \A y1, z1 \in s .. e : /\ TakeY(s, e, n, y1) \in s .. e
                               /\ TakeY(s, e, n, y1) = TakeY(s, e, n, z1) => y1 = z1
    BY <1>1, <1>5, TakeYPermutes
  <2>2. Cleared(s, e, n) = {z \in s .. e : z + n \notin s .. e}  BY DEF Cleared
  <2>3. ScrolledLines(s, e, n)[y] = IF y \in s .. e THEN lines[TakeY(s, e, n, y)] ELSE lines[y]
    BY <1>5 DEF ScrolledLines
  <2>4. \A k \in Memory : ScrolledText(tx, s, e, n)[k] =
                            IF k \in blanked THEN Blank ELSE recorded[k]
    BY <1>5 DEF ScrolledText
  <2> HIDE DEF recorded
  <2>5. CASE y \notin s .. e
    <3>1. \A z \in Cleared(s, e, n) : TakeY(s, e, n, z) \in Rows /\ TakeY(s, e, n, z) # y
      BY <1>1, <2>1, <2>2, <2>5
    <3>2. \A z \in Cleared(s, e, n) : lines[TakeY(s, e, n, z)] # lines[y]
      BY <3>1 DEF LinesApart
    <3>3. lines[y] \notin blanked  BY <3>2
    <3>. QED  BY <1>2, <1>3, <1>5, <2>3, <2>4, <2>5, <3>3
  <2>6. CASE y \in s .. e /\ y + n \in s .. e
    <3>1. TakeY(s, e, n, y) = y + n  BY <1>1, <2>6 DEF TakeY
    <3>2. y \notin Cleared(s, e, n)  BY <2>2, <2>6
    <3>3. \A z \in Cleared(s, e, n) : TakeY(s, e, n, z) # y + n
      BY <2>1, <2>2, <2>6, <3>1, <3>2
    <3>4. lines[y + n] \notin blanked
      BY <1>1, <2>1, <2>2, <2>6, <3>3 DEF LinesApart
    <3>. QED  BY <1>1, <1>2, <1>3, <1>5, <2>3, <2>4, <2>6, <3>1, <3>4
  <2>7. CASE y \in s .. e /\ y + n \notin s .. e
    <3>1. lines[TakeY(s, e, n, y)] \in blanked  BY <2>2, <2>7
    <3>. QED  BY <1>1, <1>2, <1>5, <2>1, <2>3, <2>4, <2>7, <3>1
  <2>. QED  BY <2>5, <2>6, <2>7
<1>. QED  BY <1>4, <1>5

\* update() makes the display right: the copy brings the clean rows to their
\* place, and every row it does not is painted.
LEMMA UpdateShows ==
  ASSUME TypeInv, CleanRowsShown, on, NEW how \in Outcomes, Update(how)
  PROVE  fb' = Seen(view)
<1> DEFINE region == top .. bot
           moves == pending # 0 /\ Abs(pending) < bot - top + 1
           failed == moves /\ on /\ how # "copied"
           stale == IF failed THEN {r \in region : r + pending \in region} ELSE {}
<1>1. /\ region \subseteq Rows /\ pending \in Int /\ view \in 0 .. Total
      /\ top \in Nat /\ bot \in Nat /\ on = TRUE
      /\ fb \in [Rows -> Content \cup {Garbage}]
  BY Constants DEF TypeInv, TypeOK, ViewInHistory, Total, Rows
<1>2. Seen(view) \in [Rows -> Content]  BY <1>1, SeenType
<1>3. fb' = Painted(IF moves THEN Moved(how, region, pending, Seen(view)) ELSE fb,
                    dirty \cup stale, Seen(view))
  BY DEF Update
<1>4. SUFFICES ASSUME NEW r \in Rows, r \notin dirty \cup stale
               PROVE  (IF moves THEN Moved(how, region, pending, Seen(view)) ELSE fb)[r]
                        = Seen(view)[r]
  <2>1. fb' = [r \in Rows |-> IF r \in dirty \cup stale THEN Seen(view)[r]
               ELSE (IF moves THEN Moved(how, region, pending, Seen(view)) ELSE fb)[r]]
    BY <1>1, <1>3 DEF Painted
  <2>2. \A r \in Rows : fb'[r] = Seen(view)[r]  BY <1>4, <2>1
  <2>. QED  BY <1>2, <2>1, <2>2
<1>5. CASE top < bot /\ r \in region
  <2>1. r + pending \in region /\ fb[r + pending] = Seen(view)[r]
    BY <1>1, <1>4, <1>5 DEF CleanRowsShown
  <2>2. CASE moves
    <3>1. r \notin stale  BY <1>4
    <3>2. how = "copied"  BY <1>1, <1>5, <2>1, <2>2, <3>1
    <3>. QED  BY <1>1, <1>5, <2>1, <2>2, <3>2 DEF Moved
  <2>3. CASE ~ moves
    <3>1. pending = 0
      BY <1>1, <1>5, <2>1, <2>3 DEF Abs
    <3>2. r + pending = r  BY <1>1, <1>5, <3>1
    <3>. QED  BY <2>1, <2>3, <3>2
  <2>. QED  BY <2>2, <2>3
<1>6. CASE ~ (top < bot /\ r \in region)
  <2>1. fb[r] = Seen(view)[r]  BY <1>1, <1>4, <1>6 DEF CleanRowsShown
  <2>2. CASE moves
    <3>1. top < bot
      <4>1. Abs(pending) \in Nat /\ Abs(pending) # 0  BY <1>1, <2>2 DEF Abs
      <4>. QED  BY <1>1, <2>2, <4>1
    <3>2. r \notin region  BY <1>6, <3>1
    <3>. QED  BY <1>4, <2>1, <2>2, <3>2 DEF Moved
  <2>3. CASE ~ moves
    BY <2>1, <2>3
  <2>. QED  BY <2>2, <2>3
<1>. QED  BY <1>5, <1>6

\* The types of the numbers a scroll works with.
LEMMA VarTypes ==
  ASSUME TypeInv
  PROVE  /\ top \in Nat /\ bot \in Nat /\ pending \in Int /\ dirty \subseteq Rows
         /\ text \in [Memory -> Content] /\ busy \in BOOLEAN
         /\ top \in 0 .. N /\ bot \in Rows /\ cy \in Rows /\ cy \in 0 .. N /\ cy \in Nat
         /\ view \in 0 .. Total /\ Total \in 0 .. Total
  BY Constants DEF TypeInv, TypeOK, Rows, ViewInHistory, Total

\* A scroll keeps the clean rows where update() expects them: n rows further on
\* when it goes to pending_scroll, and otherwise the region is marked.  Rows
\* written at the same time are marked.
LEMMA ScrollKeepsClean ==
  ASSUME LinesFit, TypeInv, LinesApart, CleanRowsShown, view = Total,
         TypeInv', NEW s \in 0 .. N, NEW e \in Rows, NEW n \in (-N) .. N,
         Scroll(text, s, e, n), Turns(s, e, n) \/ s >= e,
         NEW written \in SUBSET Rows,
         \A r \in Rows \ written : text'[lines'[r]] = ScrolledText(text, s, e, n)[lines'[r]],
         ScrolledDirty(s, e, n) \cup written \subseteq dirty',
         UNCHANGED <<margins, on, fb>>
  PROVE  view' = Total' /\ CleanRowsShown'
<1> USE Constants
<1>1. view' = Total'  BY DEF Scroll, history, Total
<1>2. \A r \in Rows : Seen(view)[r] = text[lines[r]]  BY ScreenSeen
<1>3. \A r \in Rows : Seen(view)'[r] = text'[lines'[r]]
  <2>1. (LinesFit /\ TypeInv /\ view = Total => \A r \in Rows : Seen(view)[r] = text[lines[r]])'
    BY ScreenSeen, PTL
  <2>. QED  BY <1>1, <2>1 DEF LinesFit
<1>4. /\ top' = top /\ bot' = bot /\ on' = on /\ fb' = fb
      /\ top \in Nat /\ bot \in Nat /\ pending \in Int /\ dirty \subseteq Rows
      /\ s \in Nat /\ e \in Nat /\ n \in Int /\ s .. e \subseteq Rows
      /\ text \in [Memory -> Content]
  <2>1. top' = top /\ bot' = bot /\ on' = on /\ fb' = fb  BY DEF margins
  <2>2. /\ top \in Nat /\ bot \in Nat /\ pending \in Int /\ dirty \subseteq Rows
        /\ text \in [Memory -> Content]
    BY VarTypes
  <2>3. s \in Nat /\ e \in Nat /\ n \in Int /\ s .. e \subseteq Rows  BY DEF Rows
  <2>. QED  BY <2>1, <2>2, <2>3
<1>5. lines' = ScrolledLines(s, e, n)
      /\ pending' = IF s <= e /\ Fast(s, e) THEN pending + n ELSE pending
  BY DEF Scroll
<1> DEFINE shifted(r) == top < bot /\ r \in top .. bot
           src(r, p) == IF shifted(r) THEN r + p ELSE r
<1>6. \A r \in Rows \ dirty : on => /\ shifted(r) => src(r, pending) \in top .. bot
                                  /\ fb[src(r, pending)] = text[lines[r]]
  BY <1>2 DEF CleanRowsShown
<1>7. SUFFICES ASSUME on, NEW r \in Rows, r \notin dirty'
               PROVE  /\ shifted(r) => src(r, pending') \in top .. bot
                      /\ fb[src(r, pending')] = text'[lines'[r]]
  BY <1>1, <1>3, <1>4 DEF CleanRowsShown
<1>8. text'[lines'[r]] =
        IF ~ Turns(s, e, n) \/ r \notin s .. e THEN text[lines[r]]
        ELSE IF r + n \in s .. e THEN text[lines[r + n]] ELSE Blank
  <2>1. r \notin written  BY <1>7
  <2>2. text'[lines'[r]] = ScrolledText(text, s, e, n)[ScrolledLines(s, e, n)[r]]
    BY <1>5, <2>1
  <2>3. text \in [Memory -> Content]  BY <1>4
  <2>. QED  BY <2>2, <2>3, ScrolledRow
<1>9. r \notin ScrolledDirty(s, e, n)  BY <1>7
<1>10. CASE ~ Turns(s, e, n)
  <2>1. r \notin dirty  BY <1>9, <1>10 DEF ScrolledDirty
  <2>2. src(r, pending') = src(r, pending)
    BY <1>4, <1>5, <1>10 DEF Fast
  <2> HIDE DEF src, shifted
  <2>. QED  BY <1>6, <1>7, <1>8, <1>10, <2>1, <2>2
<1>11. CASE Turns(s, e, n) /\ ~ Fast(s, e)
  <2>1. r \notin dirty /\ r \notin s .. e  BY <1>9, <1>11 DEF ScrolledDirty
  <2>2. pending' = pending  BY <1>5, <1>11
  <2> HIDE DEF src, shifted
  <2>. QED  BY <1>6, <1>7, <1>8, <2>1, <2>2
<1>12. CASE Turns(s, e, n) /\ Fast(s, e) /\ r \notin s .. e
  <2>1. r \notin dirty  BY <1>9, <1>12 DEF ScrolledDirty
  <2>2. ~ shifted(r)  BY <1>12 DEF Fast
  <2>. QED  BY <1>6, <1>7, <1>8, <1>12, <2>1, <2>2
<1>13. CASE Turns(s, e, n) /\ Fast(s, e) /\ r \in s .. e
  <2>1. r + n \in s .. e /\ r + n \notin dirty
    BY <1>9, <1>13 DEF ScrolledDirty, Cleared
  <2>2. s = top /\ e = bot /\ pending' = pending + n /\ s <= e
    BY <1>5, <1>13 DEF Fast, Turns
  <2>3. text'[lines'[r]] = text[lines[r + n]]  BY <1>8, <1>13, <2>1
  <2>4. CASE top < bot
    <3>1. shifted(r) /\ shifted(r + n)  BY <1>13, <2>1, <2>2, <2>4
    <3>2. src(r, pending') = src(r + n, pending)
      BY <1>4, <1>13, <2>2, <3>1
    <3>3. r + n \in Rows  BY <1>4, <2>1
    <3> HIDE DEF src, shifted
    <3>. QED  BY <1>6, <1>7, <2>1, <2>3, <3>1, <3>2, <3>3
  <2>5. CASE ~ (top < bot)
    <3>1. r + n = r  BY <1>4, <1>13, <2>1, <2>2, <2>5
    <3>2. ~ shifted(r)  BY <2>5
    <3>. QED  BY <1>6, <1>7, <2>1, <2>3, <3>1, <3>2
  <2>. QED  BY <2>4, <2>5
<1>. QED  BY <1>10, <1>11, <1>12, <1>13

\* Text written into rows that are marked disturbs no clean row.
LEMMA WriteKeepsClean ==
  ASSUME LinesFit, TypeInv, CleanRowsShown, view = Total, TypeInv',
         NEW written \in SUBSET Rows,
         \A r \in Rows \ written : text'[lines[r]] = text[lines[r]],
         dirty \cup written \subseteq dirty',
         UNCHANGED <<lines, pending, history, margins, on, fb>>
  PROVE  view' = Total' /\ CleanRowsShown'
<1>1. view' = Total'  BY DEF history, Total
<1>2. \A r \in Rows : Seen(view)[r] = text[lines[r]]  BY ScreenSeen
<1>3. \A r \in Rows : Seen(view)'[r] = text'[lines'[r]]
  <2>1. (LinesFit /\ TypeInv /\ view = Total => \A r \in Rows : Seen(view)[r] = text[lines[r]])'
    BY ScreenSeen, PTL
  <2>. QED  BY <1>1, <2>1 DEF LinesFit
<1>4. /\ top' = top /\ bot' = bot /\ on' = on /\ fb' = fb /\ lines' = lines
      /\ pending' = pending
  BY DEF margins
<1>5. \A r \in Rows \ dirty' : Seen(view)'[r] = Seen(view)[r]
  BY <1>2, <1>3, <1>4
<1>. QED  BY <1>1, <1>4, <1>5 DEF CleanRowsShown

\* Turning the view makes the display right again, by a copy or by painting.
LEMMA HistoryDisplayShows ==
  ASSUME TypeInv, on, fb = Seen(view), NEW v \in 0 .. Total, NEW how \in Outcomes,
         HistoryDisplay(v, how)
  PROVE  fb' = Seen(v)
<1> DEFINE n == v - view
           kept == {r \in Rows : r + n \in Rows}
<1>1. view \in Nat /\ v \in Nat /\ Rows \subseteq Nat /\ on = TRUE
  BY Constants DEF TypeInv, TypeOK, Total, Rows
<1>2. \A r \in kept : fb[r + n] = Seen(v)[r]
  <2>1. SUFFICES ASSUME NEW r \in Rows, r + n \in Rows
                 PROVE  Seen(view)[r + n] = Seen(v)[r]
    OBVIOUS
  <2>2. view + (r + n) = v + r  BY <1>1
  <2>3. GetLine(view, r + n) = GetLine(v, r)  BY <2>2 DEF GetLine
  <2>. QED  BY <2>1, <2>3 DEF Seen
<1>3. fb' = Painted(fb, Rows, Seen(v))
      \/ (how = "copied" /\ fb' = Painted(Moved(how, Rows, n, Seen(v)), Rows \ kept, Seen(v)))
  BY <1>1 DEF HistoryDisplay
<1>4. Seen(v) = [r \in Rows |-> Seen(v)[r]]  BY DEF Seen
<1>5. CASE fb' = Painted(fb, Rows, Seen(v))
  BY <1>1, <1>4, <1>5 DEF Painted
<1>6. CASE how = "copied" /\ fb' = Painted(Moved(how, Rows, n, Seen(v)), Rows \ kept, Seen(v))
  <2>1. \A r \in kept : Moved(how, Rows, n, Seen(v))[r] = Seen(v)[r]
    BY <1>1, <1>2, <1>6 DEF Moved
  <2>2. fb' = [r \in Rows |-> IF r \in Rows \ kept THEN Seen(v)[r]
                             ELSE Moved(how, Rows, n, Seen(v))[r]]
    BY <1>1, <1>6 DEF Painted
  <2>3. \A r \in Rows : fb'[r] = Seen(v)[r]  BY <2>1, <2>2
  <2>. QED  BY <1>4, <2>2, <2>3
<1>. QED  BY <1>3, <1>5, <1>6

\* Operations that only write, and mark what they write.
LEMMA WriteKeepsInv ==
  ASSUME LinesFit, Inv, TypeInv', busy, busy' = TRUE, NEW written \in SUBSET Rows,
         \A k \in Memory : text'[k] = text[k] \/ \E r \in written : k = lines[r],
         dirty \cup written \subseteq dirty',
         UNCHANGED <<lines, pending, history, margins, on, fb>>
  PROVE  DisplayInv'
<1>1. TypeInv /\ LinesApart /\ view = Total /\ CleanRowsShown  BY DEF Inv, DisplayInv
<1>2. \A r \in Rows \ written : text'[lines[r]] = text[lines[r]]
  BY <1>1 DEF LinesApart, TypeInv, LinesInMemory
<1>3. view' = Total' /\ CleanRowsShown'  BY <1>1, <1>2, WriteKeepsClean
<1>. QED  BY <1>3 DEF DisplayInv

\* Operations that scroll, and mark what they write besides.
LEMMA ScrollKeepsInv ==
  ASSUME LinesFit, Inv, TypeInv', busy, busy' = TRUE,
         NEW s \in 0 .. N, NEW e \in Rows, NEW n \in (-N) .. N,
         Scroll(text, s, e, n), Turns(s, e, n) \/ s >= e,
         NEW written \in SUBSET Rows,
         \A r \in Rows \ written : text'[lines'[r]] = ScrolledText(text, s, e, n)[lines'[r]],
         ScrolledDirty(s, e, n) \cup written \subseteq dirty',
         UNCHANGED <<margins, on, fb>>
  PROVE  DisplayInv'
<1>1. TypeInv /\ LinesApart /\ view = Total /\ CleanRowsShown  BY DEF Inv, DisplayInv
<1>2. view' = Total' /\ CleanRowsShown'  BY <1>1, ScrollKeepsClean
<1>. QED  BY <1>2 DEF DisplayInv

\* At first nothing is owed to anybody.
LEMMA DisplayInit == Init => DisplayInv
  BY DEF Init, DisplayInv

\* Every operation keeps the display invariant.
LEMMA DisplayNext ==
  ASSUME LinesFit, ~ WideChars, Inv, TypeInv', LinesApart', [Next]_vars
  PROVE  DisplayInv'
<1> USE Constants
<1>0. /\ TypeInv /\ LinesApart /\ DisplayInv
      /\ top \in 0 .. N /\ bot \in Rows /\ cy \in Rows /\ cy \in 0 .. N
      /\ 1 \in (-N) .. N /\ -1 \in (-N) .. N
      /\ text \in [Memory -> Content]
      /\ top \in Nat /\ bot \in Nat /\ cy \in Nat /\ view \in 0 .. Total
      /\ Total \in 0 .. Total /\ busy \in BOOLEAN
  <2>1. TypeInv /\ LinesApart /\ DisplayInv  BY DEF Inv
  <2>2. 1 \in (-N) .. N /\ -1 \in (-N) .. N  OBVIOUS
  <2>. QED  BY <2>1, <2>2, VarTypes
<1>1. CASE BeginInput
  <2>1. UNCHANGED <<text, lines, save, full, pending, on>> /\ ~ busy /\ busy' = TRUE
    BY <1>1 DEF BeginInput
  <2>2. pending' = 0 /\ view' = Total'
    BY <1>0, <1>1, <2>1 DEF BeginInput, HistoryDisplay, DisplayInv, Total
  <2>3. on => fb' = Seen(Total)
    <3>1. CASE view # Total
      BY <1>0, <1>1, <2>1, <3>1, HistoryDisplayShows DEF BeginInput, DisplayInv
    <3>2. CASE view = Total
      BY <1>0, <1>1, <2>1, <3>2 DEF BeginInput, DisplayInv
    <3>. QED  BY <3>1, <3>2
  <2>4. Total' = Total /\ Seen(view)' = Seen(Total)
    BY <2>1, <2>2 DEF Total, Seen, GetLine
  <2>5. on' => fb' = Seen(view)'  BY <2>1, <2>3, <2>4
  <2>6. top' \in Nat /\ bot' \in Nat  BY <1>0, <1>1 DEF BeginInput, margins
  <2>7. CleanRowsShown'
    <3>1. \A r \in Rows : r + pending' = r  BY <2>2 DEF Rows
    <3>. QED  BY <2>5, <3>1 DEF CleanRowsShown
  <2>. QED  BY <2>1, <2>2, <2>7 DEF DisplayInv
<1>2. CASE EndInput
  <2>1. UNCHANGED <<text, lines, save, full, view, on>> /\ busy /\ busy' = FALSE
    BY <1>2 DEF EndInput, history
  <2>2. pending' = 0  BY <1>2 DEF EndInput, Update
  <2>3. on => fb' = Seen(view)
    BY <1>0, <1>2, UpdateShows DEF EndInput, DisplayInv
  <2>4. Seen(view)' = Seen(view)  BY <2>1 DEF Total, Seen, GetLine
  <2>. QED  BY <2>1, <2>2, <2>3, <2>4 DEF DisplayInv
<1>3. CASE LineFeed
  <2>1. CASE cy < bot
    <3>1. UNCHANGED <<text, lines, dirty, pending, history, margins, on, busy, fb>> /\ busy
      BY <1>3, <2>1 DEF LineFeed
    <3>2. \A k \in Memory : text'[k] = text[k]  BY <3>1
    <3>3. {} \in SUBSET Rows  OBVIOUS
    <3>. QED  BY <1>0, <3>1, <3>2, <3>3, WriteKeepsInv
  <2>2. CASE ~ (cy < bot)
    <3>1. /\ Scroll(text, top, bot, 1) /\ text' = ScrolledText(text, top, bot, 1)
          /\ dirty' = ScrolledDirty(top, bot, 1)
          /\ UNCHANGED <<margins, on, busy, fb>> /\ busy
      BY <1>3, <2>2 DEF LineFeed, ScrollRegion
    <3>2. Turns(top, bot, 1) \/ top >= bot  BY <1>0 DEF Turns, Abs
    <3>3. {} \in SUBSET Rows  OBVIOUS
    <3>. QED  BY <1>0, <3>1, <3>2, <3>3, ScrollKeepsInv
  <2>. QED  BY <2>1, <2>2
<1>4. CASE ReverseFeed
  <2>1. CASE cy > top
    <3>1. UNCHANGED <<text, lines, dirty, pending, history, margins, on, busy, fb>> /\ busy
      BY <1>4, <2>1 DEF ReverseFeed
    <3>2. \A k \in Memory : text'[k] = text[k]  BY <3>1
    <3>3. {} \in SUBSET Rows  OBVIOUS
    <3>. QED  BY <1>0, <3>1, <3>2, <3>3, WriteKeepsInv
  <2>2. CASE ~ (cy > top)
    <3>1. /\ Scroll(text, top, bot, -1) /\ text' = ScrolledText(text, top, bot, -1)
          /\ dirty' = ScrolledDirty(top, bot, -1)
          /\ UNCHANGED <<margins, on, busy, fb>> /\ busy
      BY <1>4, <2>2 DEF ReverseFeed, ScrollRegion
    <3>2. Turns(top, bot, -1) \/ top >= bot  BY <1>0 DEF Turns, Abs
    <3>3. {} \in SUBSET Rows  OBVIOUS
    <3>. QED  BY <1>0, <3>1, <3>2, <3>3, ScrollKeepsInv
  <2>. QED  BY <2>1, <2>2
<1>5. ASSUME NEW c \in Content, ChangeLine(c)  PROVE DisplayInv'
  <2>1. \A k \in Memory : text'[k] = text[k] \/ \E r \in {cy} : k = lines[r]
    BY <1>0, <1>5 DEF ChangeLine
  <2>2. {cy} \in SUBSET Rows  BY <1>0
  <2>. QED  BY <1>0, <1>5, <2>1, <2>2, WriteKeepsInv DEF ChangeLine
<1>6. ASSUME NEW c \in Content, NEW d \in Content, WrapChar(c, d)  PROVE DisplayInv'
  <2> DEFINE left == [text EXCEPT ![lines[cy]] = d]
  <2>1. left = text
    <3>1. d = text[lines[cy]]  BY <1>6 DEF WrapChar
    <3>. QED  BY <1>0, <3>1
  <2>2. CASE cy < bot
    <3>1. /\ text' = [left EXCEPT ![lines[cy + 1]] = c] /\ dirty' = dirty \cup {cy + 1}
          /\ UNCHANGED <<lines, pending, history, margins, on, busy, fb>> /\ busy
      BY <1>6, <2>2 DEF WrapChar
    <3>2. cy + 1 \in Rows  BY <1>0, <2>2 DEF Rows
    <3>3. text' = [text EXCEPT ![lines[cy + 1]] = c]  BY <2>1, <3>1
    <3>4. \A k \in Memory : text'[k] = text[k] \/ \E r \in {cy + 1} : k = lines[r]
      BY <1>0, <3>3
    <3>5. {cy + 1} \in SUBSET Rows  BY <3>2
    <3>. QED  BY <1>0, <3>1, <3>4, <3>5, WriteKeepsInv
  <2>3. CASE ~ (cy < bot)
    <3>1. /\ Scroll(left, top, bot, 1)
          /\ text' = [ScrolledText(left, top, bot, 1) EXCEPT ![lines'[cy]] = c]
          /\ dirty' = ScrolledDirty(top, bot, 1) \cup {cy}
          /\ UNCHANGED <<cy, margins, on, busy, fb>> /\ busy
      BY <1>6, <2>3 DEF WrapChar
    <3>2. text' = [ScrolledText(text, top, bot, 1) EXCEPT ![lines'[cy]] = c]
      BY <2>1, <3>1
    <3>3. /\ Scroll(text, top, bot, 1)
          /\ ScrolledDirty(top, bot, 1) \cup {cy} \subseteq dirty'
          /\ busy /\ busy' = TRUE /\ UNCHANGED <<margins, on, fb>>
      BY <1>0, <2>1, <3>1
    <3> HIDE DEF left
    <3> DEFINE written == {cy}
    <3>4. \A r \in Rows \ written : text'[lines'[r]] = ScrolledText(text, top, bot, 1)[lines'[r]]
      <4>1. \A r \in Rows \ {cy} : lines'[r] # lines'[cy]  BY <1>0 DEF LinesApart
      <4>. QED  BY <3>2, <4>1
    <3>5. Turns(top, bot, 1) \/ top >= bot  BY <1>0 DEF Turns, Abs
    <3>6. written \in SUBSET Rows  BY <1>0
    <3>7. ScrolledDirty(top, bot, 1) \cup written \subseteq dirty'  BY <3>3
    <3> HIDE DEF written
    <3>. QED  BY <1>0, <3>4, <3>5, <3>6, <3>3, <3>7, ScrollKeepsInv
  <2>. QED  BY <2>2, <2>3
<1>7. ASSUME NEW part \in {"below", "above", "all"}, NEW c \in Content, EraseDisplay(part, c)
      PROVE  DisplayInv'
  <2> DEFINE rs == CASE part = "below" -> {r \in Rows : r > cy}
                     [] part = "above" -> {r \in Rows : r < cy}
                     [] part = "all" -> Rows
  <2>1. rs \cup {cy} \in SUBSET Rows  BY <1>0
  <2>2. /\ text' = IF part = "all" THEN Clear(rs) ELSE [Clear(rs) EXCEPT ![lines[cy]] = c]
        /\ dirty' = dirty \cup rs \cup {cy}
        /\ UNCHANGED <<lines, pending, history, margins, cy, on, busy, fb>> /\ busy
    BY <1>7 DEF EraseDisplay
  <2> HIDE DEF rs
  <2>3. \A k \in Memory : Clear(rs)[k] = text[k] \/ \E r \in rs : k = lines[r]
    BY DEF Clear
  <2>4. \A k \in Memory : text'[k] = text[k] \/ \E r \in rs \cup {cy} : k = lines[r]
    <3>1. Clear(rs) = [k \in Memory |-> Clear(rs)[k]]  BY DEF Clear
    <3>. QED  BY <2>2, <2>3, <3>1
  <2>. QED  BY <1>0, <2>1, <2>2, <2>4, WriteKeepsInv
<1>8. ASSUME NEW c \in Content, ScreenAlign(c)  PROVE DisplayInv'
  <2>1. \A k \in Memory : text'[k] = text[k] \/ \E r \in Rows : k = lines[r]
    BY <1>8 DEF ScreenAlign
  <2>2. dirty \cup Rows \subseteq dirty'  BY <1>0, <1>8 DEF ScreenAlign, TypeInv, TypeOK
  <2>. QED  BY <1>0, <1>8, <2>1, <2>2, WriteKeepsInv DEF ScreenAlign
<1>9. ASSUME NEW n \in (-N) .. N, ShiftLines(n)  PROVE DisplayInv'
  <2> DEFINE mx == (bot - cy + 1) % U16
  <2>1. CASE Abs(n) >= mx
    <3>1. cy .. bot \in SUBSET Rows  BY <1>0 DEF Rows
    <3>2. \A k \in Memory : text'[k] = text[k] \/ \E r \in cy .. bot : k = lines[r]
      BY <1>9, <2>1 DEF ShiftLines, Clear
    <3>3. /\ dirty' = dirty \cup cy .. bot
          /\ UNCHANGED <<lines, pending, history, margins, on, busy, fb>> /\ busy
      BY <1>9, <2>1 DEF ShiftLines
    <3>. QED  BY <1>0, <3>1, <3>2, <3>3, WriteKeepsInv
  <2>2. CASE ~ (Abs(n) >= mx)
    <3>1. /\ Scroll(text, cy, bot, n) /\ text' = ScrolledText(text, cy, bot, n)
          /\ dirty' = ScrolledDirty(cy, bot, n)
          /\ UNCHANGED <<margins, on, busy, fb>> /\ busy
      BY <1>9, <2>2 DEF ShiftLines, ScrollRegion
    <3>2. Turns(cy, bot, n) \/ cy >= bot
      <4>1. CASE cy <= bot
        <5>1. bot - cy + 1 \in 0 .. U16 - 1  BY <1>0, <4>1 DEF Rows
        <5>2. mx = bot - cy + 1  BY <5>1
        <5>. QED  BY <1>0, <2>2, <4>1, <5>2 DEF Turns, Abs
      <4>. QED  BY <1>0, <4>1
    <3>3. {} \in SUBSET Rows  OBVIOUS
    <3>. QED  BY <1>0, <3>1, <3>2, <3>3, ScrollKeepsInv
  <2>. QED  BY <2>1, <2>2
<1>10. ASSUME NEW y \in Rows, MoveCursor(y)  PROVE DisplayInv'
  <2>1. \A k \in Memory : text'[k] = text[k]  BY <1>10 DEF MoveCursor
  <2>2. {} \in SUBSET Rows  OBVIOUS
  <2>. QED  BY <1>0, <1>10, <2>1, <2>2, WriteKeepsInv DEF MoveCursor
<1>11. ASSUME NEW t \in 0 .. N, NEW b \in Rows, SetMargins(t, b)  PROVE DisplayInv'
  <2>1. /\ UNCHANGED <<text, lines, save, full, view, on, busy>> /\ busy
        /\ top' = t /\ bot' = b
    BY <1>11 DEF SetMargins, history
  <2>2. view' = Total' /\ Seen(view)' = Seen(view)
    BY <1>0, <2>1 DEF DisplayInv, Total, Seen, GetLine
  <2>3. CleanRowsShown /\ CleanRowsShown'
    <3>1. CleanRowsShown  BY <1>0, <2>1 DEF DisplayInv
    <3>2. \A r \in Rows : r + 0 = r  BY DEF Rows
    <3>3. CASE pending # 0
      <4>1. pending' = 0 /\ (on => fb' = Seen(view))
        BY <1>0, <1>11, <3>1, <3>3, UpdateShows DEF SetMargins, Update
      <4>. QED  BY <2>1, <2>2, <3>1, <3>2, <4>1 DEF CleanRowsShown
    <3>4. CASE pending = 0
      <4>1. pending' = 0 /\ fb' = fb /\ dirty' = dirty  BY <1>11, <3>4 DEF SetMargins
      <4>2. on => \A r \in Rows \ dirty : fb[r] = Seen(view)[r]
        BY <3>1, <3>2, <3>4 DEF CleanRowsShown
      <4>. QED  BY <2>1, <2>2, <3>1, <3>2, <4>1, <4>2 DEF CleanRowsShown
    <3>. QED  BY <3>3, <3>4
  <2>. QED  BY <2>1, <2>2, <2>3 DEF DisplayInv
<1>12. CASE Reset
  <2>1. UNCHANGED <<lines, save, full, view, on, busy>> /\ busy /\ dirty' = Rows
    BY <1>12 DEF Reset, history
  <2>2. view' = Total'  BY <1>0, <2>1 DEF DisplayInv, Total
  <2>3. CleanRowsShown'  BY <2>1 DEF CleanRowsShown
  <2>. QED  BY <2>1, <2>2, <2>3 DEF DisplayInv
<1>13. ASSUME NEW n \in {-N, N}, HistoryScroll(n)  PROVE DisplayInv'
  <2> DEFINE past == IF view + n < 0 THEN 0 ELSE view + n
             v == IF past > Total THEN Total ELSE past
  <2>1. v \in 0 .. Total  BY <1>0, Constants DEF TypeInv, TypeOK, Total
  <2>2. PICK how \in Outcomes : HistoryDisplay(v, how)  BY <1>13 DEF HistoryScroll
  <2> HIDE DEF v
  <2>3. UNCHANGED <<text, lines, save, full, on, busy, pending>> /\ ~ busy /\ on
    BY <1>13 DEF HistoryScroll
  <2>4. fb' = Seen(v)  BY <1>0, <2>1, <2>2, <2>3, HistoryDisplayShows DEF DisplayInv
  <2>5. view' = v  BY <2>2 DEF HistoryDisplay
  <2>6. Seen(view)' = Seen(v)  BY <2>3, <2>5 DEF Seen, GetLine, Total
  <2>. QED  BY <1>0, <2>3, <2>4, <2>6 DEF DisplayInv
<1>14. CASE Activate
  <2>1. UNCHANGED <<text, lines, save, full, view, busy, pending>> /\ ~ busy /\ fb' = Seen(view)
    BY <1>14 DEF Activate, history
  <2>2. Seen(view)' = Seen(view)  BY <2>1 DEF Seen, GetLine, Total
  <2>. QED  BY <1>0, <2>1, <2>2 DEF DisplayInv
<1>15. CASE Deactivate
  BY <1>0, <1>15 DEF Deactivate, DisplayInv
<1>16. CASE UNCHANGED vars
  BY <1>0, <1>16 DEF vars, DisplayInv, Total, CleanRowsShown, Seen, GetLine
<1>. QED
  BY <1>1, <1>2, <1>3, <1>4, <1>5, <1>6, <1>7, <1>8, <1>9, <1>10, <1>11, <1>12,
     <1>13, <1>14, <1>15, <1>16
  DEF Next

\* Lines, history and display are right in every reachable state, when line
\* numbers do not wrap and no program prints double width characters.
THEOREM Invariance ==
  ASSUME LinesFit, ~ WideChars
  PROVE  Spec => []Inv
<1>1. Init => Inv  BY TypeInit, LinesInit, DisplayInit DEF Inv
<1>2. Inv /\ [Next]_vars => Inv'
  <2>1. Inv /\ [Next]_vars => TypeInv' /\ LinesApart'
    BY TypeNext, LinesNext DEF Inv
  <2>. QED  BY <2>1, DisplayNext DEF Inv
<1>. QED  BY <1>1, <1>2, PTL DEF Spec

\* What update() relies on: a row not marked dirty is on the display already,
\* pending_scroll rows away and inside the scrolling region, so that the copy
\* brings it to its place (scroll_region, update).
THEOREM CleanRowsShownAlways ==
  ASSUME LinesFit, ~ WideChars
  PROVE  Spec => []CleanRowsShown
<1>1. Inv => CleanRowsShown
  <2>1. \A r \in Rows : r + 0 = r  BY Constants DEF Rows
  <2>2. busy \in BOOLEAN /\ Inv => (busy \/ (pending = 0 /\ (on => fb = Seen(view))))
    BY DEF Inv, DisplayInv
  <2>. QED  BY <2>1, <2>2 DEF Inv, DisplayInv, CleanRowsShown, TypeInv, TypeOK
<1>. QED  BY <1>1, Invariance, PTL

-----------------------------------------------------------------------------
(***************************************************************************)
(* The algorithm of VTerm, Scroll, implements Terminal, for every height   *)
(* and length of the history.  The refinement mapping is the one of Scroll *)
(* (T): the screen is read through linenumbers, the history from the       *)
(* ring's oldest line.                                                     *)
(***************************************************************************)

\* The screen and the display of the abstract terminal.
Scr == [r \in Rows |-> text[lines[r]]]
Shown == IF on /\ ~ busy THEN fb ELSE Unseen

\* The ring's oldest line.
Oldest == IF full THEN save ELSE 0

-----------------------------------------------------------------------------
(* Positions in a ring of h lines                                          *)

\* A multiple of h between -h and h is none.
LEMMA SmallMultiple ==
  ASSUME NEW h \in Nat \ {0}, NEW k \in Int, h * k < h, -h < h * k
  PROVE  k = 0
<1>1. CASE k >= 1
  <2>1. h * k >= h * 1  BY <1>1
  <2>. QED  BY <2>1
<1>2. CASE k <= -1
  <2>1. h * (-k) >= h * 1  BY <1>2
  <2>2. h * (-k) = -(h * k)  OBVIOUS
  <2>. QED  BY <2>1, <2>2
<1>. QED  BY <1>1, <1>2

\* Going round leads back.
LEMMA ModRound ==
  ASSUME NEW h \in Nat \ {0}, NEW a \in Nat, NEW q \in Nat
  PROVE  (a + h * q) % h = a % h
<1> DEFINE b == a + h * q
           m == b % h
           l == a % h
           x == b \div h
           y == a \div h
<1>1. b \in Nat  BY SMT
<1>2. /\ b = h * x + m /\ m \in 0 .. h - 1 /\ x \in Int
  BY <1>1, SMT
<1>3. /\ a = h * y + l /\ l \in 0 .. h - 1 /\ y \in Int
  BY SMT
<1>4. h * (x - y - q) = l - m
  <2> HIDE DEF m, l, x, y
  <2>1. h * x + m = h * y + l + h * q  BY <1>2, <1>3
  <2>2. h * (x - y - q) = h * x - h * y - h * q  BY <1>2, <1>3
  <2>. QED  BY <1>2, <1>3, <2>1, <2>2
<1>5. x - y - q = 0
  <2> HIDE DEF m, l, x, y
  <2>1. x - y - q \in Int  BY <1>2, <1>3
  <2>2. h * (x - y - q) < h /\ -h < h * (x - y - q)  BY <1>2, <1>3, <1>4
  <2>. QED  BY <2>1, <2>2, SmallMultiple
<1>6. l = m
  <2> HIDE DEF m, l, x, y
  <2>. QED  BY <1>2, <1>3, <1>4, <1>5
<1>. QED  BY <1>6

\* Less than h further on is another line.
LEMMA ModApart ==
  ASSUME NEW h \in Nat \ {0}, NEW a \in Nat, NEW b \in Nat, a < b, b < a + h
  PROVE  a % h # b % h
<1> DEFINE x == b \div h
           y == a \div h
           m == b % h
           l == a % h
<1>1. b = h * x + m /\ x \in Int /\ m \in Nat  BY SMT
<1>2. a = h * y + l /\ y \in Int /\ l \in Nat  BY SMT
<1> HIDE DEF x, y, m, l
<1>0. SUFFICES ASSUME l = m  PROVE FALSE
  BY DEF l, m
<1>3. h * (x - y) = b - a
  <2>1. h * (x - y) = h * x - h * y  BY <1>1, <1>2
  <2>. QED  BY <1>0, <1>1, <1>2, <2>1
<1>4. x - y = 0
  <2>1. x - y \in Int  BY <1>1, <1>2
  <2>. QED  BY <1>3, <2>1, SmallMultiple
<1>5. h * (x - y) = 0  BY <1>4
<1>. QED  BY <1>3, <1>5

\* Positions may be reduced before they are added.
LEMMA ModSum ==
  ASSUME NEW h \in Nat \ {0}, NEW a \in Nat, NEW b \in Nat
  PROVE  ((a % h) + b) % h = (a + b) % h
<1> DEFINE l == a % h
           y == a \div h
<1>1. a = h * y + l /\ l \in Nat /\ y \in Nat  BY SMT
<1> HIDE DEF l, y
<1>2. a + b = (l + b) + h * y /\ l + b \in Nat  BY <1>1
<1>3. ((l + b) + h * y) % h = (l + b) % h  BY <1>1, <1>2, ModRound
<1>. QED  BY <1>2, <1>3 DEF l

-----------------------------------------------------------------------------
(* The history                                                             *)

\* What the state tells about the ring.
LEMMA RingTypes ==
  ASSUME TypeInv
  PROVE  /\ Total \in 0 .. H /\ Oldest \in Nat /\ save \in Nat /\ full \in BOOLEAN
         /\ H > 0 => save < H
         /\ H = 0 => save = 0 /\ ~ full
         /\ Scr \in [Rows -> Content]
         /\ \A r \in Rows : Scr[r] = text[lines[r]]
  BY Constants DEF TypeInv, TypeOK, SaveInRing, LinesInMemory, Total, Oldest, Scr

\* The history is a sequence of Total lines, read from the oldest.
LEMMA HistoryIsSeq ==
  TypeInv => /\ HistorySeq \in Seq(Content) /\ Len(HistorySeq) = Total
             /\ \A i \in 1 .. Total : HistorySeq[i] = text[(Oldest + i - 1) % H]
<1> SUFFICES ASSUME TypeInv
             PROVE  /\ HistorySeq \in Seq(Content) /\ Len(HistorySeq) = Total
                    /\ \A i \in 1 .. Total : HistorySeq[i] = text[(Oldest + i - 1) % H]
  OBVIOUS
<1>1. Total \in 0 .. H /\ Oldest \in Nat /\ text \in [Memory -> Content]
  BY RingTypes DEF TypeInv, TypeOK
<1>2. HistorySeq = [i \in 1 .. Total |-> text[(Oldest + i - 1) % H]]
  BY DEF HistorySeq, Oldest
<1>3. \A i \in 1 .. Total : text[(Oldest + i - 1) % H] \in Content
  <2>1. SUFFICES ASSUME NEW i \in 1 .. Total
                 PROVE  (Oldest + i - 1) % H \in Memory
    BY <1>1
  <2>2. Oldest + i - 1 \in Nat /\ H \in Nat \ {0}  BY <1>1, Constants
  <2>3. (Oldest + i - 1) % H \in 0 .. H - 1  BY <2>2
  <2>. QED  BY <2>2, <2>3, Constants DEF Memory
<1>4. HistorySeq \in [1 .. Total -> Content]  BY <1>2, <1>3
<1>. QED  BY <1>1, <1>2, <1>4

\* history_scroll puts row j of the rows pushed out j lines after the write
\* position, unless a later one takes the line.
LEMMA RecordedAt ==
  ASSUME H > 0, save \in Nat, NEW tx, NEW n \in Nat, NEW j \in 0 .. n - 1, n - j <= H
  PROVE  RecordedText(tx, n)[(save + j) % H] = tx[lines[j]]
<1> DEFINE k == (save + j) % H
           rows == {i \in 0 .. n - 1 : (save + i) % H = k}
           last == CHOOSE i \in rows : \A m \in rows : m <= i
<1>1. H \in Nat \ {0} /\ save + j \in Nat  BY Constants
<1>2. k \in 0 .. H - 1 /\ k \in Memory
  <2>1. k \in 0 .. H - 1  BY <1>1
  <2>. QED  BY <2>1, Constants DEF Memory
<1>3. j \in rows  OBVIOUS
<1>4. last \in rows /\ \A m \in rows : m <= last
  <2>1. rows \in SUBSET (0 .. n - 1) /\ rows # {}  BY <1>3
  <2> HIDE DEF rows
  <2>2. \E i \in rows : \A m \in rows : m <= i  BY <2>1, GreatestElement
  <2>. QED  BY <2>2
<1>5. last = j
  <2>1. last \in 0 .. n - 1 /\ (save + last) % H = (save + j) % H /\ j <= last
    BY <1>3, <1>4
  <2> HIDE DEF last
  <2>2. SUFFICES ASSUME j < last  PROVE FALSE
    BY <2>1
  <2>3. save + last \in Nat /\ save + j < save + last /\ save + last < save + j + H
    BY <1>1, <2>1, <2>2
  <2>. QED  BY <1>1, <2>1, <2>3, ModApart
<1>6. RecordedText(tx, n)[k] = tx[lines[last]]
  <2>1. ~ (k >= H)
    <3> HIDE DEF k
    <3>. QED  BY <1>1, <1>2
  <2>2. rows # {}
    <3> HIDE DEF rows
    <3>. QED  BY <1>3
  <2>. QED  BY <1>2, <2>1, <2>2 DEF RecordedText
<1>. QED  BY <1>5, <1>6

\* Lines further on keep what they held.
LEMMA RecordedNotAt ==
  ASSUME H > 0, save \in Nat, NEW tx, NEW n \in Nat, NEW j \in n .. H - 1
  PROVE  RecordedText(tx, n)[(save + j) % H] = tx[(save + j) % H]
<1> DEFINE k == (save + j) % H
           rows == {i \in 0 .. n - 1 : (save + i) % H = k}
<1>1. H \in Nat \ {0} /\ save + j \in Nat  BY Constants
<1>2. k \in 0 .. H - 1 /\ k \in Memory
  <2>1. k \in 0 .. H - 1  BY <1>1
  <2>. QED  BY <2>1, Constants DEF Memory
<1>3. rows = {}
  <2>1. SUFFICES ASSUME NEW i \in 0 .. n - 1, (save + i) % H = (save + j) % H
                 PROVE  FALSE
    OBVIOUS
  <2>2. save + i \in Nat /\ save + i < save + j /\ save + j < save + i + H
    BY <1>1
  <2>. QED  BY <1>1, <2>1, <2>2, ModApart
<1>. QED  BY <1>2, <1>3 DEF RecordedText

\* The history with the first n rows of the screen added at its end.
Pushed(n) == HistorySeq \o [i \in 1 .. n |-> Scr[i - 1]]

\* The history with the first n rows of the screen after it.
LEMMA PushedIsSeq ==
  ASSUME TypeInv, NEW n \in 1 .. N
  PROVE  /\ Pushed(n) \in Seq(Content) /\ Len(Pushed(n)) = Total + n
         /\ \A i \in 1 .. Total + n :
               Pushed(n)[i] = IF i <= Total THEN text[(Oldest + i - 1) % H]
                                            ELSE text[lines[i - Total - 1]]
<1> DEFINE rows == [i \in 1 .. n |-> Scr[i - 1]]
<1>1. \A i \in 1 .. n : i - 1 \in Rows  BY Constants DEF Rows
<1>2. rows \in Seq(Content) /\ Len(rows) = n /\ \A i \in 1 .. n : rows[i] = text[lines[i - 1]]
  <2>1. n \in Nat  BY Constants
  <2>2. rows \in [1 .. n -> Content]  BY <1>1, RingTypes
  <2>. QED  BY <1>1, <2>1, <2>2, RingTypes
<1>3. /\ HistorySeq \in Seq(Content) /\ Len(HistorySeq) = Total
      /\ \A i \in 1 .. Total : HistorySeq[i] = text[(Oldest + i - 1) % H]
  BY HistoryIsSeq
<1>4. Total \in Nat /\ n \in Nat  BY RingTypes, Constants
<1> HIDE DEF rows
<1>5. /\ HistorySeq \o rows \in Seq(Content)
      /\ Len(HistorySeq \o rows) = Total + n
      /\ \A i \in 1 .. Total + n : (HistorySeq \o rows)[i] =
           IF i <= Total THEN HistorySeq[i] ELSE rows[i - Total]
  BY <1>2, <1>3, ConcatProperties, ZenonT(40)
<1>6. Pushed(n) = HistorySeq \o rows  BY DEF Pushed, rows
<1>7. \A i \in 1 .. Total + n : i > Total => i - Total \in 1 .. n  BY <1>4
<1>8. \A i \in 1 .. Total + n : i <= Total => i \in 1 .. Total  BY <1>4
<1>. QED  BY <1>2, <1>3, <1>4, <1>5, <1>6, <1>7, <1>8

\* The last H of them.
LEMMA NewestOf ==
  ASSUME NEW S, NEW h \in Seq(S), H \in Nat, NEW t \in Nat,
         t = IF Len(h) > H THEN H ELSE Len(h)
  PROVE  T!Newest(h) \in Seq(S) /\ Len(T!Newest(h)) = t
         /\ \A i \in 1 .. t : T!Newest(h)[i] = h[Len(h) - t + i]
<1>1. Len(h) \in Nat /\ \A i \in 1 .. Len(h) : h[i] \in S  BY ElementOfSeq
<1>2. CASE Len(h) > H
  <2> DEFINE m == Len(h) - H + 1
  <2>1. m \in Int /\ Len(h) \in Int /\ \A i \in m .. Len(h) : h[i] \in S  BY <1>1, <1>2
  <2>2. /\ SubSeq(h, m, Len(h)) \in Seq(S)
        /\ Len(SubSeq(h, m, Len(h))) = IF m <= Len(h) THEN Len(h) - m + 1 ELSE 0
        /\ \A i \in 1 .. Len(h) - m + 1 : SubSeq(h, m, Len(h))[i] = h[m + i - 1]
    BY <2>1, SubSeqProperties
  <2>3. T!Newest(h) = SubSeq(h, m, Len(h))  BY <1>2 DEF T!Newest
  <2>4. Len(h) - m + 1 = H /\ \A i \in 1 .. H : m + i - 1 = Len(h) - H + i  BY <1>1, <1>2
  <2>5. Len(SubSeq(h, m, Len(h))) = H  BY <1>1, <1>2, <2>2
  <2> HIDE DEF m
  <2>. QED  BY <1>2, <2>2, <2>3, <2>4, <2>5
<1>3. CASE ~ (Len(h) > H)
  <2>1. T!Newest(h) = h  BY <1>3 DEF T!Newest
  <2>. QED  BY <1>1, <1>3, <2>1
<1>. QED  BY <1>2, <1>3

\* history_scroll makes of the ring the newest lines of the history with the
\* rows pushed out added.
LEMMA HistoryPushed ==
  ASSUME TypeInv, TypeInv', H > 0, NEW n \in 1 .. N,
         save' = (save + n) % H, full' = (full \/ save + n >= H),
         \A k \in 0 .. H - 1 : text'[k] = RecordedText(text, n)[k]
  PROVE  HistorySeq' = T!Newest(Pushed(n))
<1> DEFINE t == IF Total + n > H THEN H ELSE Total + n
<1>1. /\ H \in Nat \ {0} /\ save \in Nat /\ save < H /\ full \in BOOLEAN
      /\ n \in Nat /\ n >= 1 /\ Total = (IF full THEN H ELSE save)
      /\ Oldest = (IF full THEN save ELSE 0)
  BY RingTypes, Constants DEF Total, Oldest
<1>2. /\ Pushed(n) \in Seq(Content) /\ Len(Pushed(n)) = Total + n
      /\ \A i \in 1 .. Total + n :
            Pushed(n)[i] = IF i <= Total THEN text[(Oldest + i - 1) % H]
                                         ELSE text[lines[i - Total - 1]]
  BY PushedIsSeq
<1>3. /\ T!Newest(Pushed(n)) \in Seq(Content) /\ Len(T!Newest(Pushed(n))) = t
      /\ \A i \in 1 .. t : T!Newest(Pushed(n))[i] = Pushed(n)[(Total + n) - t + i]
  <2>1. t \in Nat /\ H \in Nat  BY <1>1
  <2>2. t = IF Len(Pushed(n)) > H THEN H ELSE Len(Pushed(n))  BY <1>2
  <2>3. Len(Pushed(n)) = Total + n /\ Pushed(n) \in Seq(Content)  BY <1>2
  <2> HIDE DEF t
  <2> DEFINE h == Pushed(n)
  <2> HIDE DEF h
  <2>4. h \in Seq(Content) /\ Len(h) = Total + n /\ t = IF Len(h) > H THEN H ELSE Len(h)
    BY <2>2, <2>3 DEF h
  <2>5. /\ T!Newest(h) \in Seq(Content) /\ Len(T!Newest(h)) = t
        /\ \A i \in 1 .. t : T!Newest(h)[i] = h[Len(h) - t + i]
    BY <2>1, <2>4, NewestOf, SMTT(20)
  <2>. QED  BY <2>4, <2>5 DEF h
<1>4. /\ HistorySeq' \in Seq(Content) /\ Len(HistorySeq') = Total'
      /\ \A i \in 1 .. Total' : HistorySeq'[i] = text'[(Oldest' + i - 1) % H]
  <2>1. (TypeInv => /\ HistorySeq \in Seq(Content) /\ Len(HistorySeq) = Total
                    /\ \A i \in 1 .. Total : HistorySeq[i] = text[(Oldest + i - 1) % H])'
    BY HistoryIsSeq, PTL
  <2>. QED  BY <2>1
<1>5. Total' = t /\ Oldest' = (IF full' THEN save' ELSE 0)
  <2>1. CASE save + n >= H \/ full
    <3>1. full' /\ t = H
      <4>1. full'  BY <2>1
      <4>. QED  BY <1>1, <2>1, <4>1
    <3>. QED  BY <3>1 DEF Total, Oldest
  <2>2. CASE ~ (save + n >= H \/ full)
    <3>1. save + n \in 0 .. H - 1  BY <1>1, <2>2
    <3>2. save' = save + n  BY <1>1, <3>1
    <3>3. full' = FALSE /\ ~ full /\ t = save + n  BY <1>1, <2>2
    <3>. QED  BY <3>2, <3>3 DEF Total, Oldest
  <2>. QED  BY <2>1, <2>2
<1>6. ASSUME NEW a \in 0 .. H - 1
      PROVE  text'[(save + n + a) % H] =
               IF a >= H - n THEN text[lines[n - H + a]] ELSE text[(save + n + a) % H]
  <2>1. (save + n + a) % H \in 0 .. H - 1
    <3>1. save + n + a \in Nat  BY <1>1
    <3>. QED  BY <1>1, <3>1
  <2>2. text'[(save + n + a) % H] = RecordedText(text, n)[(save + n + a) % H]  BY <2>1
  <2>3. CASE a >= H - n
    <3> DEFINE j == n - H + a
    <3>1. j \in 0 .. n - 1 /\ n - j <= H /\ save + n + a = (save + j) + H * 1
      BY <1>1, <2>3
    <3>2. save + j \in Nat  BY <1>1, <3>1
    <3> HIDE DEF j
    <3>3. (save + n + a) % H = (save + j) % H
      <4>1. ((save + j) + H * 1) % H = (save + j) % H  BY <1>1, <3>2, ModRound
      <4>. QED  BY <3>1, <4>1
    <3>4. RecordedText(text, n)[(save + j) % H] = text[lines[j]]  BY <1>1, <3>1, RecordedAt
    <3>. QED  BY <2>2, <2>3, <3>3, <3>4 DEF j
  <2>4. CASE ~ (a >= H - n)
    <3> DEFINE j == n + a
    <3>1. j \in n .. H - 1 /\ save + n + a = save + j  BY <1>1, <2>4
    <3> HIDE DEF j
    <3>2. RecordedText(text, n)[(save + j) % H] = text[(save + j) % H]
      BY <1>1, <3>1, RecordedNotAt
    <3>. QED  BY <2>2, <2>4, <3>1, <3>2
  <2>. QED  BY <2>3, <2>4
<1>7. ASSUME NEW i \in 1 .. t
      PROVE  text'[(Oldest' + i - 1) % H] = Pushed(n)[(Total + n) - t + i]
  <2>1. CASE full'
    <3> DEFINE a == i - 1
    <3>1. t = H /\ a \in 0 .. H - 1 /\ i = a + 1  BY <1>1, <1>5, <2>1
    <3>2. (Oldest' + i - 1) % H = (save + n + a) % H
      <4>1. Oldest' + i - 1 = ((save + n) % H) + a
        <5>1. (save + n) % H \in Nat  BY <1>1
        <5>. QED  BY <1>5, <2>1, <3>1, <5>1
      <4>2. save + n \in Nat /\ a \in Nat  BY <1>1, <3>1
      <4>3. (((save + n) % H) + a) % H = (save + n + a) % H  BY <1>1, <4>2, ModSum
      <4>. QED  BY <4>1, <4>3
    <3> DEFINE x == Total + n - H + a + 1
    <3>3. x \in 1 .. Total + n /\ (Total + n) - t + i = x  BY <1>1, <3>1
    <3>4. CASE a >= H - n
      <4>1. ~ (x <= Total) /\ x - Total - 1 = n - H + a  BY <1>1, <3>1, <3>4
      <4> HIDE DEF x, a
      <4>. QED  BY <1>2, <1>6, <3>1, <3>2, <3>3, <3>4, <4>1
    <3>5. CASE ~ (a >= H - n)
      <4>1. x <= Total  BY <1>1, <3>1, <3>5
      <4>2. (Oldest + x - 1) % H = (save + n + a) % H
        <5>1. CASE full
          <6>1. Oldest + x - 1 = save + n + a  BY <1>1, <3>1, <5>1
          <6>. QED  BY <6>1
        <5>2. CASE ~ full
          <6> DEFINE b == Oldest + x - 1
          <6>1. b \in Nat /\ save + n + a = b + H * 1
            BY <1>1, <3>1, <5>2, <2>1
          <6> HIDE DEF b
          <6>2. (b + H * 1) % H = b % H  BY <1>1, <6>1, ModRound
          <6>. QED  BY <6>1, <6>2 DEF b
        <5>. QED  BY <5>1, <5>2
      <4> HIDE DEF x, a
      <4>. QED  BY <1>2, <1>6, <3>1, <3>2, <3>3, <3>5, <4>1, <4>2
    <3>. QED  BY <3>4, <3>5
  <2>2. CASE ~ full'
    <3>1. ~ full /\ save + n < H /\ t = save + n /\ Oldest' = 0 /\ Oldest = 0 /\ Total = save
      <4>1. ~ full /\ ~ (save + n >= H)  BY <2>2
      <4>2. Oldest' = 0  BY <1>5, <2>2
      <4>. QED  BY <1>1, <4>1, <4>2
    <3>2. (Total + n) - t + i = i /\ i \in 1 .. Total + n  BY <1>1, <3>1
    <3>3. Oldest' + i - 1 = i - 1 /\ Oldest + i - 1 = i - 1 /\ i - 1 \in 0 .. H - 1
      BY <1>1, <3>1, <3>2
    <3> DEFINE a == IF i <= save THEN H - (save + n) + i - 1 ELSE i - 1 - (save + n) + H
    <3>4. a \in 0 .. H - 1 /\ save + n + a = (i - 1) + H * 1
      BY <1>1, <3>1, <3>2
    <3>5. (save + n + a) % H = (i - 1) % H
      <4> HIDE DEF a
      <4>1. i - 1 \in Nat  OBVIOUS
      <4>. QED  BY <1>1, <3>4, <4>1, ModRound
    <3>6. CASE i <= Total
      <4>1. ~ (a >= H - n)  BY <1>1, <3>1, <3>2, <3>6
      <4> HIDE DEF a
      <4>. QED  BY <1>2, <1>6, <3>2, <3>3, <3>4, <3>5, <3>6, <4>1
    <3>7. CASE ~ (i <= Total)
      <4>1. a >= H - n /\ n - H + a = i - Total - 1  BY <1>1, <3>1, <3>2, <3>7
      <4> HIDE DEF a
      <4>. QED  BY <1>2, <1>6, <3>2, <3>3, <3>4, <3>5, <3>7, <4>1
    <3>. QED  BY <3>6, <3>7
  <2>. QED  BY <1>1, <1>5, <2>1, <2>2
<1> HIDE DEF t
<1>8. Len(HistorySeq') = Len(T!Newest(Pushed(n)))
      /\ \A i \in 1 .. Len(HistorySeq') : HistorySeq'[i] = T!Newest(Pushed(n))[i]
  BY <1>3, <1>4, <1>5, <1>7
<1>. QED  BY <1>3, <1>4, <1>8, SeqEqual

\* The history is what it was if the ring was not written.
LEMMA HistoryKept ==
  ASSUME TypeInv, save' = save, full' = full, \A k \in 0 .. H - 1 : text'[k] = text[k]
  PROVE  HistorySeq' = HistorySeq
<1>1. \A i \in 1 .. Total : (Oldest + i - 1) % H \in 0 .. H - 1
  <2>1. \A i \in 1 .. Total : Oldest + i - 1 \in Nat /\ H \in Nat \ {0}
    BY RingTypes, Constants
  <2>. QED  BY <2>1
<1>2. Total' = Total /\ Oldest' = Oldest  BY DEF Total, Oldest
<1>3. \A i \in 1 .. Total : text'[(Oldest + i - 1) % H] = text[(Oldest + i - 1) % H]
  BY <1>1
<1>4. HistorySeq = [i \in 1 .. Total |-> text[(Oldest + i - 1) % H]]
  BY DEF HistorySeq, Oldest
<1>5. HistorySeq' = [i \in 1 .. Total |-> text'[(Oldest + i - 1) % H]]
  BY <1>2 DEF HistorySeq, Oldest
<1>. QED  BY <1>3, <1>4, <1>5

\* A scroll of the algorithm is the abstract one, of the screen and the history.
LEMMA ScrollMaps ==
  ASSUME Inv, TypeInv', NEW s \in 0 .. N, NEW e \in Rows, NEW n \in (-N) .. N, n # 0,
         Scroll(text, s, e, n), Turns(s, e, n) \/ s >= e,
         \A k \in 0 .. H - 1 : text'[k] = ScrolledText(text, s, e, n)[k]
  PROVE  /\ HistorySeq' = T!Recorded(Scr, s, e, n)
         /\ \A r \in Rows : ScrolledText(text, s, e, n)[lines'[r]] = T!Shifted(Scr, s, e, n)[r]
<1>1. TypeInv /\ LinesApart  BY DEF Inv
<1>2. /\ s \in Nat /\ e \in Nat /\ n \in Int /\ s .. e \subseteq Rows
      /\ text \in [Memory -> Content] /\ T!Rows = Rows
  BY <1>1, Constants, VarTypes DEF Rows, T!Rows
<1>3. \A r \in Rows : ScrolledText(text, s, e, n)[lines'[r]] = T!Shifted(Scr, s, e, n)[r]
  <2>1. SUFFICES ASSUME NEW r \in Rows
                 PROVE  ScrolledText(text, s, e, n)[lines'[r]] = T!Shifted(Scr, s, e, n)[r]
    OBVIOUS
  <2>2. ScrolledText(text, s, e, n)[ScrolledLines(s, e, n)[r]] =
          IF ~ Turns(s, e, n) \/ r \notin s .. e THEN text[lines[r]]
          ELSE IF r + n \in s .. e THEN text[lines[r + n]] ELSE Blank
    <3>1. text \in [Memory -> Content]  BY <1>2
    <3>. QED  BY <1>1, <3>1, ScrolledRow, SMT
  <2>3. r \in s .. e => (~ Turns(s, e, n) <=> s = e)
    BY <1>2 DEF Turns, Abs
  <2>4. T!Shifted(Scr, s, e, n)[r] =
          IF r \notin s .. e \/ s = e THEN Scr[r]
          ELSE IF r + n \in s .. e THEN Scr[r + n] ELSE Blank
    BY <1>2 DEF T!Shifted
  <2>5. \A q \in Rows : Scr[q] = text[lines[q]]  BY DEF Scr
  <2>6. lines' = ScrolledLines(s, e, n)  BY DEF Scroll
  <2>. QED  BY <1>2, <2>2, <2>3, <2>4, <2>5, <2>6
<1>4. \A k \in 0 .. H - 1 :
         text'[k] = IF Records(s, e, n) THEN RecordedText(text, n)[k] ELSE text[k]
  <2>1. SUFFICES ASSUME NEW k \in 0 .. H - 1
                 PROVE  ScrolledText(text, s, e, n)[k] =
                          IF Records(s, e, n) THEN RecordedText(text, n)[k] ELSE text[k]
    OBVIOUS
  <2>2. k \in Memory /\ k < H  BY Constants DEF Memory
  <2>3. CASE Turns(s, e, n)
    <3>1. \A z \in Cleared(s, e, n) : TakeY(s, e, n, z) \in Rows
      BY <1>2, <2>3, TakeYPermutes DEF Cleared
    <3>2. \A z \in Cleared(s, e, n) : lines[TakeY(s, e, n, z)] # k
      BY <1>1, <2>2, <3>1, Constants DEF LinesApart
    <3>. QED  BY <2>2, <2>3, <3>2 DEF ScrolledText
  <2>4. CASE ~ Turns(s, e, n)
    BY <2>4 DEF ScrolledText
  <2>. QED  BY <2>3, <2>4
<1>5. CASE Records(s, e, n)
  <2>1. s = 0 /\ s <= e /\ n > 0 /\ H > 0 /\ n \in 1 .. N
    BY <1>5, Constants DEF Records
  <2>2. save' = (save + n) % H /\ full' = (full \/ save + n >= H)
    BY <1>5 DEF Scroll
  <2>3. HistorySeq' = T!Newest(Pushed(n))
    BY <1>1, <1>4, <1>5, <2>1, <2>2, HistoryPushed
  <2>4. T!Recorded(Scr, s, e, n) = T!Newest(Pushed(n))
    BY <2>1 DEF T!Recorded, Pushed
  <2>. QED  BY <1>3, <2>3, <2>4
<1>6. CASE ~ Records(s, e, n) /\ ~ (s = 0 /\ s <= e /\ n > 0)
  <2>1. save' = save /\ full' = full  BY <1>6 DEF Scroll, history
  <2>2. HistorySeq' = HistorySeq  BY <1>1, <1>4, <1>6, <2>1, HistoryKept
  <2>3. T!Recorded(Scr, s, e, n) = HistorySeq
    BY <1>6 DEF T!Recorded
  <2>. QED  BY <1>3, <2>2, <2>3
<1>7. CASE ~ Records(s, e, n) /\ (s = 0 /\ s <= e /\ n > 0)
  <2>1. H = 0 /\ n \in 1 .. N  BY <1>7, Constants DEF Records
  <2>2. save' = save /\ full' = full  BY <1>7 DEF Scroll, history
  <2>3. HistorySeq' = HistorySeq  BY <1>1, <1>4, <1>7, <2>2, HistoryKept
  <2>4. T!Recorded(Scr, s, e, n) = T!Newest(Pushed(n))
    BY <1>7 DEF T!Recorded, Pushed
  <2>5. HistorySeq \in Seq(Content) /\ Len(HistorySeq) = 0
    BY <1>1, <2>1, HistoryIsSeq, RingTypes DEF Total
  <2>6. T!Newest(Pushed(n)) \in Seq(Content) /\ Len(T!Newest(Pushed(n))) = 0
    <3> DEFINE h == Pushed(n)
    <3>1. h \in Seq(Content) /\ Len(h) \in Nat /\ Len(h) > H
      BY <1>1, <2>1, PushedIsSeq, RingTypes
    <3> HIDE DEF h
    <3>2. 0 \in Nat /\ 0 = IF Len(h) > H THEN H ELSE Len(h)  BY <2>1, <3>1
    <3>3. T!Newest(h) \in Seq(Content) /\ Len(T!Newest(h)) = 0
      BY <2>1, <3>1, <3>2, NewestOf
    <3>. QED  BY <3>3 DEF h
  <2>7. HistorySeq = T!Newest(Pushed(n))  BY <2>5, <2>6, SeqEqual
  <2>. QED  BY <1>3, <2>3, <2>4, <2>7
<1>. QED  BY <1>5, <1>6, <1>7

-----------------------------------------------------------------------------
(* Initial states and steps                                                *)

\* get_line finds the rows the abstract terminal shows.
LEMMA SeenMaps ==
  ASSUME LinesFit, TypeInv, NEW v \in 0 .. Total
  PROVE  Seen(v) = T!Seen(Scr, HistorySeq, v)
<1>1. /\ Total \in 0 .. H /\ Oldest \in Nat /\ T!Rows = Rows
      /\ \A r \in Rows : Scr[r] = text[lines[r]]
  BY RingTypes DEF T!Rows, Rows
<1>2. /\ Len(HistorySeq) = Total
      /\ \A i \in 1 .. Total : HistorySeq[i] = text[(Oldest + i - 1) % H]
  BY HistoryIsSeq
<1>3. ASSUME NEW r \in Rows
      PROVE  Seen(v)[r] = IF v + r < Total THEN HistorySeq[v + r + 1] ELSE Scr[(v + r) - Total]
  <2>1. v + r \in 0 .. U16 - 1 /\ v \in Nat /\ r \in Nat
    BY <1>1, Constants DEF LinesFit, Rows
  <2>2. (v + r) % U16 = v + r  BY <2>1, Constants
  <2>3. Seen(v)[r] = text[GetLine(v, r)]  BY DEF Seen
  <2>4. CASE v + r >= Total
    <3>1. (v + r) - Total \in Rows  BY <1>1, <2>1, <2>4, Constants DEF Rows
    <3>2. GetLine(v, r) = lines[(v + r) - Total]  BY <2>2, <2>4 DEF GetLine
    <3>. QED  BY <1>1, <2>1, <2>3, <2>4, <3>1, <3>2
  <2>5. CASE v + r < Total
    <3>1. v + r + 1 \in 1 .. Total /\ Oldest + (v + r) = Oldest + (v + r + 1) - 1
      BY <1>1, <2>1, <2>5
    <3>2. HistorySeq[v + r + 1] = text[(Oldest + (v + r + 1) - 1) % H]  BY <1>2, <3>1
    <3>3. GetLine(v, r) = (Oldest + (v + r)) % H
      <4>1. ~ (v + r >= Total)  BY <1>1, <2>1, <2>5
      <4> DEFINE oldest == IF full THEN save ELSE 0
      <4>2. GetLine(v, r) = (oldest + (v + r)) % H
        <5> HIDE DEF oldest
        <5>1. GetLine(v, r) = LET line == (v + r) % U16
                              IN  IF line >= Total THEN lines[line - Total]
                                                   ELSE (oldest + line) % H
          BY DEF GetLine, oldest
        <5>. QED  BY <2>2, <4>1, <5>1
      <4>3. oldest = Oldest  BY DEF Oldest
      <4> HIDE DEF oldest
      <4>. QED  BY <4>2, <4>3
    <3>. QED  BY <1>1, <2>1, <2>3, <2>5, <3>1, <3>2, <3>3
  <2>. QED  BY <1>1, <2>1, <2>4, <2>5
<1>4. \A r \in Rows : v + r - Total = (v + r) - Total  BY <1>1 DEF Rows
<1>5. T!Seen(Scr, HistorySeq, v)
        = [r \in Rows |-> IF v + r < Total THEN HistorySeq[v + r + 1] ELSE Scr[v + r - Total]]
  BY <1>1, <1>2 DEF T!Seen
<1>6. \A r \in Rows : Seen(v)[r] = T!Seen(Scr, HistorySeq, v)[r]  BY <1>3, <1>4, <1>5
<1>7. Seen(v) = [r \in Rows |-> Seen(v)[r]]  BY DEF Seen
<1>. QED  BY <1>5, <1>6, <1>7

\* A window starts as an empty terminal.
LEMMA InitMaps == LinesFit /\ Init => T!TInit
<1> SUFFICES ASSUME LinesFit, Init  PROVE T!TInit
  OBVIOUS
<1>1. \A r \in Rows : text[lines[r]] = Blank
  <2>1. TypeInv /\ LinesApart  BY TypeInit, LinesInit
  <2>2. \A r \in Rows : lines[r] \in Memory /\ ~ (lines[r] < H)
    BY <2>1, Constants DEF TypeInv, LinesInMemory, LinesApart
  <2>3. PICK old \in [0 .. H - 1 -> Content] :
               text = [k \in Memory |-> IF k < H THEN old[k] ELSE Blank]
    BY DEF Init
  <2>. QED  BY <2>2, <2>3
<1>2. HistorySeq = << >>
  <2>1. Total = 0  BY DEF Init, Total
  <2>. QED  BY <2>1 DEF HistorySeq
<1>3. T!Rows = Rows  BY DEF T!Rows, Rows
<1>. QED  BY <1>1, <1>2, <1>3 DEF Init, T!TInit

\* An operation on the screen of a window that is processing output.
LEMMA EditMaps ==
  ASSUME Inv, Inv', busy, UNCHANGED <<margins, on, busy, fb>>,
         \/ T!TLineFeed
         \/ T!TReverseFeed
         \/ \E y \in Rows : T!TMoveCursor(y)
         \/ \E c \in Content : T!TChange(c) \/ T!TFill(c)
         \/ \E n \in (-N) .. N : n # 0 /\ T!TShiftLines(n)
         \/ \E part \in {"below", "above", "all"}, c \in Content : T!TErase(part, c)
         \/ \E c, d \in Content : T!TWrap(c, d)
  PROVE  T!TNext
<1>1. view' = Len(HistorySeq')
  <2>1. busy'  OBVIOUS
  <2>2. view' = Total'  BY <2>1 DEF Inv, DisplayInv
  <2>3. (TypeInv => /\ HistorySeq \in Seq(Content) /\ Len(HistorySeq) = Total
                    /\ \A i \in 1 .. Total : HistorySeq[i] = text[(Oldest + i - 1) % H])'
    BY HistoryIsSeq, PTL
  <2>. QED  BY <2>2, <2>3 DEF Inv
<1>2. T!Rows = Rows  BY DEF T!Rows, Rows
<1>3. Shown' = Shown /\ top' = top /\ bot' = bot /\ on' = on /\ busy' = busy
  BY DEF Shown, margins
<1>4. T!TEdit
  BY <1>1, <1>2, <1>3 DEF T!TEdit, Shown
<1>. QED  BY <1>4 DEF T!TNext

\* Writing changes the rows that have the lines written, and no history.
LEMMA WriteMaps ==
  ASSUME Inv, UNCHANGED <<lines, save, full>>,
         \A k \in Memory : text'[k] = text[k] \/ \E r \in Rows : k = lines[r]
  PROVE  HistorySeq' = HistorySeq /\ Scr' = [r \in Rows |-> text'[lines[r]]]
<1>1. TypeInv /\ \A r \in Rows : ~ (lines[r] < H)
  BY Constants DEF Inv, TypeInv, TypeOK, LinesApart
<1>2. \A k \in 0 .. H - 1 : k \in Memory /\ k < H  BY Constants DEF Memory
<1>3. \A k \in 0 .. H - 1 : text'[k] = text[k]  BY <1>1, <1>2
<1>4. HistorySeq' = HistorySeq  BY <1>1, <1>3, HistoryKept
<1>. QED  BY <1>4 DEF Scr

\* Two rows have two lines, in the memory.
LEMMA RowLines ==
  ASSUME Inv
  PROVE  /\ \A r \in Rows : lines[r] \in Memory
         /\ \A r, q \in Rows : lines[r] = lines[q] => r = q
         /\ text \in [Memory -> Content]
         /\ Scr = [r \in Rows |-> text[lines[r]]] /\ T!Rows = Rows
  BY DEF Inv, TypeInv, TypeOK, LinesInMemory, LinesApart, Scr, T!Rows, Rows

\* A scroll that writes nothing besides.
LEMMA ScrollRegionMaps ==
  ASSUME Inv, Inv', NEW s \in 0 .. N, NEW e \in Rows, NEW n \in (-N) .. N, n # 0,
         ScrollRegion(s, e, n), Turns(s, e, n) \/ s >= e, cy' = cy
  PROVE  T!TScroll(Scr, s, e, n)
<1>1. /\ Scroll(text, s, e, n) /\ text' = ScrolledText(text, s, e, n) /\ TypeInv'
  BY DEF ScrollRegion, Inv
<1>2. /\ HistorySeq' = T!Recorded(Scr, s, e, n)
      /\ \A r \in Rows : text'[lines'[r]] = T!Shifted(Scr, s, e, n)[r]
  BY <1>1, ScrollMaps
<1>3. Scr' = [r \in Rows |-> text'[lines'[r]]]  BY DEF Scr
<1>4. Scr' = T!Shifted(Scr, s, e, n)
  <2>1. T!Shifted(Scr, s, e, n) = [r \in Rows |-> T!Shifted(Scr, s, e, n)[r]]
    BY RowLines DEF T!Shifted
  <2>. QED  BY <1>2, <1>3, <2>1
<1>. QED  BY <1>2, <1>4 DEF T!TScroll, Scr

\* lf and reverse lf.
LEMMA LineFeedMaps ==
  ASSUME Inv, Inv', LineFeed \/ ReverseFeed
  PROVE  T!TNext
<1>0. /\ top \in 0 .. N /\ bot \in Rows /\ top \in Nat /\ bot \in Nat
      /\ 1 \in (-N) .. N /\ -1 \in (-N) .. N
  BY VarTypes, Constants DEF Inv
<1>1. CASE LineFeed
  <2>1. T!TLineFeed
    <3>1. CASE cy < bot
      <4>1. UNCHANGED <<text, lines, save, full>> /\ cy' = cy + 1
        BY <1>1, <3>1 DEF LineFeed, history
      <4>2. HistorySeq' = HistorySeq /\ Scr' = Scr
        BY <4>1 DEF HistorySeq, Total, Scr
      <4>. QED  BY <3>1, <4>1, <4>2 DEF T!TLineFeed, Scr
    <3>2. CASE ~ (cy < bot)
      <4>1. ScrollRegion(top, bot, 1) /\ cy' = cy  BY <1>1, <3>2 DEF LineFeed
      <4>2. Turns(top, bot, 1) \/ top >= bot  BY <1>0 DEF Turns, Abs
      <4>3. T!TScroll(Scr, top, bot, 1)  BY <1>0, <4>1, <4>2, ScrollRegionMaps
      <4>. QED  BY <3>2, <4>3 DEF T!TLineFeed, Scr
    <3>. QED  BY <3>1, <3>2
  <2>2. busy /\ UNCHANGED <<margins, on, busy, fb>>  BY <1>1 DEF LineFeed
  <2>. QED  BY <2>1, <2>2, EditMaps
<1>2. CASE ReverseFeed
  <2>1. T!TReverseFeed
    <3>1. CASE cy > top
      <4>1. UNCHANGED <<text, lines, save, full>> /\ cy' = cy - 1
        BY <1>2, <3>1 DEF ReverseFeed, history
      <4>2. HistorySeq' = HistorySeq /\ Scr' = Scr
        BY <4>1 DEF HistorySeq, Total, Scr
      <4>. QED  BY <3>1, <4>1, <4>2 DEF T!TReverseFeed, Scr
    <3>2. CASE ~ (cy > top)
      <4>1. ScrollRegion(top, bot, -1) /\ cy' = cy  BY <1>2, <3>2 DEF ReverseFeed
      <4>2. Turns(top, bot, -1) \/ top >= bot  BY <1>0 DEF Turns, Abs
      <4>3. T!TScroll(Scr, top, bot, -1)  BY <1>0, <4>1, <4>2, ScrollRegionMaps
      <4>. QED  BY <3>2, <4>3 DEF T!TReverseFeed, Scr
    <3>. QED  BY <3>1, <3>2
  <2>2. busy /\ UNCHANGED <<margins, on, busy, fb>>  BY <1>2 DEF ReverseFeed
  <2>. QED  BY <2>1, <2>2, EditMaps
<1>. QED  BY <1>1, <1>2

\* A character in the row of the cursor.
LEMMA ChangeLineMaps ==
  ASSUME Inv, Inv', NEW c \in Content, ChangeLine(c)
  PROVE  T!TNext
<1>1. cy \in Rows  BY VarTypes DEF Inv
<1>2. text' = [text EXCEPT ![lines[cy]] = c] /\ UNCHANGED <<lines, save, full>> /\ cy' = cy
  BY DEF ChangeLine, history
<1>3. HistorySeq' = HistorySeq /\ Scr' = [r \in Rows |-> text'[lines[r]]]
  <2>1. \A k \in Memory : text'[k] = text[k] \/ \E r \in Rows : k = lines[r]
    BY <1>1, <1>2, RowLines
  <2>. QED  BY <1>2, <2>1, WriteMaps
<1>4. Scr' = [Scr EXCEPT ![cy] = c]
  BY <1>1, <1>2, <1>3, RowLines
<1>5. T!TChange(c)  BY <1>2, <1>3, <1>4 DEF T!TChange, Scr
<1>6. busy /\ UNCHANGED <<margins, on, busy, fb>>  BY DEF ChangeLine
<1>. QED  BY <1>5, <1>6, EditMaps

\* A character that does not fit, in the next row or after a scroll.
LEMMA WrapCharMaps ==
  ASSUME ~ WideChars, Inv, Inv', NEW c \in Content, NEW d \in Content, WrapChar(c, d)
  PROVE  T!TNext
<1>0. /\ top \in 0 .. N /\ bot \in Rows /\ top \in Nat /\ bot \in Nat /\ cy \in Rows
      /\ 1 \in (-N) .. N /\ cy \in Nat
  BY VarTypes, Constants DEF Inv
<1> DEFINE left == [text EXCEPT ![lines[cy]] = d]
<1>1. d = text[lines[cy]]  BY DEF WrapChar
<1>2. left = text  BY <1>1, RowLines
<1>3. [Scr EXCEPT ![cy] = d] = Scr  BY <1>0, <1>1, RowLines
<1>4. busy /\ UNCHANGED <<margins, on, busy, fb>>  BY DEF WrapChar
<1>5. T!TWrap(c, d)
  <2>1. CASE cy < bot
    <3>1. text' = [left EXCEPT ![lines[cy + 1]] = c]
      BY <2>1 DEF WrapChar
    <3>2. UNCHANGED <<lines, save, full>> /\ cy' = cy + 1
      BY <2>1 DEF WrapChar, history
    <3>3. cy + 1 \in Rows  BY <1>0, <2>1, Constants DEF Rows
    <3> HIDE DEF left
    <3>4. text' = [text EXCEPT ![lines[cy + 1]] = c]  BY <1>2, <3>1
    <3>5. \A k \in Memory : text'[k] = text[k] \/ \E r \in Rows : k = lines[r]
      BY <3>3, <3>4, RowLines
    <3>6. HistorySeq' = HistorySeq /\ Scr' = [r \in Rows |-> text'[lines[r]]]
      BY <3>2, <3>5, WriteMaps
    <3>7. Scr' = [Scr EXCEPT ![cy + 1] = c]
      BY <3>3, <3>4, <3>6, RowLines
    <3>8. Scr' = [[Scr EXCEPT ![cy] = d] EXCEPT ![cy + 1] = c]  BY <1>3, <3>7
    <3>. QED  BY <2>1, <3>2, <3>6, <3>8 DEF T!TWrap, Scr
  <2>2. CASE ~ (cy < bot)
    <3>1. /\ Scroll(left, top, bot, 1)
          /\ text' = [ScrolledText(left, top, bot, 1) EXCEPT ![lines'[cy]] = c]
          /\ cy' = cy
      BY <2>2 DEF WrapChar
    <3> HIDE DEF left
    <3>2. text' = [ScrolledText(text, top, bot, 1) EXCEPT ![lines'[cy]] = c]
      BY <1>2, <3>1
    <3>3. Scroll(text, top, bot, 1)  BY <1>2, <3>1
    <3>4. Turns(top, bot, 1) \/ top >= bot  BY <1>0 DEF Turns, Abs
    <3>5. TypeInv /\ TypeInv' /\ LinesApart'  BY DEF Inv
    <3>6. /\ \A r \in Rows : lines'[r] \in Memory /\ ~ (lines'[r] < H)
          /\ \A r, q \in Rows : lines'[r] = lines'[q] => r = q
      BY <3>5, Constants DEF TypeInv, LinesInMemory, LinesApart
    <3>7. \A k \in 0 .. H - 1 : text'[k] = ScrolledText(text, top, bot, 1)[k]
      <4>1. \A k \in 0 .. H - 1 : k # lines'[cy]  BY <1>0, <3>6, Constants
      <4>2. ScrolledText(text, top, bot, 1) \in [Memory -> Content]
        BY <1>0, <3>3, <3>5, RowLines, ScrollType
      <4>. QED  BY <3>2, <4>1, <4>2
    <3>8. /\ HistorySeq' = T!Recorded(Scr, top, bot, 1)
          /\ \A r \in Rows :
               ScrolledText(text, top, bot, 1)[lines'[r]] = T!Shifted(Scr, top, bot, 1)[r]
      BY <1>0, <3>3, <3>4, <3>5, <3>7, ScrollMaps
    <3>9. Scr' = [T!Shifted(Scr, top, bot, 1) EXCEPT ![cy] = c]
      <4>1. Scr' = [r \in Rows |-> text'[lines'[r]]]  BY DEF Scr
      <4>2. T!Shifted(Scr, top, bot, 1) = [r \in Rows |-> T!Shifted(Scr, top, bot, 1)[r]]
        BY RowLines DEF T!Shifted
      <4>3. ScrolledText(text, top, bot, 1) \in [Memory -> Content]
        BY <1>0, <3>3, <3>5, RowLines, ScrollType
      <4>4. \A r \in Rows : text'[lines'[r]] =
              IF r = cy THEN c ELSE ScrolledText(text, top, bot, 1)[lines'[r]]
        BY <1>0, <3>2, <3>6, <4>3
      <4>. QED  BY <1>0, <3>8, <4>1, <4>2, <4>4
    <3>10. Scr' = [T!Shifted([Scr EXCEPT ![cy] = d], top, bot, 1) EXCEPT ![cy] = c]
           /\ HistorySeq' = T!Recorded([Scr EXCEPT ![cy] = d], top, bot, 1)
      BY <1>3, <3>8, <3>9
    <3>. QED  BY <2>2, <3>1, <3>10 DEF T!TWrap, Scr
  <2>. QED  BY <2>1, <2>2
<1>. QED  BY <1>4, <1>5, EditMaps

\* Clearing and filling whole rows.
LEMMA ClearMaps ==
  ASSUME Inv, NEW rs \in SUBSET Rows
  PROVE  /\ \A k \in Memory : Clear(rs)[k] = text[k] \/ \E r \in Rows : k = lines[r]
         /\ Clear(rs) \in [Memory -> Content]
         /\ \A r \in Rows : Clear(rs)[lines[r]] = IF r \in rs THEN Blank ELSE Scr[r]
<1>1. Clear(rs) \in [Memory -> Content]  BY RowLines, Constants DEF Clear
<1>2. ASSUME NEW r \in Rows
      PROVE  Clear(rs)[lines[r]] = IF r \in rs THEN Blank ELSE Scr[r]
  <2>1. lines[r] \in {lines[q] : q \in rs} <=> r \in rs
    <3>1. \A q \in rs : lines[q] = lines[r] => q = r  BY RowLines
    <3>. QED  BY <3>1
  <2>. QED  BY <2>1, RowLines DEF Clear
<1>. QED  BY <1>1, <1>2 DEF Clear

\* Erasing part of the display is an edit.
LEMMA EraseDisplayMaps ==
  ASSUME Inv, Inv', NEW part \in {"below", "above", "all"}, NEW c \in Content,
         EraseDisplay(part, c)
  PROVE  T!TNext
<1> DEFINE rs == CASE part = "below" -> {r \in Rows : r > cy}
                   [] part = "above" -> {r \in Rows : r < cy}
                   [] part = "all" -> Rows
<1>1. /\ text' = IF part = "all" THEN Clear(rs) ELSE [Clear(rs) EXCEPT ![lines[cy]] = c]
      /\ UNCHANGED <<lines, save, full>> /\ cy' = cy
      /\ busy /\ UNCHANGED <<margins, on, busy, fb>>
  BY DEF EraseDisplay, history
<1>2. rs \in SUBSET Rows /\ \A r \in Rows :
        r \in rs <=> part = "all" \/ (part = "below" /\ r > cy) \/ (part = "above" /\ r < cy)
  OBVIOUS
<1> HIDE DEF rs
<1>3. cy \in Rows /\ cy \in Nat /\ \A r \in Rows : r \in Nat
  BY VarTypes, Constants DEF Inv, Rows
<1>4. /\ \A k \in Memory : Clear(rs)[k] = text[k] \/ \E r \in Rows : k = lines[r]
      /\ Clear(rs) \in [Memory -> Content]
      /\ \A r \in Rows : Clear(rs)[lines[r]] = IF r \in rs THEN Blank ELSE Scr[r]
  BY <1>2, ClearMaps
<1>5. \A k \in Memory : text'[k] = text[k] \/ \E r \in Rows : k = lines[r]
  BY <1>1, <1>3, <1>4
<1>6. HistorySeq' = HistorySeq /\ Scr' = [r \in Rows |-> text'[lines[r]]]
  BY <1>1, <1>5, WriteMaps
<1>7. \A r \in Rows : text'[lines[r]] =
        IF r \in rs THEN Blank ELSE IF r = cy THEN c ELSE Scr[r]
  <2>1. CASE part = "all"  BY <1>1, <1>2, <1>4, <2>1
  <2>2. CASE part # "all"
    <3>1. cy \notin rs  BY <1>2, <1>3, <2>2
    <3>. QED  BY <1>1, <1>3, <1>4, <2>2, <3>1, RowLines
  <2>. QED  BY <2>1, <2>2
<1>8. Scr' = [r \in Rows |->
                IF part = "all" \/ (part = "below" /\ r > cy) \/ (part = "above" /\ r < cy)
                THEN Blank ELSE IF r = cy THEN c ELSE Scr[r]]
  BY <1>2, <1>6, <1>7
<1>9. T!TErase(part, c)
  BY <1>1, <1>6, <1>8, RowLines DEF T!TErase, Scr
<1>. QED  BY <1>1, <1>9, EditMaps

\* Filling the screen is an edit.
LEMMA ScreenAlignMaps ==
  ASSUME Inv, Inv', NEW c \in Content, ScreenAlign(c)
  PROVE  T!TNext
<1>1. /\ text' = [k \in Memory |-> IF k \in {lines[r] : r \in Rows} THEN c ELSE text[k]]
      /\ UNCHANGED <<lines, save, full>> /\ cy' = cy
      /\ busy /\ UNCHANGED <<margins, on, busy, fb>>
  BY DEF ScreenAlign, history
<1>2. \A k \in Memory : text'[k] = text[k] \/ \E r \in Rows : k = lines[r]
  BY <1>1
<1>3. HistorySeq' = HistorySeq /\ Scr' = [r \in Rows |-> text'[lines[r]]]
  BY <1>1, <1>2, WriteMaps
<1>4. Scr' = [r \in Rows |-> c]  BY <1>1, <1>3, RowLines
<1>5. T!TFill(c)  BY <1>1, <1>3, <1>4, RowLines DEF T!TFill, Scr
<1>. QED  BY <1>1, <1>5, EditMaps

\* delete_line and insert_line.
LEMMA ShiftLinesMaps ==
  ASSUME Inv, Inv', NEW n \in (-N) .. N, n # 0, ShiftLines(n)
  PROVE  T!TNext
<1> DEFINE mx == (bot - cy + 1) % U16
<1>0. /\ bot \in Rows /\ bot \in Nat /\ cy \in Rows /\ cy \in Nat /\ cy \in 0 .. N
      /\ bot < N /\ cy < N /\ n \in Int
  BY VarTypes, Constants DEF Inv, Rows
<1>1. busy /\ UNCHANGED <<margins, cy, on, busy, fb>>  BY DEF ShiftLines
<1>2. cy <= bot => mx = bot - cy + 1
  <2>1. cy <= bot => bot - cy + 1 \in 0 .. U16 - 1  BY <1>0, Constants
  <2>. QED  BY <2>1, Constants
<1>3. T!TShiftLines(n)
  <2>1. CASE Abs(n) >= mx
    <3> DEFINE rs == cy .. bot
    <3>1. text' = Clear(rs) /\ UNCHANGED <<lines, save, full>>
      BY <2>1 DEF ShiftLines, history
    <3>2. rs \in SUBSET Rows  BY <1>0, Constants DEF Rows
    <3>3. /\ \A k \in Memory : text'[k] = text[k] \/ \E r \in Rows : k = lines[r]
          /\ \A r \in Rows : text'[lines[r]] = IF r \in rs THEN Blank ELSE Scr[r]
      <4> HIDE DEF rs
      <4>. QED  BY <3>1, <3>2, ClearMaps
    <3>4. HistorySeq' = HistorySeq /\ Scr' = [r \in Rows |-> text'[lines[r]]]
      BY <3>1, <3>3, WriteMaps
    <3>5. Scr' = [r \in Rows |-> IF r \in cy .. bot THEN Blank ELSE Scr[r]]
      BY <3>3, <3>4
    <3>6. n \notin (cy - bot) .. (bot - cy)
      <4>1. CASE cy <= bot
        <5>1. Abs(n) >= bot - cy + 1  BY <1>2, <2>1, <4>1
        <5>. QED  BY <1>0, <5>1 DEF Abs
      <4>2. CASE ~ (cy <= bot)  BY <1>0, <4>2
      <4>. QED  BY <4>1, <4>2
    <3>. QED  BY <1>1, <3>4, <3>5, <3>6, RowLines DEF T!TShiftLines, Scr
  <2>2. CASE ~ (Abs(n) >= mx)
    <3>1. ScrollRegion(cy, bot, n)  BY <2>2 DEF ShiftLines
    <3>2. CASE cy <= bot
      <4>1. ~ (Abs(n) >= bot - cy + 1)  BY <1>2, <2>2, <3>2
      <4>2. n \in (cy - bot) .. (bot - cy) /\ Turns(cy, bot, n)
        BY <1>0, <3>2, <4>1 DEF Abs, Turns
      <4>3. T!TScroll(Scr, cy, bot, n)
        BY <1>0, <1>1, <3>1, <4>2, ScrollRegionMaps
      <4>. QED  BY <4>2, <4>3 DEF T!TShiftLines, Scr
    <3>3. CASE ~ (cy <= bot)
      <4>1. n \notin (cy - bot) .. (bot - cy) /\ cy .. bot = {} /\ cy >= bot
        BY <1>0, <3>3
      <4>2. ~ Turns(cy, bot, n) /\ ~ Records(cy, bot, n)
        BY <1>0, <3>3 DEF Turns, Records
      <4>3. UNCHANGED <<text, lines, save, full>>
        BY <3>1, <4>2 DEF ScrollRegion, Scroll, ScrolledText, ScrolledLines, history
      <4>4. HistorySeq' = HistorySeq /\ Scr' = Scr
        BY <4>3 DEF HistorySeq, Total, Scr
      <4>5. Scr = [r \in Rows |-> IF r \in cy .. bot THEN Blank ELSE Scr[r]]
        BY <4>1, RowLines
      <4>. QED  BY <1>1, <4>1, <4>4, <4>5, RowLines DEF T!TShiftLines, Scr
    <3>. QED  BY <3>2, <3>3
  <2>. QED  BY <2>1, <2>2
<1>. QED  BY <1>1, <1>3, EditMaps

\* Moving the cursor.
LEMMA MoveCursorMaps ==
  ASSUME Inv, Inv', NEW y \in Rows, MoveCursor(y)
  PROVE  T!TNext
<1>1. /\ UNCHANGED <<text, lines, save, full>> /\ cy' = y
      /\ busy /\ UNCHANGED <<margins, on, busy, fb>>
  BY DEF MoveCursor, history
<1>2. HistorySeq' = HistorySeq /\ Scr' = Scr
  BY <1>1 DEF HistorySeq, Total, Scr
<1>3. T!TMoveCursor(y)  BY <1>1, <1>2 DEF T!TMoveCursor, Scr
<1>. QED  BY <1>1, <1>3, EditMaps

\* The scrolling region, and reset.
LEMMA SetMarginsMaps ==
  ASSUME Inv, Inv', NEW t \in 0 .. N, NEW b \in Rows, SetMargins(t, b)
  PROVE  T!TNext
<1>1. UNCHANGED <<text, lines, save, full, view, on, busy>> /\ busy /\ top' = t /\ bot' = b
  BY DEF SetMargins, history
<1>2. HistorySeq' = HistorySeq /\ Scr' = Scr
  BY <1>1 DEF HistorySeq, Total, Scr
<1>3. Shown' = Shown  BY <1>1 DEF Shown
<1>4. cy' = T!Clamped(cy, t, b)
  <2>1. b < N /\ b \in Nat /\ t \in Nat /\ cy \in Nat /\ N \in Nat
    BY VarTypes, Constants DEF Inv, Rows
  <2>2. OnScreen(b) = b  BY <2>1 DEF OnScreen
  <2>. QED  BY <2>1, <2>2 DEF SetMargins, OnScreen, T!Clamped
<1>5. T!TSetMargins
  BY <1>1, <1>2, <1>3, <1>4, RowLines DEF T!TSetMargins, Scr, Shown
<1>. QED  BY <1>5 DEF T!TNext

\* ESC c: the rows are blank and the margins wide.
LEMMA ResetMaps ==
  ASSUME Inv, Inv', Reset
  PROVE  T!TNext
<1>1. /\ UNCHANGED <<lines, save, full, view, on, busy>> /\ busy /\ text' = Clear(Rows)
      /\ top' = 0 /\ bot' = N - 1 /\ cy' = 0
  BY DEF Reset, history
<1>2. /\ \A k \in Memory : text'[k] = text[k] \/ \E r \in Rows : k = lines[r]
      /\ \A r \in Rows : text'[lines[r]] = Blank
  BY <1>1, ClearMaps
<1>3. HistorySeq' = HistorySeq /\ Scr' = [r \in Rows |-> text'[lines[r]]]
  BY <1>1, <1>2, WriteMaps
<1>4. Scr' = [r \in Rows |-> Blank]  BY <1>2, <1>3
<1>5. Shown' = Shown  BY <1>1 DEF Shown
<1>6. T!TReset
  BY <1>1, <1>3, <1>4, <1>5, RowLines DEF T!TReset, Scr, Shown
<1>. QED  BY <1>6 DEF T!TNext

\* What changes no line of the window shows what the window holds: between two
\* bursts of output the display of the active window is that of the terminal.
LEMMA KeptShown ==
  ASSUME LinesFit, Inv, Inv', UNCHANGED <<text, lines, save, full>>
  PROVE  /\ HistorySeq' = HistorySeq /\ Scr' = Scr
         /\ Len(HistorySeq) = Total /\ view' \in 0 .. Total
         /\ Shown' = IF on' /\ ~ busy' THEN T!Seen(Scr, HistorySeq, view') ELSE Unseen
<1>1. HistorySeq' = HistorySeq /\ Scr' = Scr /\ Total' = Total
  BY DEF HistorySeq, Total, Scr
<1>2. Len(HistorySeq) = Total  BY HistoryIsSeq DEF Inv
<1>3. view' \in 0 .. Total
  <2>1. (TypeInv => view \in 0 .. Total)'  BY VarTypes, PTL
  <2>. QED  BY <1>1, <2>1 DEF Inv
<1>4. Seen(view)' = Seen(view')  BY <1>1 DEF Seen, GetLine
<1>5. on' /\ ~ busy' => fb' = T!Seen(Scr, HistorySeq, view')
  <2>1. on' /\ ~ busy' => fb' = Seen(view')  BY <1>4 DEF Inv, DisplayInv
  <2>2. Seen(view') = T!Seen(Scr, HistorySeq, view')  BY <1>3, SeenMaps DEF Inv
  <2>. QED  BY <2>1, <2>2
<1>6. Shown' = IF on' /\ ~ busy' THEN fb' ELSE Unseen  BY DEF Shown
<1>. QED  BY <1>1, <1>2, <1>3, <1>5, <1>6

\* The two ends of a burst of output.
LEMMA BeginInputMaps ==
  ASSUME LinesFit, Inv, Inv', BeginInput
  PROVE  T!TNext
<1>1. /\ ~ busy /\ busy' = TRUE /\ UNCHANGED <<text, lines, save, full, top, bot, cy, on>>
  BY DEF BeginInput, margins
<1>2. /\ HistorySeq' = HistorySeq /\ Scr' = Scr /\ Len(HistorySeq) = Total
      /\ Shown' = Unseen
  BY <1>1, KeptShown
<1>3. view' = Total
  <2>1. view' = Total' /\ Total' = Total  BY <1>1 DEF Inv, DisplayInv, Total
  <2>. QED  BY <2>1
<1>4. T!TBeginInput  BY <1>1, <1>2, <1>3 DEF T!TBeginInput, Scr, Shown
<1>. QED  BY <1>4 DEF T!TNext

\* The end shows what the window holds.
LEMMA EndInputMaps ==
  ASSUME LinesFit, Inv, Inv', EndInput
  PROVE  T!TNext
<1>1. /\ busy /\ busy' = FALSE
      /\ UNCHANGED <<text, lines, save, full, view, top, bot, cy, on>>
  BY DEF EndInput, history, margins
<1>2. /\ HistorySeq' = HistorySeq /\ Scr' = Scr
      /\ Shown' = IF on THEN T!Seen(Scr, HistorySeq, view) ELSE Unseen
  BY <1>1, KeptShown
<1>3. T!TEndInput
  BY <1>1, <1>2 DEF T!TEndInput, T!Display, Scr, Shown
<1>. QED  BY <1>3 DEF T!TNext

\* The user, and the window that comes to the front or leaves it.
LEMMA HistoryScrollMaps ==
  ASSUME LinesFit, Inv, Inv', NEW n \in {-N, N}, HistoryScroll(n)
  PROVE  T!TNext
<1>1. ~ busy /\ on /\ UNCHANGED <<text, lines, save, full, top, bot, cy, on, busy>>
  BY DEF HistoryScroll, margins
<1>2. /\ HistorySeq' = HistorySeq /\ Scr' = Scr
      /\ Len(HistorySeq) = Total /\ view' \in 0 .. Total
      /\ Shown' = T!Seen(Scr, HistorySeq, view')
  BY <1>1, KeptShown
<1>3. T!THistory
  BY <1>1, <1>2 DEF T!THistory, T!Display, Scr, Shown
<1>. QED  BY <1>3 DEF T!TNext

\* So does a window that comes to the front; one that leaves shows nothing.
LEMMA ActivateMaps ==
  ASSUME LinesFit, Inv, Inv', Activate \/ Deactivate
  PROVE  T!TNext
<1>1. /\ ~ busy /\ UNCHANGED <<text, lines, save, full, view, top, bot, cy, busy>>
      /\ \/ ~ on /\ on' = TRUE
         \/ on /\ on' = FALSE
  BY DEF Activate, Deactivate, history, margins
<1>2. /\ HistorySeq' = HistorySeq /\ Scr' = Scr
      /\ Shown' = IF on' THEN T!Seen(Scr, HistorySeq, view) ELSE Unseen
  BY <1>1, KeptShown
<1>3. T!TActivate \/ T!TDeactivate
  BY <1>1, <1>2 DEF T!TActivate, T!TDeactivate, Scr, Shown
<1>. QED  BY <1>3 DEF T!TNext

-----------------------------------------------------------------------------
(* The refinement                                                          *)

\* A step that leaves the window alone leaves the terminal alone.
LEMMA StutterMaps ==
  UNCHANGED vars => UNCHANGED T!tvars
  BY DEF vars, T!tvars, history, margins, HistorySeq, Total, Scr, Shown

\* Every step of VTerm is one of the terminal.
LEMMA NextMaps ==
  LinesFit /\ ~ WideChars /\ Inv /\ Inv' /\ [Next]_vars => [T!TNext]_(T!tvars)
<1> SUFFICES ASSUME LinesFit, ~ WideChars, Inv, Inv', [Next]_vars
             PROVE  [T!TNext]_(T!tvars)
  OBVIOUS
<1>1. CASE BeginInput  BY <1>1, BeginInputMaps
<1>2. CASE EndInput  BY <1>2, EndInputMaps
<1>3. CASE LineFeed \/ ReverseFeed  BY <1>3, LineFeedMaps
<1>4. CASE \E c \in Content : ChangeLine(c)  BY <1>4, ChangeLineMaps
<1>5. CASE \E c, d \in Content : WrapChar(c, d)  BY <1>5, WrapCharMaps
<1>6. CASE \E part \in {"below", "above", "all"}, c \in Content : EraseDisplay(part, c)
  BY <1>6, EraseDisplayMaps
<1>7. CASE \E c \in Content : ScreenAlign(c)  BY <1>7, ScreenAlignMaps
<1>8. CASE \E n \in (-N) .. N : n # 0 /\ ShiftLines(n)  BY <1>8, ShiftLinesMaps
<1>9. CASE \E y \in Rows : MoveCursor(y)  BY <1>9, MoveCursorMaps
<1>10. CASE \E t \in 0 .. N, b \in Rows : SetMargins(t, b)  BY <1>10, SetMarginsMaps
<1>11. CASE Reset  BY <1>11, ResetMaps
<1>12. CASE \E n \in {-N, N} : HistoryScroll(n)  BY <1>12, HistoryScrollMaps
<1>13. CASE Activate \/ Deactivate  BY <1>13, ActivateMaps
<1>14. CASE UNCHANGED vars  BY <1>14, StutterMaps
<1>. QED
  BY <1>1, <1>2, <1>3, <1>4, <1>5, <1>6, <1>7, <1>8, <1>9, <1>10, <1>11, <1>12,
     <1>13, <1>14 DEF Next

\* VTerm implements Terminal: linenumbers and the ring are the screen and the
\* history that the window promises, and what it owes the display is paid
\* when the output at hand is processed (scroll_region, update).
THEOREM RefinesTerminal ==
  ASSUME LinesFit, ~ WideChars
  PROVE  Spec => ImplementsTerminal
<1>1. Init => T!TInit  BY InitMaps
<1>2. Inv /\ Inv' /\ [Next]_vars => [T!TNext]_(T!tvars)  BY NextMaps
<1>3. Spec => []Inv  BY Invariance
<1>. QED  BY <1>1, <1>2, <1>3, PTL DEF Spec, ImplementsTerminal, T!TSpec
=============================================================================
