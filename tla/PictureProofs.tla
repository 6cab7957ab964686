---------------------------- MODULE PictureProofs ----------------------------
(***************************************************************************)
(* Machine-checked proofs about what a window shows.  First the mouse over *)
(* it, the selection and the pointer, for every size of the window and its *)
(* history and every set of lines whose double width characters are whole; *)
(* then one of its rows, column by column, with the cursor, for every      *)
(* width and whatever a program prints.                                    *)
(***************************************************************************)
EXTENDS Pointing, RowState, FiniteSetTheorems, TLAPS

\* The row that is printed to.
CONSTANTS Letters, Wides, Shapes, DefaultShape, MaxOps
Row == INSTANCE Cells

Ends == Positions \cup {0, U32 - 1}
Screens == [Memory -> [Cols -> BOOLEAN]]

TypeInv ==
  /\ text \in [Memory -> Lines]
  /\ rev \in Screens
  /\ view \in 0 .. K /\ at \in 0 .. K
  /\ sel \in [start : Ends, end : Ends, selecting : BOOLEAN, inversed : BOOLEAN]
  /\ pointer \in [drawed : BOOLEAN, at : Positions]
  /\ on \in BOOLEAN /\ lost \in BOOLEAN

\* What is being selected is shown as selected, and what is shown as selected
\* has its two ends on the screen.
SelectionInv ==
  /\ sel.selecting => sel.inversed
  /\ sel.inversed => {sel.start, sel.end} \subseteq Positions

\* OnlySelectionReversed, cell by cell.
ReversedInv ==
  ~ lost => \A l \in Memory, c \in Cols :
    rev[l][c] <=> sel.inversed /\ (l - at) * W + c \in Selected

\* A picture shows the text with its reversals, but for a pointer that may be
\* over some of the positions in over.
Shows(pic, over) ==
  \A p \in Positions :
    \/ pic.fb[p] = Pixels(CellAt(p), pic.rev[LineOf(p)][p % W])
    \/ p \in over /\ pic.fb[p] = Pixels(CellAt(p), ~ pic.rev[LineOf(p)][p % W])

UnderPointer == IF pointer.drawed THEN Span(pointer.at, pointer.at) ELSE {}
ShownInv == on /\ ~ lost => Shows(Now, UnderPointer)

IInv == TypeInv /\ SelectionInv /\ ReversedInv /\ ShownInv

-----------------------------------------------------------------------------
(* Positions, rows and columns                                             *)

\* Division with a positive divisor: the remainder is a column.
LEMMA Division ==
  ASSUME NEW p \in Int
  PROVE  /\ p \div W \in Int /\ p % W \in Cols
         /\ p = (p \div W) * W + (p % W)
  BY SizeAssumption DEF Cols

\* The quotient and the remainder are the only ones.
LEMMA DivisionUnique ==
  ASSUME NEW p \in Int, NEW r \in Int, NEW c \in Cols, p = r * W + c
  PROVE  p \div W = r /\ p % W = c
<1> DEFINE q == p \div W
<1> DEFINE m == p % W
<1>1. q \in Int /\ m \in Cols /\ p = q * W + m  BY Division
<1> HIDE DEF q, m
<1>2. (q - r) * W = c - m /\ c - m < W /\ c - m > - W
  <2>1. (q - r) * W = q * W - r * W  BY <1>1, SizeAssumption
  <2>. QED  BY <1>1, <2>1, SizeAssumption DEF Cols
<1>3. q = r
  <2>1. CASE q > r
    <3>1. (q - r) * W >= W  BY <1>1, <2>1, SizeAssumption
    <3>. QED  BY <1>1, <1>2, <3>1, SizeAssumption DEF Cols
  <2>2. CASE q < r
    <3>1. (r - q) * W >= W  BY <1>1, <2>2, SizeAssumption
    <3>2. (r - q) * W = - ((q - r) * W)  BY <1>1, SizeAssumption
    <3>. QED  BY <1>1, <1>2, <3>1, <3>2, SizeAssumption DEF Cols
  <2>. QED  BY <1>1, <2>1, <2>2
<1>4. m = c  BY <1>1, <1>3, SizeAssumption DEF Cols
<1>. QED  BY <1>3, <1>4 DEF q, m

\* A position is a row of the screen and a column of it.
LEMMA PositionCell ==
  ASSUME NEW p \in Positions
  PROVE  /\ p \in Nat /\ p < W * H
         /\ p \div W \in 0 .. H - 1 /\ p % W \in Cols
         /\ p = (p \div W) * W + (p % W)
<1> DEFINE r == p \div W
<1>1. p \in Nat /\ p < W * H  BY SizeAssumption DEF Positions
<1>2. r \in Int /\ p % W \in Cols /\ p = r * W + (p % W)  BY <1>1, Division
<1> HIDE DEF r
<1>3. r >= 0
  <2>1. CASE r <= -1
    <3>1. (- r) * W >= W  BY <1>2, <2>1, SizeAssumption
    <3>2. (- r) * W = - (r * W)  BY <1>2, SizeAssumption
    <3>. QED  BY <1>1, <1>2, <3>1, <3>2, SizeAssumption DEF Cols
  <2>. QED  BY <1>2, <2>1
<1>4. r <= H - 1
  <2>1. CASE r >= H
    <3>1. (r - H) * W >= 0  BY <1>2, <2>1, SizeAssumption
    <3>2. (r - H) * W = r * W - W * H  BY <1>2, SizeAssumption
    <3>. QED  BY <1>1, <1>2, <3>1, <3>2, SizeAssumption DEF Cols
  <2>. QED  BY <1>2, <2>1, SizeAssumption
<1>. QED  BY <1>1, <1>2, <1>3, <1>4 DEF r

\* A row of the screen and a column of it are a position.
LEMMA CellPosition ==
  ASSUME NEW r \in 0 .. H - 1, NEW c \in Cols
  PROVE  r * W + c \in Positions
<1>1. (H - 1 - r) * W >= 0 /\ r * W >= 0  BY SizeAssumption
<1>2. (H - 1 - r) * W = W * H - W - r * W  BY SizeAssumption
<1>. QED  BY <1>1, <1>2, SizeAssumption DEF Positions, Cols

\* What a position shows is a line of the memory, and its number can be had
\* back from the line and the column.
LEMMA ShownLine ==
  ASSUME NEW v \in 0 .. K, NEW p \in Positions
  PROVE  /\ v + p \div W \in Memory /\ p % W \in Cols
         /\ ((v + p \div W) - v) * W + (p % W) = p
<1> DEFINE r == p \div W
<1>1. r \in 0 .. H - 1 /\ p % W \in Cols /\ p = r * W + (p % W)  BY PositionCell
<1> HIDE DEF r
<1>2. v + r \in Memory  BY <1>1, SizeAssumption DEF Memory
<1>3. (v + r) - v = r  BY <1>1, SizeAssumption
<1>. QED  BY <1>1, <1>2, <1>3 DEF r

\* The position of a column beside p is beside p.
LEMMA Beside ==
  ASSUME NEW p \in Positions, NEW d \in {-1, 1}, (p % W) + d \in Cols
  PROVE  p + d \in Positions /\ (p + d) \div W = p \div W /\ (p + d) % W = (p % W) + d
<1> DEFINE r == p \div W
<1> DEFINE c == p % W
<1>1. r \in 0 .. H - 1 /\ c \in Cols /\ p = r * W + c /\ p \in Nat  BY PositionCell
<1>2. c + d \in Cols  OBVIOUS
<1> HIDE DEF r, c
<1>3. p + d = r * W + (c + d)  BY <1>1, <1>2, SizeAssumption DEF Cols
<1>4. p + d \in Positions  BY <1>1, <1>2, <1>3, CellPosition
<1>5. (p + d) \div W = r /\ (p + d) % W = c + d
  BY <1>1, <1>2, <1>3, DivisionUnique
<1>. QED  BY <1>4, <1>5 DEF r, c

\* The halves of a double width character are side by side on the screen.
LEMMA Halves ==
  ASSUME TypeInv, NEW p \in Positions
  PROVE  /\ TypeAt(p) = "L" => /\ p + 1 \in Positions /\ TypeAt(p + 1) = "R"
                               /\ CellAt(p + 1).ch = CellAt(p).ch
         /\ TypeAt(p) = "R" => /\ p - 1 \in Positions /\ TypeAt(p - 1) = "L"
                               /\ CellAt(p - 1).ch = CellAt(p).ch
<1> DEFINE row == text[view + p \div W]
<1> DEFINE c == p % W
<1>1. row \in Lines /\ c \in Cols  BY ShownLine DEF TypeInv
<1>2. IsWhole(row, c)  BY <1>1, LinesAssumption DEF Whole
<1>3. CellAt(p) = row[c]  BY DEF CellAt, LineOf
<1>4. ASSUME row[c].type = "L"
      PROVE  p + 1 \in Positions /\ CellAt(p + 1) = Cell(row[c].ch, "R")
  <2>1. c + 1 \in Cols /\ row[c + 1] = Cell(row[c].ch, "R")  BY <1>2, <1>4 DEF IsWhole
  <2>2. p + 1 \in Positions /\ (p + 1) \div W = p \div W /\ (p + 1) % W = c + 1
    BY <2>1, Beside
  <2>. QED  BY <2>1, <2>2 DEF CellAt, LineOf
<1>5. ASSUME row[c].type = "R"
      PROVE  p - 1 \in Positions /\ CellAt(p - 1) = Cell(row[c].ch, "L")
  <2>1. c - 1 \in Cols /\ row[c - 1] = Cell(row[c].ch, "L")  BY <1>2, <1>5 DEF IsWhole
  <2>2. (p % W) + (-1) \in Cols /\ p \in Int /\ c \in Int
    BY <1>1, <2>1, PositionCell, SizeAssumption DEF Cols
  <2>3. p + (-1) \in Positions /\ (p + (-1)) \div W = p \div W /\ (p + (-1)) % W = (p % W) + (-1)
    BY <2>2, Beside
  <2>4. p + (-1) = p - 1 /\ (p % W) + (-1) = c - 1  BY <2>2
  <2>5. p - 1 \in Positions /\ (p - 1) \div W = p \div W /\ (p - 1) % W = c - 1
    BY <2>3, <2>4
  <2>. QED  BY <2>1, <2>5 DEF CellAt, LineOf
<1> HIDE DEF row, c
<1>. QED  BY <1>3, <1>4, <1>5 DEF TypeAt, Cell

-----------------------------------------------------------------------------
(* Spans                                                                   *)

\* The first and the last position of the character in p.
Lo(p) == p - (IF TypeAt(p) = "R" THEN 1 ELSE 0)
Hi(p) == p + (IF TypeAt(p) = "L" THEN 1 ELSE 0)

\* p and q are the two halves of one character.
LeftOf(p, q) == TypeAt(p) = "L" /\ q = p + 1

\* A span goes from the first position of the smaller end to the last of the
\* greater one.
LEMMA SpanEnds ==
  ASSUME NEW a \in Positions, NEW b \in Positions
  PROVE  Span(a, b) = IF a < b THEN Lo(a) .. Hi(b) ELSE Lo(b) .. Hi(a)
<1>1. CASE a < b
  <2>1. Least(a, b) = a /\ Most(a, b) = b  BY <1>1 DEF Least, Most
  <2>. QED  BY <1>1, <2>1 DEF Span, Lo, Hi
<1>2. CASE ~ (a < b)
  <2>1. Least(a, b) = b /\ Most(a, b) = a  BY <1>2 DEF Least, Most
  <2>. QED  BY <1>2, <2>1 DEF Span, Lo, Hi
<1>. QED  BY <1>1, <1>2

\* Both are on the screen, and both are the character's.
LEMMA Character ==
  ASSUME TypeInv, NEW p \in Positions
  PROVE  /\ p \in Nat /\ Lo(p) \in Positions /\ Hi(p) \in Positions
         /\ Lo(p) \in Nat /\ Hi(p) \in Nat
         /\ Lo(p) <= p /\ p <= Hi(p) /\ Hi(p) <= Lo(p) + 1 /\ Hi(p) < W * H
         /\ TypeAt(Lo(p)) # "R" /\ TypeAt(Hi(p)) # "L"
<1>1. p \in Nat /\ p < W * H  BY PositionCell
<1>2. \A q \in Positions : q \in Nat /\ q < W * H  BY PositionCell
<1>3. CASE TypeAt(p) = "L"
  <2>1. Lo(p) = p /\ Hi(p) = p + 1  BY <1>1, <1>3 DEF Lo, Hi
  <2>2. p + 1 \in Positions /\ TypeAt(p + 1) = "R"  BY <1>3, Halves
  <2>. QED  BY <1>1, <1>2, <1>3, <2>1, <2>2
<1>4. CASE TypeAt(p) = "R"
  <2>1. Lo(p) = p - 1 /\ Hi(p) = p  BY <1>1, <1>4 DEF Lo, Hi
  <2>2. p - 1 \in Positions /\ TypeAt(p - 1) = "L"  BY <1>4, Halves
  <2>. QED  BY <1>1, <1>2, <1>4, <2>1, <2>2
<1>5. CASE TypeAt(p) # "L" /\ TypeAt(p) # "R"
  <2>1. Lo(p) = p /\ Hi(p) = p  BY <1>1, <1>5 DEF Lo, Hi
  <2>. QED  BY <1>1, <1>5, <2>1
<1>. QED  BY <1>3, <1>4, <1>5

\* Two positions are of one character or their characters are apart.
LEMMA Apart ==
  ASSUME TypeInv, NEW p \in Positions, NEW q \in Positions, p < q
  PROVE  IF LeftOf(p, q)
         THEN Lo(q) = p /\ Lo(p) = p /\ Hi(p) = q /\ Hi(q) = q
         ELSE Hi(p) < Lo(q)
<1>1. p \in Nat /\ q \in Nat  BY PositionCell
<1>2. TypeAt(p) = "L" => TypeAt(p + 1) = "R"  BY Halves
<1>3. TypeAt(q) = "R" => TypeAt(q - 1) = "L" /\ q - 1 \in Positions  BY Halves
<1>4. CASE LeftOf(p, q)
  <2>1. q = p + 1 /\ TypeAt(p) = "L" /\ TypeAt(q) = "R"  BY <1>2, <1>4 DEF LeftOf
  <2>. QED  BY <1>1, <1>4, <2>1 DEF Lo, Hi
<1>5. CASE ~ LeftOf(p, q)
  <2>1. CASE TypeAt(q) = "R"
    <3>1. Lo(q) = q - 1 /\ TypeAt(q - 1) = "L"  BY <1>3, <2>1 DEF Lo
    <3>2. q - 1 # p  BY <1>1, <1>5, <3>1 DEF LeftOf
    <3>3. TypeAt(p) = "L" => q - 1 # p + 1  BY <1>2, <3>1
    <3>. QED  BY <1>1, <1>5, <3>1, <3>2, <3>3 DEF Hi
  <2>2. CASE TypeAt(q) # "R"
    <3>1. Lo(q) = q  BY <1>1, <2>2 DEF Lo
    <3>2. TypeAt(p) = "L" => q # p + 1  BY <1>5 DEF LeftOf
    <3>. QED  BY <1>1, <1>5, <3>1, <3>2 DEF Hi
  <2>. QED  BY <2>1, <2>2
<1>. QED  BY <1>4, <1>5

\* The position behind a character begins one, the one before it ends one.
LEMMA Neighbours ==
  ASSUME TypeInv, NEW p \in Positions
  PROVE  /\ Hi(p) + 1 \in Positions => Lo(Hi(p) + 1) = Hi(p) + 1
         /\ Lo(p) - 1 \in Positions => Hi(Lo(p) - 1) = Lo(p) - 1
<1>1. /\ Lo(p) \in Nat /\ Hi(p) \in Nat
      /\ TypeAt(Lo(p)) # "R" /\ TypeAt(Hi(p)) # "L"
  BY Character
<1> DEFINE h == Hi(p) + 1
<1> DEFINE l == Lo(p) - 1
<1>2. ASSUME h \in Positions  PROVE Lo(h) = h
  <2>1. TypeAt(h) = "R" => TypeAt(h - 1) = "L"  BY <1>2, Halves
  <2>2. h - 1 = Hi(p) /\ h \in Int  BY <1>1
  <2>3. TypeAt(h) # "R"  BY <1>1, <2>1, <2>2
  <2>. QED  BY <2>2, <2>3 DEF Lo
<1>3. ASSUME l \in Positions  PROVE Hi(l) = l
  <2>1. TypeAt(l) = "L" => TypeAt(l + 1) = "R"  BY <1>3, Halves
  <2>2. l + 1 = Lo(p) /\ l \in Int  BY <1>1
  <2>3. TypeAt(l) # "L"  BY <1>1, <2>1, <2>2
  <2>. QED  BY <2>2, <2>3 DEF Hi
<1>. QED  BY <1>2, <1>3

\* What StepOver comes to: behind the character, or before it, where a u32
\* wraps at the beginning of the screen.
LEMMA StepsOver ==
  ASSUME TypeInv, NEW p \in Positions
  PROVE  StepOver(p) = IF sel.end >= sel.start THEN Hi(p) + 1
                       ELSE IF Lo(p) = 0 THEN U32 - 1 ELSE Lo(p) - 1
<1>1. p \in Nat /\ Lo(p) \in Nat /\ Hi(p) \in Nat /\ Hi(p) < W * H /\ Lo(p) <= p /\ p <= Hi(p)
  BY Character
<1>2. U32 \in Nat /\ W * H \in Nat /\ W * H >= 1 /\ 2 * W * H >= W * H + 1
      /\ U32 > W * H + 1
  <2>1. W * H \in Nat /\ W * H >= 1  BY SizeAssumption
  <2>2. 2 * W * H = 2 * (W * H)  BY SizeAssumption
  <2>. QED  BY <2>1, <2>2, U32Assumption
<1>3. \A n \in Nat : n < U32 => n % U32 = n  BY <1>2
<1>4. CASE sel.end >= sel.start
  <2>1. p + (IF TypeAt(p) = "L" THEN 2 ELSE 1) = Hi(p) + 1  BY <1>1 DEF Hi
  <2>2. (Hi(p) + 1) % U32 = Hi(p) + 1  BY <1>1, <1>2, <1>3
  <2>. QED  BY <1>4, <2>1, <2>2 DEF StepOver
<1>5. CASE ~ (sel.end >= sel.start)
  <2>1. p - (IF TypeAt(p) = "R" THEN 2 ELSE 1) = Lo(p) - 1  BY <1>1 DEF Lo
  <2>2. StepOver(p) = (Lo(p) - 1) % U32  BY <1>5, <2>1 DEF StepOver
  <2>3. CASE Lo(p) = 0
    <3>1. (-1) % U32 = U32 - 1  BY <1>2
    <3>. QED  BY <1>5, <2>2, <2>3, <3>1
  <2>4. CASE Lo(p) # 0
    <3>1. (Lo(p) - 1) % U32 = Lo(p) - 1  BY <1>1, <1>2, <1>3, <2>4
    <3>. QED  BY <1>5, <2>2, <2>4, <3>1
  <2>. QED  BY <2>3, <2>4
<1>. QED  BY <1>4, <1>5

\* A span whose ends are in order.
LEMMA SpanInOrder ==
  ASSUME NEW a \in Positions, NEW b \in Positions, a <= b
  PROVE  Span(a, b) = Lo(a) .. Hi(b) /\ Span(b, a) = Lo(a) .. Hi(b)
<1>1. a \in Nat /\ b \in Nat  BY PositionCell
<1>2. CASE a < b
  <2>1. ~ (b < a)  BY <1>1, <1>2
  <2>. QED  BY <1>2, <2>1, SpanEnds
<1>3. CASE a = b  BY <1>1, <1>3, SpanEnds
<1>. QED  BY <1>1, <1>2, <1>3

\* The ends of characters are in the order of the positions.
LEMMA InOrder ==
  ASSUME TypeInv, NEW a \in Positions, NEW b \in Positions, a <= b
  PROVE  Lo(a) <= Lo(b) /\ Hi(a) <= Hi(b)
<1>1. CASE a = b
  <2>1. Lo(b) \in Nat /\ Hi(b) \in Nat  BY Character
  <2>. QED  BY <1>1, <2>1
<1>2. CASE a < b
  <2>1. /\ Lo(a) \in Nat /\ Hi(a) \in Nat /\ Lo(b) \in Nat /\ Hi(b) \in Nat
        /\ Lo(a) <= a /\ a <= Hi(a) /\ Lo(b) <= b /\ b <= Hi(b) /\ a \in Nat /\ b \in Nat
    BY Character
  <2>2. CASE LeftOf(a, b)
    <3>1. Lo(b) = a /\ Lo(a) = a /\ Hi(a) = b /\ Hi(b) = b  BY <1>2, <2>2, Apart
    <3>. QED  BY <2>1, <3>1
  <2>3. CASE ~ LeftOf(a, b)
    <3>1. Hi(a) < Lo(b)  BY <1>2, <2>3, Apart
    <3>. QED  BY <2>1, <3>1
  <2>. QED  BY <2>2, <2>3
<1>3. a \in Nat /\ b \in Nat  BY PositionCell
<1>. QED  BY <1>1, <1>2, <1>3

\* Dragged further on the same side of the start, the selection changes by
\* the characters between its old end and its new one: forwards.
LEMMA ExtendsForwards ==
  ASSUME TypeInv, sel.start \in Positions, sel.end \in Positions, NEW p \in Positions,
         sel.end >= sel.start, p >= sel.start, NEW q \in Int
  PROVE  q \in Span(sel.start, p) <=>
           ((q \in Span(sel.start, sel.end)) # (Changes(p) /\ q \in Span(ChangeFrom(p), ChangeTo(p))))
<1> DEFINE s == sel.start
<1> DEFINE e == sel.end
<1>1. s \in Positions /\ e \in Positions /\ s <= e /\ s <= p /\ s \in Nat /\ e \in Nat /\ p \in Nat
  BY PositionCell
<1>2. /\ Lo(e) \in Nat /\ Hi(e) \in Nat /\ Lo(e) <= e /\ e <= Hi(e)
      /\ Lo(p) \in Nat /\ Hi(p) \in Nat /\ Lo(p) <= p /\ p <= Hi(p)
      /\ Lo(s) \in Nat
  BY <1>1, Character
<1>3. StepOver(e) = Hi(e) + 1 /\ StepOver(p) = Hi(p) + 1  BY <1>1, StepsOver
<1>4. Span(s, e) = Lo(s) .. Hi(e) /\ Span(s, p) = Lo(s) .. Hi(p)
  BY <1>1, SpanInOrder
<1>5. Lo(s) <= Lo(e) /\ Lo(s) <= Lo(p)  BY <1>1, InOrder
<1>6. Grows(p) <=> p > e  BY <1>1 DEF Grows
<1>7. p < W * H /\ e < W * H /\ W * H \in Nat  BY <1>1, PositionCell, SizeAssumption
<1>8. CASE p > e
  <2>1. ChangeFrom(p) = Hi(e) + 1 /\ ChangeTo(p) = p
    BY <1>3, <1>6, <1>8 DEF ChangeFrom, ChangeTo
  <2>2. Changes(p) <=> Hi(e) + 1 <= p
    BY <1>1, <1>2, <1>8, <2>1 DEF Changes
  <2>3. CASE LeftOf(e, p)
    <3>1. Hi(e) = p /\ Hi(p) = p  BY <1>1, <1>8, <2>3, Apart
    <3>. QED  BY <1>1, <1>4, <2>2, <3>1
  <2>4. CASE ~ LeftOf(e, p)
    <3>1. Hi(e) < Lo(p)  BY <1>1, <1>8, <2>4, Apart
    <3>2. Hi(e) + 1 <= p  BY <1>1, <1>2, <3>1
    <3>3. Hi(e) + 1 \in Positions  BY <1>1, <1>2, <1>7, <3>2 DEF Positions
    <3>4. Lo(Hi(e) + 1) = Hi(e) + 1  BY <1>1, <3>3, Neighbours
    <3>5. Span(Hi(e) + 1, p) = Hi(e) + 1 .. Hi(p)  BY <3>2, <3>3, <3>4, SpanInOrder
    <3>. QED  BY <1>1, <1>2, <1>4, <1>5, <2>1, <2>2, <3>1, <3>2, <3>5
  <2>. QED  BY <2>3, <2>4
<1>9. CASE p = e
  <2>1. ChangeFrom(p) = e /\ ChangeTo(p) = Hi(e) + 1
    BY <1>1, <1>3, <1>6, <1>9 DEF ChangeFrom, ChangeTo
  <2>2. ~ Changes(p)  BY <1>1, <1>2, <1>9, <2>1 DEF Changes
  <2>. QED  BY <1>9, <2>2
<1>10. CASE p < e
  <2>1. ChangeFrom(p) = e /\ ChangeTo(p) = Hi(p) + 1
    BY <1>1, <1>3, <1>6, <1>10 DEF ChangeFrom, ChangeTo
  <2>2. Changes(p) <=> Hi(p) + 1 <= e
    BY <1>1, <1>2, <1>10, <2>1 DEF Changes
  <2>3. CASE LeftOf(p, e)
    <3>1. Hi(p) = e /\ Hi(e) = e  BY <1>1, <1>10, <2>3, Apart
    <3>. QED  BY <1>1, <1>4, <2>2, <3>1
  <2>4. CASE ~ LeftOf(p, e)
    <3>1. Hi(p) < Lo(e)  BY <1>1, <1>10, <2>4, Apart
    <3>2. Hi(p) + 1 <= e  BY <1>1, <1>2, <3>1
    <3>3. Hi(p) + 1 \in Positions  BY <1>1, <1>2, <1>7, <3>2 DEF Positions
    <3>4. Lo(Hi(p) + 1) = Hi(p) + 1  BY <3>3, Neighbours
    <3>5. Span(e, Hi(p) + 1) = Hi(p) + 1 .. Hi(e)  BY <1>1, <3>2, <3>3, <3>4, SpanInOrder
    <3>. QED  BY <1>1, <1>2, <1>4, <1>5, <2>1, <2>2, <3>1, <3>2, <3>5
  <2>. QED  BY <2>3, <2>4
<1>. QED  BY <1>1, <1>8, <1>9, <1>10

\* And backwards, where the step over a character at the beginning of the
\* screen would leave it.
LEMMA ExtendsBackwards ==
  ASSUME TypeInv, sel.start \in Positions, sel.end \in Positions, NEW p \in Positions,
         sel.end < sel.start, p < sel.start, ~ LeavesScreen(p), NEW q \in Int
  PROVE  q \in Span(sel.start, p) <=>
           ((q \in Span(sel.start, sel.end)) # (Changes(p) /\ q \in Span(ChangeFrom(p), ChangeTo(p))))
<1> DEFINE s == sel.start
<1> DEFINE e == sel.end
<1>1. s \in Positions /\ e \in Positions /\ e < s /\ p < s /\ s \in Nat /\ e \in Nat /\ p \in Nat
      /\ ~ (e >= s) /\ ~ (p >= s) /\ e <= s /\ p <= s
  BY PositionCell
<1>2. /\ Lo(e) \in Nat /\ Hi(e) \in Nat /\ Lo(e) <= e /\ e <= Hi(e)
      /\ Lo(p) \in Nat /\ Hi(p) \in Nat /\ Lo(p) <= p /\ p <= Hi(p)
      /\ Hi(s) \in Nat
  BY <1>1, Character
<1>3. U32 - 1 \notin Positions /\ U32 - 1 \in Nat /\ U32 - 1 > e /\ U32 - 1 > p
  <2>1. W * H \in Nat /\ 2 * W * H = 2 * (W * H)  BY SizeAssumption
  <2>2. U32 - 1 >= W * H /\ U32 - 1 \in Nat  BY <2>1, U32Assumption
  <2>3. e < W * H /\ p < W * H  BY <1>1, PositionCell
  <2>. QED  BY <1>1, <2>1, <2>2, <2>3 DEF Positions
<1>4. /\ StepOver(e) = IF Lo(e) = 0 THEN U32 - 1 ELSE Lo(e) - 1
      /\ StepOver(p) = IF Lo(p) = 0 THEN U32 - 1 ELSE Lo(p) - 1
  BY <1>1, StepsOver
<1>5. Span(s, e) = Lo(e) .. Hi(s) /\ Span(s, p) = Lo(p) .. Hi(s)
  BY <1>1, SpanInOrder
<1>6. Hi(e) <= Hi(s) /\ Hi(p) <= Hi(s)  BY <1>1, InOrder
<1>7. Grows(p) <=> ~ (p > e)  BY <1>1 DEF Grows
<1>8. ~ Turned(p)  BY <1>1 DEF Turned
<1>9. ~ (Changes(p) /\ ~ {ChangeFrom(p), ChangeTo(p)} \subseteq Positions)
  BY <1>8 DEF LeavesScreen
<1>10. CASE p > e
  <2>1. ChangeFrom(p) = e /\ ChangeTo(p) = StepOver(p)
    BY <1>7, <1>10 DEF ChangeFrom, ChangeTo
  <2>2. CASE Lo(p) = 0
    <3>1. ChangeTo(p) = U32 - 1  BY <1>4, <2>1, <2>2
    <3>2. Changes(p)  BY <1>1, <1>3, <1>10, <2>1, <3>1 DEF Changes
    <3>. QED  BY <1>3, <1>9, <3>1, <3>2
  <2>3. CASE Lo(p) # 0
    <3>1. ChangeTo(p) = Lo(p) - 1  BY <1>4, <2>1, <2>3
    <3>2. Changes(p) <=> Lo(p) - 1 >= e
      BY <1>1, <1>2, <1>10, <2>1, <2>3, <3>1 DEF Changes
    <3>3. CASE LeftOf(e, p)
      <4>1. Lo(p) = e /\ Lo(e) = e  BY <1>1, <1>10, <3>3, Apart
      <4>. QED  BY <1>1, <1>5, <3>2, <4>1
    <3>4. CASE ~ LeftOf(e, p)
      <4>1. Hi(e) < Lo(p)  BY <1>1, <1>10, <3>4, Apart
      <4>2. e <= Lo(p) - 1  BY <1>1, <1>2, <4>1
      <4>3. Lo(p) - 1 \in Positions
        <5>1. p < W * H /\ W * H \in Nat  BY PositionCell, SizeAssumption
        <5>. QED  BY <1>1, <1>2, <2>3, <5>1 DEF Positions
      <4>4. Hi(Lo(p) - 1) = Lo(p) - 1  BY <4>3, Neighbours
      <4>5. Span(e, Lo(p) - 1) = Lo(e) .. Lo(p) - 1  BY <1>1, <4>2, <4>3, <4>4, SpanInOrder
      <4>. QED  BY <1>1, <1>2, <1>5, <1>6, <2>1, <3>1, <3>2, <4>1, <4>2, <4>5
    <3>. QED  BY <3>3, <3>4
  <2>. QED  BY <2>2, <2>3
<1>11. CASE p = e
  <2>1. ChangeFrom(p) = StepOver(e) /\ ChangeTo(p) = e
    BY <1>1, <1>7, <1>11 DEF ChangeFrom, ChangeTo
  <2>2. CASE Lo(e) = 0
    <3>1. ChangeFrom(p) = U32 - 1  BY <1>4, <2>1, <2>2
    <3>2. Changes(p)  BY <1>1, <1>3, <1>11, <2>1, <3>1 DEF Changes
    <3>. QED  BY <1>3, <1>9, <3>1, <3>2
  <2>3. CASE Lo(e) # 0
    <3>1. ChangeFrom(p) = Lo(e) - 1  BY <1>4, <2>1, <2>3
    <3>2. ~ Changes(p)  BY <1>1, <1>2, <1>11, <2>1, <3>1 DEF Changes
    <3>. QED  BY <1>11, <3>2
  <2>. QED  BY <2>2, <2>3
<1>12. CASE p < e
  <2>1. ChangeFrom(p) = StepOver(e) /\ ChangeTo(p) = p
    BY <1>1, <1>7, <1>12 DEF ChangeFrom, ChangeTo
  <2>2. CASE Lo(e) = 0
    <3>1. ChangeFrom(p) = U32 - 1  BY <1>4, <2>1, <2>2
    <3>2. Changes(p)  BY <1>1, <1>3, <1>12, <2>1, <3>1 DEF Changes
    <3>. QED  BY <1>3, <1>9, <3>1, <3>2
  <2>3. CASE Lo(e) # 0
    <3>1. ChangeFrom(p) = Lo(e) - 1  BY <1>4, <2>1, <2>3
    <3>2. Changes(p) <=> Lo(e) - 1 >= p
      BY <1>1, <1>2, <1>12, <2>1, <2>3, <3>1 DEF Changes
    <3>3. CASE LeftOf(p, e)
      <4>1. Lo(e) = p /\ Lo(p) = p  BY <1>1, <1>12, <3>3, Apart
      <4>. QED  BY <1>1, <1>5, <3>2, <4>1
    <3>4. CASE ~ LeftOf(p, e)
      <4>1. Hi(p) < Lo(e)  BY <1>1, <1>12, <3>4, Apart
      <4>2. p <= Lo(e) - 1  BY <1>1, <1>2, <4>1
      <4>3. Lo(e) - 1 \in Positions
        <5>1. e < W * H /\ W * H \in Nat  BY <1>1, PositionCell, SizeAssumption
        <5>. QED  BY <1>1, <1>2, <2>3, <5>1 DEF Positions
      <4>4. Hi(Lo(e) - 1) = Lo(e) - 1  BY <1>1, <4>3, Neighbours
      <4>5. Span(Lo(e) - 1, p) = Lo(p) .. Lo(e) - 1  BY <1>1, <4>2, <4>3, <4>4, SpanInOrder
      <4>. QED  BY <1>1, <1>2, <1>5, <1>6, <2>1, <3>1, <3>2, <4>1, <4>2, <4>5
    <3>. QED  BY <3>3, <3>4
  <2>. QED  BY <2>2, <2>3
<1>. QED  BY <1>1, <1>10, <1>11, <1>12

-----------------------------------------------------------------------------
(* Pictures                                                                *)

\* What Inversed reverses.
LEMMA InversedCells ==
  ASSUME TypeInv, NEW pic, pic.rev \in Screens, NEW a, NEW b
  PROVE  /\ Inversed(pic, a, b).rev \in Screens
         /\ \A l \in Memory, c \in Cols :
              Inversed(pic, a, b).rev[l][c] <=>
                (pic.rev[l][c] # ((l - view) * W + c \in Span(a, b)))
<1> DEFINE span == Span(a, b)
<1> DEFINE reversed == [l \in Memory |-> [c \in Cols |->
                          pic.rev[l][c] # ((l - view) * W + c \in span)]]
<1>1. Inversed(pic, a, b).rev = reversed  BY DEF Inversed
<1> HIDE DEF span
<1>2. reversed \in Screens  BY DEF Screens
<1>3. \A l \in Memory, c \in Cols :
        reversed[l][c] <=> (pic.rev[l][c] # ((l - view) * W + c \in span))
  OBVIOUS
<1>. QED  BY <1>1, <1>2, <1>3 DEF span

\* It shows what it has reversed, and leaves a pointer that is not there.
LEMMA InversedShows ==
  ASSUME TypeInv, on, NEW pic, pic.rev \in Screens, NEW over, Shows(pic, over),
         NEW a, NEW b
  PROVE  Shows(Inversed(pic, a, b), over)
<1> DEFINE span == Span(a, b)
<1> DEFINE new == Inversed(pic, a, b)
<1>1. new.fb = Painted(pic.fb, new.rev, view, span)  BY DEF Inversed
<1>2. ASSUME NEW p \in Positions
      PROVE  \/ new.fb[p] = Pixels(CellAt(p), new.rev[LineOf(p)][p % W])
             \/ p \in over /\ new.fb[p] = Pixels(CellAt(p), ~ new.rev[LineOf(p)][p % W])
  <2>1. LineOf(p) \in Memory /\ p % W \in Cols /\ (LineOf(p) - view) * W + (p % W) = p
    BY ShownLine DEF TypeInv, LineOf
  <2>2. CASE p \in span
    <3>1. new.fb[p] = Pixels(text[view + p \div W][p % W], new.rev[view + p \div W][p % W])
      BY <1>1, <2>2 DEF Painted
    <3>. QED  BY <3>1 DEF CellAt, LineOf
  <2>3. CASE p \notin span
    <3>1. new.fb[p] = pic.fb[p]  BY <1>1, <2>3 DEF Painted
    <3>2. new.rev[LineOf(p)][p % W] <=> (pic.rev[LineOf(p)][p % W] # (p \in span))
      BY <2>1, InversedCells
    <3>3. new.rev[LineOf(p)][p % W] \in BOOLEAN /\ pic.rev[LineOf(p)][p % W] \in BOOLEAN
      BY <2>1, InversedCells DEF Screens
    <3>4. new.rev[LineOf(p)][p % W] = pic.rev[LineOf(p)][p % W]
      BY <2>3, <3>2, <3>3
    <3>. QED  BY <3>1, <3>4 DEF Shows
  <2>. QED  BY <2>2, <2>3
<1>. QED  BY <1>2 DEF Shows

\* In the view it was made in, the selection is the span of its ends.
LEMMA SelectedSpan ==
  ASSUME at = view
  PROVE  Selected = Span(sel.start, sel.end)
  BY DEF Selected, Span, TypeAt, CellAt, LineOf

\* In that view, resetTextSelect leaves nothing reversed.
LEMMA ResetCells ==
  ASSUME TypeInv, ReversedInv, ~ lost, ~ Strays, NEW pic, pic.rev = rev
  PROVE  /\ Reset(pic).rev \in Screens
         /\ \A l \in Memory, c \in Cols : ~ Reset(pic).rev[l][c]
<1>1. pic.rev \in Screens  BY DEF TypeInv
<1>2. CASE sel.inversed
  <2>1. at = view  BY <1>2 DEF Strays
  <2>2. Selected = Span(sel.start, sel.end)  BY <2>1, SelectedSpan
  <2>3. Reset(pic) = Inversed(pic, sel.start, sel.end)  BY <1>2 DEF Reset
  <2>4. ASSUME NEW l \in Memory, NEW c \in Cols  PROVE ~ Reset(pic).rev[l][c]
    <3>1. rev[l][c] <=> (l - view) * W + c \in Span(sel.start, sel.end)
      BY <1>2, <2>1, <2>2 DEF ReversedInv
    <3>2. Reset(pic).rev[l][c] <=>
            (pic.rev[l][c] # ((l - view) * W + c \in Span(sel.start, sel.end)))
      BY <1>1, <2>3, InversedCells
    <3>3. rev[l][c] \in BOOLEAN  BY DEF TypeInv, Screens
    <3>. QED  BY <3>1, <3>2, <3>3
  <2>. QED  BY <1>1, <2>3, <2>4, InversedCells
<1>3. CASE ~ sel.inversed
  <2>1. Reset(pic) = pic  BY <1>3 DEF Reset
  <2>. QED  BY <1>1, <1>3, <2>1 DEF ReversedInv
<1>. QED  BY <1>2, <1>3

\* Its picture is of its type in any view, and it shows what it has reversed.
LEMMA ResetShows ==
  ASSUME TypeInv, NEW pic, pic.rev = rev
  PROVE  /\ Reset(pic).rev \in Screens
         /\ \A over : on /\ Shows(pic, over) => Shows(Reset(pic), over)
<1>1. pic.rev \in Screens  BY DEF TypeInv
<1>. QED  BY <1>1, InversedCells, InversedShows DEF Reset

\* The picture without the pointer.
LEMMA ClearedShows ==
  ASSUME TypeInv
  PROVE  /\ Cleared(Now) = [rev |-> rev, fb |-> Cleared(Now).fb]
         /\ ShownInv /\ on /\ ~ lost => Shows(Cleared(Now), {})
<1> DEFINE new == Cleared(Now)
<1> DEFINE span == Span(pointer.at, pointer.at)
<1>1. new = [rev |-> rev, fb |-> IF pointer.drawed THEN Painted(fb, rev, view, span) ELSE fb]
  BY DEF Cleared, Now
<1>2. ASSUME ShownInv, on, ~ lost, NEW p \in Positions
      PROVE  new.fb[p] = Pixels(CellAt(p), rev[LineOf(p)][p % W])
  <2>1. Shows(Now, UnderPointer)  BY <1>2 DEF ShownInv
  <2>2. CASE pointer.drawed /\ p \in span
    <3>1. new.fb[p] = Pixels(text[view + p \div W][p % W], rev[view + p \div W][p % W])
      BY <1>1, <1>2, <2>2 DEF Painted
    <3>. QED  BY <3>1 DEF CellAt, LineOf
  <2>3. CASE ~ (pointer.drawed /\ p \in span)
    <3>1. new.fb[p] = fb[p]  BY <1>1, <1>2, <2>3 DEF Painted
    <3>2. p \notin UnderPointer  BY <2>3 DEF UnderPointer
    <3>. QED  BY <2>1, <3>1, <3>2 DEF Shows, Now
  <2>. QED  BY <2>2, <2>3
<1>. QED  BY <1>1, <1>2 DEF Shows

\* The picture with the pointer over the character in p.
LEMMA PointedShows ==
  ASSUME TypeInv, NEW pic, NEW p \in Positions, pic = [rev |-> rev, fb |-> pic.fb]
  PROVE  /\ Pointed(pic, p) = [rev |-> rev, fb |-> Pointed(pic, p).fb]
         /\ on /\ Shows(pic, {}) => Shows(Pointed(pic, p), Span(p, p))
<1> DEFINE new == Pointed(pic, p)
<1> DEFINE painted == [q \in Positions |->
      IF q \in Span(p, p) THEN Pixels(CellAt(q), ~ rev[LineOf(q)][q % W]) ELSE pic.fb[q]]
<1>1. new = IF on THEN [rev |-> rev, fb |-> painted] ELSE pic
  <2>1. pic.rev = rev  OBVIOUS
  <2>2. [pic EXCEPT !.fb = painted] = [rev |-> rev, fb |-> painted]  OBVIOUS
  <2>3. [pic EXCEPT !.fb = [q \in Positions |->
           IF q \in Span(p, p) THEN Pixels(CellAt(q), ~ pic.rev[LineOf(q)][q % W]) ELSE @[q]]]
        = [pic EXCEPT !.fb = painted]
    BY <2>1
  <2>. QED  BY <2>2, <2>3 DEF Pointed
<1>2. ASSUME on, Shows(pic, {}), NEW q \in Positions
      PROVE  \/ new.fb[q] = Pixels(CellAt(q), new.rev[LineOf(q)][q % W])
             \/ q \in Span(p, p) /\ new.fb[q] = Pixels(CellAt(q), ~ new.rev[LineOf(q)][q % W])
  <2>1. new = [rev |-> rev, fb |-> painted]  BY <1>1, <1>2
  <2>2. new.rev = rev /\ new.fb[q] = painted[q] /\ pic.rev = rev  BY <2>1
  <2>3. pic.fb[q] = Pixels(CellAt(q), rev[LineOf(q)][q % W])  BY <1>2, <2>2 DEF Shows
  <2>. QED  BY <2>2, <2>3
<1>3. new = [rev |-> rev, fb |-> new.fb]  BY <1>1
<1>. QED  BY <1>2, <1>3 DEF Shows

\* The pointer is remembered where it has been drawn.
LEMMA PointerSpan ==
  ASSUME TypeInv, NEW p \in Positions, NEW a, a = p - (IF TypeAt(p) = "R" THEN 1 ELSE 0)
  PROVE  a \in Positions /\ Span(a, a) = Span(p, p)
<1>1. a = Lo(p)  BY DEF Lo
<1>2. a \in Positions /\ p \in Nat /\ a \in Nat /\ a <= p  BY <1>1, Character
<1>3. Span(p, p) = Lo(p) .. Hi(p) /\ Span(a, a) = Lo(a) .. Hi(a)
  BY <1>2, SpanInOrder
<1>4. CASE a = p  BY <1>2, <1>4
<1>5. CASE a # p
  <2>1. TypeAt(p) = "R" /\ a = p - 1  BY <1>2, <1>5
  <2>2. TypeAt(a) = "L"  BY <2>1, Halves
  <2>3. LeftOf(a, p) /\ a < p  BY <1>2, <2>1, <2>2 DEF LeftOf
  <2>4. Lo(a) = a /\ Hi(a) = p /\ Hi(p) = p
    BY <1>2, <2>3, Apart
  <2>. QED  BY <1>1, <1>2, <1>3, <2>4
<1>. QED  BY <1>4, <1>5

-----------------------------------------------------------------------------
(* Words                                                                   *)

\* A non-empty set of numbers has a least element.
LEMMA LeastElement ==
  ASSUME NEW S \in SUBSET Nat, S # {}
  PROVE  \E x \in S : \A y \in S : x <= y
<1>1. \E x \in S : \A y \in S : ~ (<<y, x>> \in OpToRel(<, Nat))
  BY NatLessThanWellFounded, WFMin
<1>2. ASSUME NEW x \in Nat, NEW y \in Nat, ~ (<<y, x>> \in OpToRel(<, Nat))
      PROVE  x <= y
  <2>1. ~ (y < x)  BY <1>2 DEF OpToRel
  <2>. QED  BY <2>1
<1>. QED  BY <1>1, <1>2

\* One of numbers that end with n has a greatest one.
LEMMA GreatestElement ==
  ASSUME NEW n \in Nat, NEW S \in SUBSET (0 .. n), S # {}
  PROVE  \E x \in S : \A y \in S : y <= x
<1> DEFINE above == {k \in Nat : \E x \in S : k = n - x}
<1>1. above # {} /\ above \in SUBSET Nat
  <2>1. PICK x \in S : TRUE  OBVIOUS
  <2>2. n - x \in above  BY <2>1
  <2>. QED  BY <2>2
<1>2. PICK k \in above : \A j \in above : k <= j  BY <1>1, LeastElement
<1>3. PICK x \in S : k = n - x  BY <1>2
<1>4. ASSUME NEW y \in S  PROVE y <= x
  <2>1. n - y \in above  OBVIOUS
  <2>2. k <= n - y  BY <1>2, <2>1
  <2>. QED  BY <1>3, <2>2
<1>. QED  BY <1>4

\* The word around p is on the screen, in p's row.
LEMMA WordOnScreen ==
  ASSUME NEW p \in Positions
  PROVE  WordStart(p) \in Positions /\ WordEnd(p) \in Positions
<1> DEFINE row == RowStart(p)
<1>1. /\ row \in Nat /\ row <= p /\ p <= row + W - 1 /\ row + W - 1 < W * H
      /\ p \in Nat /\ W \in Nat
  <2> DEFINE r == p \div W
  <2>1. r \in 0 .. H - 1 /\ p % W \in Cols /\ p = r * W + (p % W) /\ p \in Nat
    BY PositionCell
  <2>2. row = r * W  BY DEF RowStart
  <2> HIDE DEF r, row
  <2>3. 0 \in Cols /\ W - 1 \in Cols  BY SizeAssumption DEF Cols
  <2>4. r * W + 0 \in Positions /\ r * W + (W - 1) \in Positions  BY <2>1, <2>3, CellPosition
  <2>5. W * H \in Nat /\ r * W \in Int  BY <2>1, SizeAssumption
  <2>. QED  BY <2>1, <2>2, <2>4, <2>5, SizeAssumption DEF Cols, Positions
<1>2. \A q \in row .. row + W - 1 : q \in Positions
  BY <1>1, SizeAssumption DEF Positions
<1>3. WordStart(p) \in row .. p
  <2> DEFINE other == {q \in row + 1 .. p : InWord(q) # InWord(p)}
  <2>1. CASE other = {}  BY <1>1, <2>1 DEF WordStart
  <2>2. CASE other # {}
    <3>1. other \in SUBSET (0 .. p)  BY <1>1
    <3> DEFINE q == CHOOSE q \in other : \A o \in other : o <= q
    <3>2. \E x \in other : \A o \in other : o <= x
      <4> HIDE DEF other
      <4>. QED  BY <1>1, <2>2, <3>1, GreatestElement
    <3>3. q \in other  BY <3>2
    <3>4. q # p /\ q \in row + 1 .. p  BY <3>3
    <3>5. WordStart(p) = 1 + q  BY <2>2 DEF WordStart
    <3> HIDE DEF q, other
    <3>. QED  BY <1>1, <3>4, <3>5
  <2>. QED  BY <2>1, <2>2
<1>4. WordEnd(p) \in p .. row + W - 1
  <2> DEFINE other == {q \in p .. row + W - 2 : InWord(q) # InWord(p)}
  <2>1. CASE other = {}  BY <1>1, <2>1 DEF WordEnd
  <2>2. CASE other # {}
    <3>1. other \in SUBSET Nat  BY <1>1
    <3> DEFINE q == CHOOSE q \in other : \A o \in other : q <= o
    <3>2. \E x \in other : \A o \in other : x <= o
      <4> HIDE DEF other
      <4>. QED  BY <2>2, <3>1, LeastElement
    <3>3. q \in other  BY <3>2
    <3>4. q # p /\ q \in p .. row + W - 2  BY <3>3
    <3>5. WordEnd(p) = q - 1  BY <2>2 DEF WordEnd
    <3> HIDE DEF q, other
    <3>. QED  BY <1>1, <3>4, <3>5
  <2>. QED  BY <2>1, <2>2
<1>5. WordStart(p) \in row .. row + W - 1 /\ WordEnd(p) \in row .. row + W - 1
  BY <1>1, <1>3, <1>4
<1>. QED  BY <1>2, <1>5

-----------------------------------------------------------------------------
(* What is kept                                                            *)

\* How many elements of S are not greater than p.
Rank(S, p) == Cardinality({q \in S : q <= p})

\* An element of a finite set of numbers is known by how many are no greater.
LEMMA RankUnique ==
  ASSUME NEW F \in SUBSET Nat, IsFiniteSet(F), NEW p \in F
  PROVE  /\ Rank(F, p) \in 1 .. Cardinality(F)
         /\ (CHOOSE x \in F : Rank(F, x) = Rank(F, p)) = p
<1>1. ASSUME NEW x \in F, NEW y \in F, x < y
      PROVE  Cardinality({q \in F : q <= x}) # Cardinality({q \in F : q <= y})
  <2>1. {q \in F : q <= x} \subseteq {q \in F : q <= y}
    <3>1. x \in Nat /\ y \in Nat /\ x < y  BY <1>1
    <3>2. \A q \in Nat : q <= x => q <= y  BY <3>1
    <3>. QED  BY <3>2
  <2>2. y \in {q \in F : q <= y} /\ y \notin {q \in F : q <= x}  BY <1>1
  <2>3. IsFiniteSet({q \in F : q <= y})  BY FS_Subset
  <2>. QED  BY <2>1, <2>2, <2>3, FS_Subset
<1>2. \A x \in F : Cardinality({q \in F : q <= x}) = Cardinality({q \in F : q <= p}) => x = p
  BY <1>1
<1>3. \E x \in F : Cardinality({q \in F : q <= x}) = Cardinality({q \in F : q <= p})
  OBVIOUS
<1>4. Cardinality({q \in F : q <= p}) \in 1 .. Cardinality(F)
  <2> DEFINE S == {q \in F : q <= p}
  <2>1. S \in SUBSET F /\ p \in S  OBVIOUS
  <2> HIDE DEF S
  <2>2. IsFiniteSet(S) /\ Cardinality(S) <= Cardinality(F)  BY <2>1, FS_Subset
  <2>3. Cardinality(S) \in Nat /\ Cardinality(F) \in Nat  BY <2>2, FS_CardinalityType
  <2>4. Cardinality(S) # 0  BY <2>1, <2>2, FS_EmptySet
  <2>5. Cardinality(S) \in 1 .. Cardinality(F)  BY <2>2, <2>3, <2>4
  <2>. QED  BY <2>5 DEF S
<1>5. (CHOOSE x \in F : Cardinality({q \in F : q <= x}) = Cardinality({q \in F : q <= p})) = p
  BY <1>2, <1>3
<1>. QED  BY <1>4, <1>5 DEF Rank

\* If R is F with its least element a moved back to l, their elements have the
\* same ranks.
LEMMA RankMoved ==
  ASSUME NEW F \in SUBSET Nat, IsFiniteSet(F), NEW a \in F, \A q \in F : a <= q,
         NEW l \in Nat, l <= a, NEW R, R = (F \ {a}) \cup {l}
  PROVE  /\ Cardinality(R) = Cardinality(F)
         /\ \A p \in R : Rank(R, p) = Rank(F, IF p = l THEN a ELSE p)
<1>1. ASSUME NEW S \in SUBSET F, a \in S
      PROVE  Cardinality((S \ {a}) \cup {l}) = Cardinality(S)
  <2>1. IsFiniteSet(S)  BY FS_Subset
  <2>2. IsFiniteSet(S \ {a}) /\ Cardinality(S \ {a}) = Cardinality(S) - 1
    BY <1>1, <2>1, FS_RemoveElement
  <2>3. l \notin S \ {a}
    <3>1. ASSUME l \in S, l # a  PROVE FALSE
      <4>1. a <= l  BY <3>1
      <4>. QED  BY <3>1, <4>1
    <3>. QED  BY <3>1
  <2>4. Cardinality((S \ {a}) \cup {l}) = Cardinality(S \ {a}) + 1
    BY <2>2, <2>3, FS_AddElement
  <2>5. Cardinality(S) \in Nat  BY <2>1, FS_CardinalityType
  <2>. QED  BY <2>2, <2>4, <2>5
<1>2. Cardinality(R) = Cardinality(F)  BY <1>1
<1>3. ASSUME NEW p \in R
      PROVE  Rank(R, p) = Rank(F, IF p = l THEN a ELSE p)
  <2> DEFINE e == IF p = l THEN a ELSE p
  <2> DEFINE S == {q \in F : q <= e}
  <2>1. e \in F /\ e \in Nat /\ p \in Nat  OBVIOUS
  <2>2. a \in S /\ S \in SUBSET F  BY <2>1
  <2>3. {q \in R : q <= p} = (S \ {a}) \cup {l}
    <3>1. ASSUME NEW q \in F, q # a  PROVE q <= p <=> q <= e
      <4>1. q > a  BY <3>1
      <4>. QED  BY <2>1, <4>1
    <3>2. l <= p
      <4>1. p # l => p \in F  OBVIOUS
      <4>2. p # l => a <= p  BY <4>1
      <4>. QED  BY <2>1, <4>2
    <3> HIDE DEF e
    <3>3. ASSUME NEW q  PROVE q \in {x \in R : x <= p} <=> q \in (S \ {a}) \cup {l}
      BY <3>1, <3>2
    <3>. QED  BY <3>3
  <2> HIDE DEF S
  <2>4. Cardinality((S \ {a}) \cup {l}) = Cardinality(S)  BY <1>1, <2>2
  <2>. QED  BY <2>3, <2>4 DEF S, Rank
<1>. QED  BY <1>2, <1>3

\* The positions shown as selected hold what CharsFrom keeps, in this order.
LEMMA KeptIsSelected ==
  ASSUME TypeInv, NEW a \in Positions, NEW b \in Positions, a <= b,
         NEW R, R = {p \in Lo(a) .. Hi(b) : TypeAt(p) # "R"}
  PROVE  /\ Len(CharsFrom(a, b)) = Cardinality(R)
         /\ \A p \in R : CharsFrom(a, b)[Rank(R, p)] = CellAt(p).ch
<1> DEFINE F == {p \in a .. b : p = a \/ TypeAt(p) # "R"}
<1> DEFINE nth(i) == CHOOSE p \in F : Rank(F, p) = i
<1>1. /\ a \in Nat /\ b \in Nat /\ Lo(a) \in Nat /\ Hi(b) \in Nat
      /\ Hi(a) \in Nat /\ Lo(a) <= a /\ a <= Hi(a) /\ Hi(a) <= Lo(a) + 1 /\ b <= Hi(b) /\ Hi(b) <= b + 1
      /\ TypeAt(Lo(a)) # "R"
  <2>1. Lo(b) <= b /\ Hi(b) <= Lo(b) + 1 /\ Lo(b) \in Nat  BY Character
  <2>. QED  BY <2>1, Character
<1>2. F \in SUBSET Nat /\ IsFiniteSet(F) /\ a \in F /\ \A q \in F : a <= q
  <2>1. F \in SUBSET (a .. b)  OBVIOUS
  <2>2. IsFiniteSet(a .. b)  BY <1>1, FS_Interval
  <2>3. IsFiniteSet(F)  BY <2>1, <2>2, FS_Subset
  <2>. QED  BY <1>1, <2>1, <2>3
<1>3. R = (F \ {a}) \cup {Lo(a)}
  <2>1. ASSUME NEW p \in R  PROVE p \in (F \ {a}) \cup {Lo(a)}
    <3>1. p \in Int /\ Lo(a) <= p /\ p <= Hi(b) /\ TypeAt(p) # "R"  BY <1>1
    <3>2. CASE p = Lo(a)  BY <3>2
    <3>3. CASE p # Lo(a)
      <4>1. p # a
        <5>1. SUFFICES ASSUME p = a  PROVE FALSE
          OBVIOUS
        <5>2. TypeAt(a) # "R"  BY <3>1, <5>1
        <5>3. Lo(a) = a  BY <1>1, <5>2 DEF Lo
        <5>. QED  BY <3>3, <5>1, <5>3
      <4>2. p > a  BY <1>1, <3>1, <3>3, <4>1
      <4>3. p # b + 1
        <5>1. SUFFICES ASSUME p = b + 1  PROVE FALSE
          OBVIOUS
        <5>2. TypeAt(b) = "L"  BY <1>1, <3>1, <5>1 DEF Hi
        <5>3. TypeAt(b + 1) = "R"  BY <5>2, Halves
        <5>. QED  BY <3>1, <5>1, <5>3
      <4>4. p <= b  BY <1>1, <3>1, <4>3
      <4>. QED  BY <1>1, <3>1, <4>2, <4>4
    <3>. QED  BY <3>2, <3>3
  <2>2. ASSUME NEW p \in (F \ {a}) \cup {Lo(a)}  PROVE p \in R
    BY <1>1, <2>2
  <2>. QED  BY <2>1, <2>2
<1>4. CharsFrom(a, b) = [i \in 1 .. Cardinality(F) |-> CellAt(nth(i)).ch]
  BY DEF CharsFrom, Rank
<1>5. PICK l \in Nat : l = Lo(a)  BY <1>1
<1>6. CellAt(l).ch = CellAt(a).ch
  <2>1. CASE TypeAt(a) = "R"
    <3>1. l = a - 1  BY <1>1, <1>5, <2>1 DEF Lo
    <3>. QED  BY <2>1, <3>1, Halves
  <2>2. CASE TypeAt(a) # "R"
    <3>1. l = a  BY <1>1, <1>5, <2>2 DEF Lo
    <3>. QED  BY <3>1
  <2>. QED  BY <2>1, <2>2
<1> HIDE DEF F
<1>7. /\ Cardinality(R) = Cardinality(F)
      /\ \A p \in R : Rank(R, p) = Rank(F, IF p = l THEN a ELSE p)
  <2>1. R = (F \ {a}) \cup {l} /\ l <= a  BY <1>1, <1>3, <1>5
  <2>. QED  BY <1>2, <2>1, RankMoved
<1>8. Cardinality(F) \in Nat  BY <1>2, FS_CardinalityType
<1>9. Len(CharsFrom(a, b)) = Cardinality(R)
  BY <1>4, <1>7, <1>8
<1>10. ASSUME NEW p \in R
       PROVE  CharsFrom(a, b)[Rank(R, p)] = CellAt(p).ch
  <2> DEFINE e == IF p = l THEN a ELSE p
  <2> DEFINE n == Rank(F, e)
  <2>1. e \in F  BY <1>2, <1>3, <1>5
  <2>2. CellAt(e).ch = CellAt(p).ch  BY <1>6
  <2>3. Rank(R, p) = n  BY <1>7
  <2> HIDE DEF e
  <2>4. n \in 1 .. Cardinality(F) /\ nth(n) = e  BY <1>2, <2>1, RankUnique
  <2>5. CharsFrom(a, b)[n] = CellAt(nth(n)).ch
    <3> HIDE DEF n, nth
    <3>. QED  BY <1>4, <2>4
  <2>. QED  BY <2>2, <2>3, <2>4, <2>5
<1>. QED  BY <1>9, <1>10

-----------------------------------------------------------------------------
(* The initial states, and what the steps have in common                   *)

\* Nothing is selected and nothing is shown.
LEMMA InitInv ==
  Init => IInv
<1> SUFFICES ASSUME Init  PROVE IInv
  OBVIOUS
<1>1. TypeInv
  <2>1. 0 \in Positions
    <3>1. W * H \in Nat /\ W * H >= 1  BY SizeAssumption
    <3>. QED  BY <3>1 DEF Positions
  <2>2. K \in 0 .. K  BY SizeAssumption
  <2>3. rev \in Screens  BY DEF Init, Screens
  <2>4. sel \in [start : Ends, end : Ends, selecting : BOOLEAN, inversed : BOOLEAN]
    BY DEF Init, Ends
  <2>5. pointer \in [drawed : BOOLEAN, at : Positions]  BY <2>1 DEF Init
  <2>. QED  BY <2>2, <2>3, <2>4, <2>5 DEF Init, TypeInv
<1>2. SelectionInv  BY DEF Init, SelectionInv
<1>3. ReversedInv  BY DEF Init, ReversedInv
<1>4. ShownInv  BY DEF Init, ShownInv
<1>. QED  BY <1>1, <1>2, <1>3, <1>4 DEF IInv

\* A step that leaves the text, the reversals and the selection alone.
LEMMA SameReversed ==
  ASSUME ReversedInv, ~ lost, UNCHANGED <<text, rev, sel, at>>
  PROVE  ReversedInv'
<1>1. Selected' = Selected  BY DEF Selected
<1>. QED  BY <1>1 DEF ReversedInv

\* What is shown in the next state, the text and the view being the same.
LEMMA ShownNext ==
  ASSUME UNCHANGED <<text, view>>, NEW pic, Show(pic), NEW over, Shows(pic, over),
         over \subseteq UnderPointer'
  PROVE  ShownInv'
<1>1. rev' = pic.rev /\ fb' = pic.fb  BY DEF Show
<1>2. \A p : CellAt(p)' = CellAt(p) /\ LineOf(p)' = LineOf(p)  BY DEF CellAt, LineOf
<1>3. ASSUME NEW p \in Positions
      PROVE  \/ fb'[p] = Pixels(CellAt(p)', rev'[LineOf(p)'][p % W])
             \/ p \in UnderPointer' /\ fb'[p] = Pixels(CellAt(p)', ~ rev'[LineOf(p)'][p % W])
  <2>1. \/ pic.fb[p] = Pixels(CellAt(p), pic.rev[LineOf(p)][p % W])
        \/ p \in over /\ pic.fb[p] = Pixels(CellAt(p), ~ pic.rev[LineOf(p)][p % W])
    BY DEF Shows
  <2>. QED  BY <1>1, <1>2, <2>1
<1>4. Shows(Now, UnderPointer)'  BY <1>3 DEF Shows, Now
<1>. QED  BY <1>4 DEF ShownInv

\* The pointer that is drawn, by what it is drawn over.
LEMMA PointerNext ==
  ASSUME TypeInv, UNCHANGED <<text, view>>, NEW p \in Positions, MovePointer(p)
  PROVE  /\ pointer' \in [drawed : BOOLEAN, at : Positions]
         /\ UnderPointer' = Span(p, p)
<1> DEFINE a == p - (IF TypeAt(p) = "R" THEN 1 ELSE 0)
<1>1. pointer' = [drawed |-> TRUE, at |-> a]  BY DEF MovePointer
<1>2. a \in Positions /\ Span(a, a) = Span(p, p)  BY PointerSpan
<1>3. \A q : TypeAt(q)' = TypeAt(q)  BY DEF TypeAt, CellAt, LineOf
<1> HIDE DEF a
<1>4. pointer'.drawed /\ pointer'.at = a  BY <1>1
<1>5. UnderPointer' = Span(a, a)
  BY <1>3, <1>4 DEF UnderPointer, Span
<1>. QED  BY <1>1, <1>2, <1>5

\* A pointer that stays.
LEMMA PointerStays ==
  ASSUME UNCHANGED <<text, view, pointer>>
  PROVE  UnderPointer' = UnderPointer
  BY DEF UnderPointer, Span, TypeAt, CellAt, LineOf

\* A new selection: what the step owes of each part of the invariant.
LEMMA SelectStep ==
  ASSUME TypeInv, ReversedInv, ~ lost, NEW pic, pic.rev = rev,
         NEW a \in Positions, NEW b \in Positions, NEW d \in BOOLEAN,
         Select(pic, a, b, d), UNCHANGED <<text, view>>
  PROVE  /\ rev' \in Screens /\ at' \in 0 .. K /\ lost' \in BOOLEAN
         /\ sel' \in [start : Ends, end : Ends, selecting : BOOLEAN, inversed : BOOLEAN]
         /\ SelectionInv' /\ ReversedInv'
         /\ \A over : on /\ Shows(pic, over) /\ over \subseteq UnderPointer' => ShownInv'
<1> DEFINE new == Inversed(Reset(pic), a, b)
<1>1. rev' = new.rev /\ fb' = new.fb  BY DEF Select, Show
<1>2. sel' = [start |-> a, end |-> b, selecting |-> d, inversed |-> TRUE]
      /\ at' = view /\ lost' = Strays
  BY DEF Select
<1>3. Reset(pic).rev \in Screens  BY ResetShows
<1>4. rev' \in Screens /\ at' \in 0 .. K /\ lost' \in BOOLEAN
      /\ sel' \in [start : Ends, end : Ends, selecting : BOOLEAN, inversed : BOOLEAN]
  <2>1. rev' \in Screens  BY <1>1, <1>3, InversedCells
  <2>2. lost' \in BOOLEAN  BY <1>2 DEF Strays, TypeInv
  <2>. QED  BY <1>2, <2>1, <2>2 DEF TypeInv, Ends
<1>5. SelectionInv'  BY <1>2 DEF SelectionInv
<1>6. ReversedInv'
  <2>1. SUFFICES ASSUME ~ lost', NEW l \in Memory, NEW c \in Cols
                 PROVE  rev'[l][c] <=> sel'.inversed /\ (l - at') * W + c \in Selected'
    BY DEF ReversedInv
  <2>2. ~ Strays  BY <1>2, <2>1
  <2>3. ~ Reset(pic).rev[l][c] /\ Reset(pic).rev[l][c] \in BOOLEAN
    BY <1>3, <2>2, ResetCells DEF Screens
  <2>4. rev'[l][c] <=> (Reset(pic).rev[l][c] # ((l - view) * W + c \in Span(a, b)))
    BY <1>1, <1>3, InversedCells
  <2>5. Selected' = Span(a, b)
    <3>1. sel'.start = a /\ sel'.end = b  BY <1>2
    <3>. QED  BY <1>2, <3>1 DEF Selected, Span, TypeAt, CellAt, LineOf
  <2>. QED  BY <1>2, <2>3, <2>4, <2>5
<1>7. ASSUME NEW over, on, Shows(pic, over), over \subseteq UnderPointer'
      PROVE  ShownInv'
  <2>1. Shows(Reset(pic), over)  BY <1>7, ResetShows
  <2>2. Shows(new, over)  BY <1>3, <1>7, <2>1, InversedShows
  <2>. QED  BY <1>1, <1>7, <2>2, ShownNext DEF Show
<1>. QED  BY <1>4, <1>5, <1>6, <1>7

\* A selection that goes.
LEMMA UnselectStep ==
  ASSUME TypeInv, ReversedInv, ~ lost, NEW pic, pic.rev = rev,
         Unselect(pic), UNCHANGED <<text, view>>
  PROVE  /\ rev' \in Screens /\ at' \in 0 .. K /\ lost' \in BOOLEAN
         /\ sel' \in [start : Ends, end : Ends, selecting : BOOLEAN, inversed : BOOLEAN]
         /\ SelectionInv' /\ ReversedInv'
         /\ \A over : on /\ Shows(pic, over) /\ over \subseteq UnderPointer' => ShownInv'
<1>1. rev' = Reset(pic).rev /\ fb' = Reset(pic).fb  BY DEF Unselect, Show
<1>2. sel' = [sel EXCEPT !.selecting = FALSE, !.inversed = FALSE]
      /\ at' = at /\ lost' = Strays
  BY DEF Unselect
<1>3. Reset(pic).rev \in Screens  BY ResetShows
<1>4. sel' \in [start : Ends, end : Ends, selecting : BOOLEAN, inversed : BOOLEAN]
      /\ ~ sel'.selecting /\ ~ sel'.inversed
  BY <1>2 DEF TypeInv
<1>5. lost' \in BOOLEAN  BY <1>2 DEF Strays, TypeInv
<1>6. SelectionInv'  BY <1>4 DEF SelectionInv
<1>7. ReversedInv'
  <2>1. ~ lost' => \A l \in Memory, c \in Cols : ~ rev'[l][c]
    BY <1>1, <1>2, ResetCells
  <2>. QED  BY <1>4, <2>1 DEF ReversedInv
<1>8. ASSUME NEW over, on, Shows(pic, over), over \subseteq UnderPointer'
      PROVE  ShownInv'
  <2>1. Shows(Reset(pic), over)  BY <1>8, ResetShows
  <2>. QED  BY <1>1, <1>8, <2>1, ShownNext DEF Show
<1>. QED  BY <1>1, <1>2, <1>3, <1>4, <1>5, <1>6, <1>7, <1>8 DEF TypeInv

-----------------------------------------------------------------------------
(* The steps, one by one                                                   *)

\* The mouse moves, and the pointer with it.
LEMMA HoverInv ==
  ASSUME IInv, NEW p \in Positions, Hover(p)
  PROVE  IInv'
<1> DEFINE pic == Pointed(Cleared(Now), p)
<1>1. TypeInv /\ SelectionInv /\ ReversedInv /\ ShownInv  BY DEF IInv
<1>2. /\ ~ lost /\ on /\ Show(pic) /\ MovePointer(p)
      /\ UNCHANGED <<text, view, on, sel, at, lost>>
  BY DEF Hover, Events, Fixed
<1>3. Cleared(Now) = [rev |-> rev, fb |-> Cleared(Now).fb] /\ Shows(Cleared(Now), {})
  BY <1>1, <1>2, ClearedShows
<1>4. pic = [rev |-> rev, fb |-> pic.fb] /\ Shows(pic, Span(p, p))
  BY <1>1, <1>2, <1>3, PointedShows
<1>5. rev' = rev
  <2>1. pic.rev = rev  BY <1>4
  <2>. QED  BY <1>2, <2>1 DEF Show
<1>6. pointer' \in [drawed : BOOLEAN, at : Positions] /\ UnderPointer' = Span(p, p)
  BY <1>1, <1>2, PointerNext
<1>7. TypeInv'  BY <1>1, <1>2, <1>5, <1>6 DEF TypeInv
<1>8. SelectionInv'  BY <1>1, <1>2 DEF SelectionInv
<1>9. ReversedInv'  BY <1>1, <1>2, <1>5, SameReversed
<1>10. ShownInv'  BY <1>2, <1>4, <1>6, ShownNext
<1>. QED  BY <1>7, <1>8, <1>9, <1>10 DEF IInv

\* The selection is extended to p; a u32 that wraps ends what is followed.
LEMMA ExtendStep ==
  ASSUME IInv, ~ lost, ~ Strays, sel.selecting, NEW p \in Positions, ~ LeavesScreen(p),
         NEW pic, pic.rev = rev, NEW l \in Memory, NEW c \in Cols
  PROVE  Extended(pic, p).rev[l][c] <=> (l - view) * W + c \in Span(sel.start, p)
<1> DEFINE q == (l - view) * W + c
<1>1. TypeInv /\ SelectionInv /\ ReversedInv  BY DEF IInv
<1>2. sel.inversed /\ sel.start \in Positions /\ sel.end \in Positions /\ at = view
  BY <1>1 DEF SelectionInv, Strays
<1>3. rev[l][c] <=> q \in Span(sel.start, sel.end)
  BY <1>1, <1>2, SelectedSpan DEF ReversedInv
<1>4. rev \in Screens /\ rev[l][c] \in BOOLEAN  BY <1>1 DEF TypeInv, Screens
<1>5. q \in Int
  BY <1>1, SizeAssumption DEF TypeInv, Memory, Cols
<1>6. sel.start \in Nat /\ sel.end \in Nat /\ p \in Nat  BY <1>2, PositionCell
<1> HIDE DEF q
<1>7. CASE Turned(p)
  <2> DEFINE once == Inversed(pic, sel.start, sel.end)
  <2>1. Extended(pic, p) = Inversed(once, sel.start, p)  BY <1>7 DEF Extended
  <2>2. once.rev \in Screens /\ (once.rev[l][c] <=> (pic.rev[l][c] # (q \in Span(sel.start, sel.end))))
    BY <1>1, <1>4, InversedCells DEF q
  <2>3. once.rev[l][c] \in BOOLEAN  BY <2>2 DEF Screens
  <2> HIDE DEF once
  <2>4. Inversed(once, sel.start, p).rev[l][c] <=> (once.rev[l][c] # (q \in Span(sel.start, p)))
    BY <1>1, <2>2, InversedCells DEF q
  <2>5. ~ once.rev[l][c]  BY <1>3, <1>4, <2>2
  <2>6. Inversed(once, sel.start, p).rev[l][c] <=> q \in Span(sel.start, p)
    BY <2>3, <2>4, <2>5
  <2>. QED  BY <2>1, <2>6 DEF q
<1>8. CASE ~ Turned(p)
  <2>1. (sel.end >= sel.start) <=> (p >= sel.start)  BY <1>8 DEF Turned
  <2>2. q \in Span(sel.start, p) <=>
          ((q \in Span(sel.start, sel.end)) # (Changes(p) /\ q \in Span(ChangeFrom(p), ChangeTo(p))))
    <3>1. CASE sel.end >= sel.start
      BY <1>1, <1>2, <1>5, <2>1, <3>1, ExtendsForwards
    <3>2. CASE ~ (sel.end >= sel.start)
      <4>1. sel.end < sel.start /\ p < sel.start  BY <1>6, <2>1, <3>2
      <4>. QED  BY <1>1, <1>2, <1>5, <4>1, ExtendsBackwards
    <3>. QED  BY <3>1, <3>2
  <2>3. CASE Changes(p)
    <3>1. Extended(pic, p) = Inversed(pic, ChangeFrom(p), ChangeTo(p))
      BY <1>8, <2>3 DEF Extended
    <3>2. Extended(pic, p).rev[l][c] <=> (pic.rev[l][c] # (q \in Span(ChangeFrom(p), ChangeTo(p))))
      BY <1>1, <1>4, <3>1, InversedCells DEF q
    <3>. QED  BY <1>3, <1>4, <2>2, <2>3, <3>2 DEF q
  <2>4. CASE ~ Changes(p)
    <3>1. Extended(pic, p) = pic  BY <1>8, <2>4 DEF Extended
    <3>. QED  BY <1>3, <1>4, <2>2, <2>4, <3>1 DEF q
  <2>. QED  BY <2>3, <2>4
<1>. QED  BY <1>7, <1>8

\* What it shows, wherever the change goes.
LEMMA ExtendShows ==
  ASSUME TypeInv, NEW pic, pic.rev = rev, NEW p
  PROVE  /\ Extended(pic, p).rev \in Screens
         /\ \A over : on /\ Shows(pic, over) => Shows(Extended(pic, p), over)
<1>1. pic.rev \in Screens  BY DEF TypeInv
<1> DEFINE once == Inversed(pic, sel.start, sel.end)
<1>2. once.rev \in Screens /\ \A over : on /\ Shows(pic, over) => Shows(once, over)
  BY <1>1, InversedCells, InversedShows
<1> HIDE DEF once
<1>3. CASE Turned(p)
  <2>1. Extended(pic, p) = Inversed(once, sel.start, p)  BY <1>3 DEF Extended, once
  <2>. QED  BY <1>2, <2>1, InversedCells, InversedShows
<1>4. CASE ~ Turned(p)
  <2>1. CASE Changes(p)
    <3>1. Extended(pic, p) = Inversed(pic, ChangeFrom(p), ChangeTo(p))
      BY <1>4, <2>1 DEF Extended
    <3>. QED  BY <1>1, <3>1, InversedCells, InversedShows
  <2>2. CASE ~ Changes(p)
    <3>1. Extended(pic, p) = pic  BY <1>4, <2>2 DEF Extended
    <3>. QED  BY <1>1, <3>1
  <2>. QED  BY <2>1, <2>2
<1>. QED  BY <1>3, <1>4

\* The mouse moves with the left button down.
LEMMA DragInv ==
  ASSUME IInv, NEW p \in Positions, Drag(p)
  PROVE  IInv'
<1> DEFINE pic == Pointed(Cleared(Now), p)
<1>1. TypeInv /\ SelectionInv /\ ReversedInv /\ ShownInv  BY DEF IInv
<1>2. ~ lost /\ on /\ MovePointer(p) /\ UNCHANGED <<text, view, on>>
  BY DEF Drag, Events, Fixed
<1>3. Cleared(Now) = [rev |-> rev, fb |-> Cleared(Now).fb] /\ Shows(Cleared(Now), {})
  BY <1>1, <1>2, ClearedShows
<1>4. pic = [rev |-> rev, fb |-> pic.fb] /\ Shows(pic, Span(p, p))
  BY <1>1, <1>2, <1>3, PointedShows
<1>5. pic.rev = rev  BY <1>4
<1>6. pointer' \in [drawed : BOOLEAN, at : Positions] /\ UnderPointer' = Span(p, p)
  BY <1>1, <1>2, PointerNext
<1>7. CASE ~ sel.selecting
  <2>1. Select(pic, p, p, TRUE)  BY <1>7 DEF Drag
  <2> HIDE DEF pic
  <2>2. /\ rev' \in Screens /\ at' \in 0 .. K /\ lost' \in BOOLEAN
        /\ sel' \in [start : Ends, end : Ends, selecting : BOOLEAN, inversed : BOOLEAN]
        /\ SelectionInv' /\ ReversedInv' /\ ShownInv'
    BY <1>1, <1>2, <1>4, <1>5, <1>6, <2>1, SelectStep
  <2>3. TypeInv'  BY <1>1, <1>2, <1>6, <2>2 DEF TypeInv
  <2>. QED  BY <2>2, <2>3 DEF IInv
<1>8. CASE sel.selecting
  <2>1. /\ Show(IF LeavesScreen(p) THEN pic ELSE Extended(pic, p))
        /\ sel' = [sel EXCEPT !.end = p] /\ lost' = (LeavesScreen(p) \/ Strays)
        /\ UNCHANGED at
    BY <1>8 DEF Drag
  <2> HIDE DEF pic
  <2>2. /\ sel' \in [start : Ends, end : Ends, selecting : BOOLEAN, inversed : BOOLEAN]
        /\ sel'.start = sel.start /\ sel'.end = p
        /\ sel'.selecting = sel.selecting /\ sel'.inversed = sel.inversed
    <3>1. p \in Ends  BY DEF Ends
    <3>. QED  BY <1>1, <2>1, <3>1 DEF TypeInv
  <2>3. Extended(pic, p).rev \in Screens /\ Shows(Extended(pic, p), Span(p, p))
    BY <1>1, <1>2, <1>4, <1>5, ExtendShows
  <2>4. rev' \in Screens
    BY <1>1, <1>5, <2>1, <2>3 DEF Show, TypeInv
  <2>5. TypeInv'
    <3>1. lost' \in BOOLEAN  BY <2>1
    <3>. QED  BY <1>1, <1>2, <1>6, <2>1, <2>2, <2>4, <3>1 DEF TypeInv
  <2>6. SelectionInv'  BY <1>1, <2>2 DEF SelectionInv
  <2>7. ReversedInv'
    <3>1. SUFFICES ASSUME ~ lost', NEW l \in Memory, NEW c \in Cols
                   PROVE  rev'[l][c] <=> sel'.inversed /\ (l - at') * W + c \in Selected'
      BY DEF ReversedInv
    <3>2. ~ LeavesScreen(p) /\ ~ Strays  BY <2>1, <3>1
    <3>3. sel.inversed /\ at = view  BY <1>1, <1>8, <3>2 DEF SelectionInv, Strays
    <3>4. rev' = Extended(pic, p).rev  BY <2>1, <3>2 DEF Show
    <3>5. rev'[l][c] <=> (l - view) * W + c \in Span(sel.start, p)
      BY <1>2, <1>5, <1>8, <3>2, <3>4, ExtendStep
    <3>6. Selected' = Span(sel.start, p)
      BY <1>2, <2>1, <2>2, <3>3 DEF Selected, Span, TypeAt, CellAt, LineOf
    <3>. QED  BY <2>1, <2>2, <3>3, <3>5, <3>6
  <2>8. ShownInv'
    <3>1. CASE LeavesScreen(p)  BY <2>1, <3>1 DEF ShownInv
    <3>2. CASE ~ LeavesScreen(p)
      <4>1. Show(Extended(pic, p))  BY <2>1, <3>2
      <4>. QED  BY <1>2, <1>6, <2>3, <4>1, ShownNext
    <3>. QED  BY <3>1, <3>2
  <2>. QED  BY <2>5, <2>6, <2>7, <2>8 DEF IInv
<1>. QED  BY <1>7, <1>8

\* The left button goes down.
LEMMA PressInv ==
  ASSUME IInv, NEW p \in Positions, Press(p) \/ DoubleClick(p)
  PROVE  IInv'
<1>1. TypeInv /\ SelectionInv /\ ReversedInv /\ ShownInv  BY DEF IInv
<1>2. ~ lost /\ on /\ UNCHANGED <<text, view, on, pointer>>
  BY DEF Press, DoubleClick, Events, Fixed
<1>3. PICK a \in Positions, b \in Positions, d \in BOOLEAN : Select(Now, a, b, d)
  <2>1. CASE Press(p)  BY <2>1 DEF Press
  <2>2. CASE DoubleClick(p)  BY <2>2, WordOnScreen DEF DoubleClick
  <2>. QED  BY <2>1, <2>2
<1>4. Now.rev = rev /\ Shows(Now, UnderPointer) /\ UnderPointer' = UnderPointer
  BY <1>1, <1>2, PointerStays DEF Now, ShownInv
<1>5. /\ rev' \in Screens /\ at' \in 0 .. K /\ lost' \in BOOLEAN
      /\ sel' \in [start : Ends, end : Ends, selecting : BOOLEAN, inversed : BOOLEAN]
      /\ SelectionInv' /\ ReversedInv' /\ ShownInv'
  BY <1>1, <1>2, <1>3, <1>4, SelectStep
<1>6. TypeInv'  BY <1>1, <1>2, <1>5 DEF TypeInv
<1>. QED  BY <1>5, <1>6 DEF IInv

\* The left button comes up.
LEMMA ReleaseInv ==
  ASSUME IInv, Release
  PROVE  IInv'
<1>1. TypeInv /\ SelectionInv /\ ReversedInv /\ ShownInv  BY DEF IInv
<1>2. /\ ~ lost /\ on /\ sel' = [sel EXCEPT !.selecting = FALSE]
      /\ lost' \in BOOLEAN /\ UNCHANGED <<text, rev, view, at, pointer, on, fb>>
  BY <1>1 DEF Release, Events, TypeInv
<1>3. /\ sel' \in [start : Ends, end : Ends, selecting : BOOLEAN, inversed : BOOLEAN]
      /\ sel'.start = sel.start /\ sel'.end = sel.end
      /\ ~ sel'.selecting /\ sel'.inversed = sel.inversed
  BY <1>1, <1>2 DEF TypeInv
<1>4. TypeInv'  BY <1>1, <1>2, <1>3 DEF TypeInv
<1>5. SelectionInv'  BY <1>1, <1>3 DEF SelectionInv
<1>6. ReversedInv'
  <2>1. Selected' = Selected  BY <1>2, <1>3 DEF Selected
  <2>. QED  BY <1>1, <1>2, <1>3, <2>1 DEF ReversedInv
<1>7. ShownInv'
  <2>1. Show(Now) /\ Shows(Now, UnderPointer) /\ UnderPointer' = UnderPointer
    BY <1>1, <1>2, PointerStays DEF Show, Now, ShownInv
  <2>. QED  BY <1>2, <2>1, ShownNext
<1>. QED  BY <1>4, <1>5, <1>6, <1>7 DEF IInv

\* The right button goes down.
LEMMA PutInv ==
  ASSUME IInv, Put
  PROVE  IInv'
<1>1. TypeInv /\ SelectionInv /\ ReversedInv /\ ShownInv  BY DEF IInv
<1>2. ~ lost /\ on /\ Unselect(Now) /\ UNCHANGED <<text, view, on, pointer>>
  BY DEF Put, Events, Fixed
<1>3. Now.rev = rev /\ Shows(Now, UnderPointer) /\ UnderPointer' = UnderPointer
  BY <1>1, <1>2, PointerStays DEF Now, ShownInv
<1>4. /\ rev' \in Screens /\ at' \in 0 .. K /\ lost' \in BOOLEAN
      /\ sel' \in [start : Ends, end : Ends, selecting : BOOLEAN, inversed : BOOLEAN]
      /\ SelectionInv' /\ ReversedInv' /\ ShownInv'
  BY <1>1, <1>2, <1>3, UnselectStep
<1>5. TypeInv'  BY <1>1, <1>2, <1>4 DEF TypeInv
<1>. QED  BY <1>4, <1>5 DEF IInv

\* A pointer that is not drawn.
LEMMA PointerGone ==
  ASSUME TypeInv, pointer' = [pointer EXCEPT !.drawed = FALSE]
  PROVE  pointer' \in [drawed : BOOLEAN, at : Positions] /\ UnderPointer' = {}
<1>1. pointer' \in [drawed : BOOLEAN, at : Positions] /\ ~ pointer'.drawed
  BY DEF TypeInv
<1>. QED  BY <1>1 DEF UnderPointer

\* A key for the program.
LEMMA KeyInputInv ==
  ASSUME IInv, KeyInput
  PROVE  IInv'
<1>1. TypeInv /\ SelectionInv /\ ReversedInv /\ ShownInv  BY DEF IInv
<1>2. /\ ~ lost /\ on /\ Unselect(Cleared(Now)) /\ UNCHANGED <<text, view, on>>
      /\ pointer' = [pointer EXCEPT !.drawed = FALSE]
  BY DEF KeyInput, Events, Fixed
<1>3. Cleared(Now).rev = rev /\ Shows(Cleared(Now), {})
  BY <1>1, <1>2, ClearedShows
<1>4. pointer' \in [drawed : BOOLEAN, at : Positions] /\ UnderPointer' = {}
  BY <1>1, <1>2, PointerGone
<1>5. /\ rev' \in Screens /\ at' \in 0 .. K /\ lost' \in BOOLEAN
      /\ sel' \in [start : Ends, end : Ends, selecting : BOOLEAN, inversed : BOOLEAN]
      /\ SelectionInv' /\ ReversedInv' /\ ShownInv'
  BY <1>1, <1>2, <1>3, <1>4, UnselectStep
<1>6. TypeInv'  BY <1>1, <1>2, <1>4, <1>5 DEF TypeInv
<1>. QED  BY <1>5, <1>6 DEF IInv

\* The view of line v, if no pointer is drawn where its rows are moved from.
LEMMA ViewedShows ==
  ASSUME TypeInv, on, NEW v \in 0 .. K, NEW how, NEW pic,
         how = "copied" => Shows(pic, {}), NEW p \in Positions
  PROVE  Viewed(pic, v, how)[p] =
           Pixels(text[v + p \div W][p % W], pic.rev[v + p \div W][p % W])
<1> DEFINE stay == {q \in Positions : q + (v - view) * W \in Positions}
<1> DEFINE moved == [q \in Positions |-> IF q \in stay THEN pic.fb[q + (v - view) * W] ELSE pic.fb[q]]
<1>1. CASE how # "copied"
  <2>1. Viewed(pic, v, how) = Painted(pic.fb, pic.rev, v, Positions)  BY <1>1 DEF Viewed
  <2>. QED  BY <2>1 DEF Painted
<1>2. CASE how = "copied"
  <2>1. Viewed(pic, v, how) = Painted(moved, pic.rev, v, Positions \ stay)  BY <1>2 DEF Viewed
  <2>2. CASE p \notin stay  BY <2>1, <2>2 DEF Painted
  <2>3. CASE p \in stay
    <3> DEFINE q == p + (v - view) * W
    <3> DEFINE r == p \div W
    <3>1. Viewed(pic, v, how)[p] = pic.fb[q]  BY <2>1, <2>3 DEF Painted
    <3>2. q \in Positions  BY <2>3
    <3>3. r \in 0 .. H - 1 /\ p % W \in Cols /\ p = r * W + (p % W)  BY PositionCell
    <3>4. view \in Int /\ v \in Int /\ W \in Nat  BY SizeAssumption DEF TypeInv
    <3> HIDE DEF r
    <3>5. q = (r + (v - view)) * W + (p % W)
      <4>1. (r + (v - view)) * W = r * W + (v - view) * W  BY <3>3, <3>4
      <4>2. (v - view) * W \in Int /\ r * W \in Int /\ p % W \in Int
        BY <3>3, <3>4 DEF Cols
      <4>. QED  BY <3>3, <4>1, <4>2
    <3>6. q \in Int /\ r + (v - view) \in Int  BY <3>2, <3>3, <3>4, PositionCell
    <3> HIDE DEF q
    <3>7. q \div W = r + (v - view) /\ q % W = p % W
      BY <3>3, <3>5, <3>6, DivisionUnique
    <3>8. view + q \div W = v + r  BY <3>3, <3>4, <3>7
    <3>9. pic.fb[q] = Pixels(text[view + q \div W][q % W], pic.rev[view + q \div W][q % W])
      BY <1>2, <3>2 DEF Shows, CellAt, LineOf
    <3>. QED  BY <3>1, <3>7, <3>8, <3>9 DEF r
  <2>. QED  BY <2>2, <2>3
<1>. QED  BY <1>1, <1>2

\* The user looks into the history.
LEMMA HistoryScrollInv ==
  ASSUME IInv, NEW v \in 0 .. K, NEW how \in Outcomes, HistoryScroll(v, how)
  PROVE  IInv'
<1>1. TypeInv /\ SelectionInv /\ ReversedInv /\ ShownInv  BY DEF IInv
<1>2. /\ ~ lost /\ on /\ view' = v /\ fb' = Viewed(Now, v, how)
      /\ lost' = (pointer.drawed /\ how = "copied")
      /\ UNCHANGED <<text, rev, sel, at, pointer, on>>
  BY DEF HistoryScroll, Events
<1>3. TypeInv'
  <2>1. lost' \in BOOLEAN  BY <1>2
  <2>. QED  BY <1>1, <1>2, <2>1 DEF TypeInv
<1>4. SelectionInv'  BY <1>1, <1>2 DEF SelectionInv
<1>5. ReversedInv'  BY <1>1, <1>2, SameReversed
<1>6. ASSUME ~ lost', NEW p \in Positions
      PROVE  fb'[p] = Pixels(CellAt(p)', rev'[LineOf(p)'][p % W])
  <2>1. how = "copied" => Shows(Now, {})
    <3>1. SUFFICES ASSUME how = "copied"  PROVE Shows(Now, {})
      OBVIOUS
    <3>2. ~ pointer.drawed  BY <1>2, <1>6, <3>1
    <3>. QED  BY <1>1, <1>2, <3>2 DEF ShownInv, UnderPointer
  <2>2. fb'[p] = Pixels(text[v + p \div W][p % W], Now.rev[v + p \div W][p % W])
    BY <1>1, <1>2, <2>1, ViewedShows
  <2>. QED  BY <1>2, <2>2 DEF Now, CellAt, LineOf
<1>7. ShownInv'  BY <1>6 DEF ShownInv, Shows, Now
<1>. QED  BY <1>3, <1>4, <1>5, <1>7 DEF IInv

\* Output of the program.
LEMMA OutputInv ==
  ASSUME IInv, NEW r \in 0 .. H - 1, NEW line \in Lines, NEW how \in Outcomes,
         Output(r, line, how)
  PROVE  IInv'
<1> DEFINE pic == Reset(Cleared(Now))
<1> DEFINE plain == [pic.rev EXCEPT ![K + r] = [c \in Cols |-> FALSE]]
<1> DEFINE screen == IF view # K THEN Viewed(pic, K, how) ELSE pic.fb
<1> DEFINE row == r * W .. r * W + W - 1
<1>1. TypeInv /\ SelectionInv /\ ReversedInv /\ ShownInv  BY DEF IInv
<1>2. /\ ~ lost /\ text' = [text EXCEPT ![K + r] = line] /\ view' = K /\ rev' = plain
      /\ fb' = [p \in Positions |->
                  IF p \in row /\ on THEN Pixels(line[p % W], FALSE) ELSE screen[p]]
      /\ pointer' = [pointer EXCEPT !.drawed = FALSE]
      /\ sel' = [sel EXCEPT !.selecting = FALSE, !.inversed = FALSE]
      /\ lost' = Strays /\ UNCHANGED <<at, on>>
  BY DEF Output
<1>3. K + r \in Memory /\ K \in Nat /\ K \in 0 .. K  BY SizeAssumption DEF Memory
<1>4. Cleared(Now).rev = rev /\ (on => Shows(Cleared(Now), {}))
  BY <1>1, <1>2, ClearedShows
<1>5. pic.rev \in Screens /\ (on => Shows(pic, {}))
  BY <1>1, <1>4, ResetShows
<1>6. ~ Strays => \A l \in Memory, c \in Cols : ~ pic.rev[l][c]
  BY <1>1, <1>2, <1>4, ResetCells
<1> HIDE DEF pic
<1>7. plain \in Screens /\ \A l \in Memory : l # K + r => plain[l] = pic.rev[l]
  BY <1>3, <1>5 DEF Screens
<1>8. /\ sel' \in [start : Ends, end : Ends, selecting : BOOLEAN, inversed : BOOLEAN]
      /\ ~ sel'.selecting /\ ~ sel'.inversed
  BY <1>1, <1>2 DEF TypeInv
<1>9. pointer' \in [drawed : BOOLEAN, at : Positions]  BY <1>1, <1>2, PointerGone
<1>10. TypeInv'
  <2>1. text' \in [Memory -> Lines]  BY <1>1, <1>2 DEF TypeInv
  <2>2. lost' \in BOOLEAN  BY <1>2 DEF Strays, TypeInv
  <2> HIDE DEF plain
  <2>. QED  BY <1>1, <1>2, <1>3, <1>7, <1>8, <1>9, <2>1, <2>2 DEF TypeInv
<1>11. SelectionInv'  BY <1>8 DEF SelectionInv
<1>12. ReversedInv'
  <2>1. ASSUME ~ lost', NEW l \in Memory, NEW c \in Cols  PROVE ~ rev'[l][c]
    <3>1. ~ pic.rev[l][c]  BY <1>2, <1>6, <2>1
    <3>2. CASE l = K + r  BY <1>2, <1>3, <1>5, <3>2 DEF Screens
    <3>3. CASE l # K + r  BY <1>2, <1>7, <3>1, <3>3
    <3>. QED  BY <3>2, <3>3
  <2>. QED  BY <1>8, <2>1 DEF ReversedInv
<1>13. ASSUME on, NEW p \in Positions
       PROVE  fb'[p] = Pixels(CellAt(p)', rev'[LineOf(p)'][p % W])
  <2> DEFINE y == p \div W
  <2>1. y \in 0 .. H - 1 /\ p % W \in Cols /\ p = y * W + (p % W) /\ p \in Nat  BY PositionCell
  <2>2. CellAt(p)' = text'[K + y][p % W] /\ LineOf(p)' = K + y
    BY <1>2 DEF CellAt, LineOf
  <2>3. K + y \in Memory  BY <2>1, SizeAssumption DEF Memory
  <2>4. CASE y = r
    <3>1. p \in row
      <4> HIDE DEF y
      <4>. QED  BY <2>1, <2>4, SizeAssumption DEF Cols
    <3>2. fb'[p] = Pixels(line[p % W], FALSE)  BY <1>2, <1>13, <3>1
    <3>3. text'[K + y] = line  BY <1>1, <1>2, <1>3, <2>4 DEF TypeInv
    <3>4. rev'[K + y] = [c \in Cols |-> FALSE]  BY <1>2, <1>3, <1>5, <2>4 DEF Screens
    <3>. QED  BY <2>1, <2>2, <3>2, <3>3, <3>4
  <2>5. CASE y # r
    <3>1. p \notin row
      <4>1. ASSUME p \in row  PROVE FALSE
        <5> DEFINE c == p - r * W
        <5>1. c \in Cols /\ p = r * W + c
          BY <2>1, <4>1, SizeAssumption DEF Cols
        <5> HIDE DEF c
        <5>2. p \div W = r  BY <2>1, <5>1, DivisionUnique
        <5>. QED  BY <2>5, <5>2
      <4>. QED  BY <4>1
    <3>2. fb'[p] = screen[p]  BY <1>2, <3>1
    <3>3. screen[p] = Pixels(text[K + y][p % W], pic.rev[K + y][p % W])
      <4>1. CASE view # K
        <5>1. Viewed(pic, K, how)[p] = Pixels(text[K + p \div W][p % W], pic.rev[K + p \div W][p % W])
          BY <1>1, <1>3, <1>5, <1>13, ViewedShows
        <5>. QED  BY <4>1, <5>1
      <4>2. CASE view = K
        <5>1. pic.fb[p] = Pixels(CellAt(p), pic.rev[LineOf(p)][p % W])
          BY <1>5, <1>13 DEF Shows
        <5>. QED  BY <4>2, <5>1 DEF CellAt, LineOf
      <4>. QED  BY <4>1, <4>2
    <3>4. K + y # K + r  BY <1>3, <2>1, <2>5
    <3>5. text'[K + y] = text[K + y]  BY <1>1, <1>2, <2>3, <3>4 DEF TypeInv
    <3>6. rev'[K + y] = pic.rev[K + y]  BY <1>2, <1>7, <2>3, <3>4
    <3>. QED  BY <2>2, <3>2, <3>3, <3>5, <3>6
  <2>. QED  BY <2>4, <2>5
<1>14. ShownInv'  BY <1>2, <1>13 DEF ShownInv, Shows, Now
<1>. QED  BY <1>10, <1>11, <1>12, <1>14 DEF IInv

\* The window is painted.
LEMMA ActivateInv ==
  ASSUME IInv, Activate
  PROVE  IInv'
<1>1. TypeInv /\ SelectionInv /\ ReversedInv  BY DEF IInv
<1>2. /\ ~ lost /\ on' = TRUE
      /\ fb' = [p \in Positions |-> Pixels(CellAt(p), rev[LineOf(p)][p % W])]
      /\ UNCHANGED <<text, rev, view, sel, at, pointer, lost>>
  BY DEF Activate
<1>3. TypeInv' /\ SelectionInv'  BY <1>1, <1>2 DEF TypeInv, SelectionInv
<1>4. ReversedInv'  BY <1>1, <1>2, SameReversed
<1>5. ASSUME NEW p \in Positions
      PROVE  fb'[p] = Pixels(CellAt(p)', rev'[LineOf(p)'][p % W])
  BY <1>2 DEF CellAt, LineOf
<1>6. ShownInv'  BY <1>5 DEF ShownInv, Shows, Now
<1>. QED  BY <1>3, <1>4, <1>6 DEF IInv

\* The window is left, or nothing happens.
LEMMA DeactivateInv ==
  ASSUME IInv, Deactivate \/ UNCHANGED vars
  PROVE  IInv'
<1>1. TypeInv /\ SelectionInv /\ ReversedInv /\ ShownInv  BY DEF IInv
<1>2. UNCHANGED <<text, rev, view, sel, at, pointer, lost>>
  BY DEF Deactivate, vars
<1>3. CASE Deactivate
  <2>1. on' = FALSE  BY <1>3 DEF Deactivate
  <2>2. TypeInv' /\ SelectionInv'  BY <1>1, <1>2, <2>1 DEF TypeInv, SelectionInv
  <2>3. ReversedInv'  BY <1>1, <1>2, SameReversed DEF ReversedInv
  <2>4. ShownInv'  BY <2>1 DEF ShownInv
  <2>. QED  BY <2>2, <2>3, <2>4 DEF IInv
<1>4. CASE UNCHANGED vars
  BY <1>4 DEF vars, IInv, TypeInv, SelectionInv, ReversedInv, ShownInv, Shows, Now,
     UnderPointer, Span, TypeAt, CellAt, LineOf, Selected
<1>. QED  BY <1>3, <1>4

\* The inductive invariant holds in every state.
LEMMA Invariant ==
  Spec => []IInv
<1>1. Init => IInv  BY InitInv
<1>2. IInv /\ [Next]_vars => IInv'
  <2> SUFFICES ASSUME IInv, [Next]_vars  PROVE IInv'
    OBVIOUS
  <2>1. CASE \E p \in Positions : Hover(p)  BY <2>1, HoverInv
  <2>2. CASE \E p \in Positions : Drag(p)  BY <2>2, DragInv
  <2>3. CASE \E p \in Positions : Press(p) \/ DoubleClick(p)  BY <2>3, PressInv
  <2>4. CASE Release  BY <2>4, ReleaseInv
  <2>5. CASE Put  BY <2>5, PutInv
  <2>6. CASE KeyInput  BY <2>6, KeyInputInv
  <2>7. CASE \E v \in 0 .. K, how \in Outcomes : HistoryScroll(v, how)
    BY <2>7, HistoryScrollInv
  <2>8. CASE \E r \in 0 .. H - 1, line \in Lines, how \in Outcomes : Output(r, line, how)
    BY <2>8, OutputInv
  <2>9. CASE Activate  BY <2>9, ActivateInv
  <2>10. CASE Deactivate  BY <2>10, DeactivateInv
  <2>11. CASE UNCHANGED vars  BY <2>11, DeactivateInv
  <2>. QED
    BY <2>1, <2>2, <2>3, <2>4, <2>5, <2>6, <2>7, <2>8, <2>9, <2>10, <2>11 DEF Next
<1>. QED  BY <1>1, <1>2, PTL DEF Spec

-----------------------------------------------------------------------------
(* Theorems                                                                *)

\* The cells whose colors are reversed are those of the selection, or none,
\* for any sequence of presses, drags, releases, keys, output and looks into
\* the history (startTextSelect, middleTextSelect, resetTextSelect), until a
\* drag leaves the screen, a selection is undone in another view, or a drawn
\* pointer is copied with its row (lost).
THEOREM OnlySelectionReversedAlways ==
  Spec => []OnlySelectionReversed
<1>1. IInv => OnlySelectionReversed
  <2> SUFFICES ASSUME IInv, ~ lost
               PROVE  {x \in Memory \X Cols : rev[x[1]][x[2]]} =
                        IF ~ sel.inversed THEN {}
                        ELSE {x \in Memory \X Cols : (x[1] - at) * W + x[2] \in Selected}
    BY DEF OnlySelectionReversed
  <2>1. \A x \in Memory \X Cols :
          rev[x[1]][x[2]] <=> sel.inversed /\ (x[1] - at) * W + x[2] \in Selected
    BY DEF IInv, ReversedInv
  <2>. QED  BY <2>1
<1>. QED  BY <1>1, Invariant, PTL

\* The active window shows its text with the selection, and a drawn pointer
\* over one character at most (mouseInput, clearMousePointer, historyDisplay),
\* with the same exceptions (lost).
THEOREM TextShownAlways ==
  Spec => []TextShown
<1>1. IInv => TextShown
  BY DEF IInv, ShownInv, Shows, Now, UnderPointer, TextShown
<1>. QED  BY <1>1, Invariant, PTL

\* Text kept while a selection is shown is what it shows as selected, each
\* double width character once, wherever its ends cut one in two
\* (endTextSelect).
THEOREM KeepsWhatIsShownAlways ==
  Spec => KeepsWhatIsShown
<1> DEFINE Kept ==
      kept' # <<>> /\ sel.inversed /\ at = view =>
        LET reversed == {p \in Positions : rev[LineOf(p)][p % W] /\ TypeAt(p) # "R"}
        IN  /\ Len(kept') = Cardinality(reversed)
            /\ \A p \in reversed :
                 kept'[Cardinality({q \in reversed : q <= p})] = CellAt(p).ch
<1>1. ASSUME IInv, Release, kept' # <<>>, sel.inversed, at = view,
             NEW R, R = {p \in Positions : rev[LineOf(p)][p % W] /\ TypeAt(p) # "R"}
      PROVE  /\ Len(kept') = Cardinality(R)
             /\ \A p \in R : kept'[Cardinality({q \in R : q <= p})] = CellAt(p).ch
  <2>1. TypeInv /\ SelectionInv /\ ReversedInv /\ ~ lost
    BY <1>1 DEF IInv, Release, Events
  <2>2. sel.start \in Positions /\ sel.end \in Positions  BY <1>1, <2>1 DEF SelectionInv
  <2>3. sel.start \in Nat /\ sel.end \in Nat  BY <2>2, PositionCell
  <2>4. PICK a \in Positions, b \in Positions :
          a = Least(sel.start, sel.end) /\ b = Most(sel.start, sel.end)
    BY <2>2 DEF Least, Most
  <2>5. a <= b  BY <2>3, <2>4 DEF Least, Most
  <2>6. kept' = CharsFrom(a, b)  BY <1>1, <2>2, <2>4 DEF Release
  <2>7. Span(sel.start, sel.end) = Lo(a) .. Hi(b)  BY <2>4 DEF Span, Lo, Hi
  <2>8. ASSUME NEW p \in Positions  PROVE rev[LineOf(p)][p % W] <=> p \in Lo(a) .. Hi(b)
    <3>1. LineOf(p) \in Memory /\ p % W \in Cols /\ (LineOf(p) - view) * W + (p % W) = p
      BY <2>1, ShownLine DEF TypeInv, LineOf
    <3>2. rev[LineOf(p)][p % W] <=> (LineOf(p) - at) * W + (p % W) \in Selected
      BY <1>1, <2>1, <3>1 DEF ReversedInv
    <3>. QED  BY <1>1, <2>7, <3>1, <3>2, SelectedSpan
  <2>9. R = {p \in Lo(a) .. Hi(b) : TypeAt(p) # "R"}
    <3>1. Lo(a) .. Hi(b) \subseteq Positions
      <4>1. Lo(a) \in Nat /\ Hi(b) \in Nat /\ Hi(b) < W * H  BY <2>1, Character
      <4>2. W * H \in Nat  BY SizeAssumption
      <4>. QED  BY <4>1, <4>2 DEF Positions
    <3>. QED  BY <1>1, <2>8, <3>1
  <2>10. /\ Len(CharsFrom(a, b)) = Cardinality(R)
         /\ \A p \in R : CharsFrom(a, b)[Rank(R, p)] = CellAt(p).ch
    <3>1. TypeInv  BY <2>1
    <3>. QED  BY <3>1, <2>5, <2>9, KeptIsSelected, SMTT(30)
  <2>11. ASSUME NEW p \in R PROVE kept'[Cardinality({q \in R : q <= p})] = CellAt(p).ch
    <3>1. kept'[Rank(R, p)] = CellAt(p).ch  BY <2>6, <2>10, Zenon
    <3>. QED  BY <3>1, Zenon DEF Rank
  <2>. QED  BY <2>6, <2>10, <2>11, Zenon
<1>2. IInv /\ [Next]_vars => [Kept]_vars
  <2> SUFFICES ASSUME IInv, Next, kept' # <<>>, ~ UNCHANGED vars, sel.inversed, at = view
               PROVE  Kept
    OBVIOUS
  <2>1. Release
    <3>1. \A p \in Positions : ~ Hover(p) /\ ~ Drag(p) /\ ~ Press(p) /\ ~ DoubleClick(p)
      BY DEF Hover, Drag, Press, DoubleClick, Fixed
    <3>2. ~ Put /\ ~ KeyInput /\ ~ Activate /\ ~ Deactivate
      BY DEF Put, KeyInput, Activate, Deactivate, Fixed
    <3>3. \A v \in 0 .. K, how \in Outcomes : ~ HistoryScroll(v, how)  BY DEF HistoryScroll
    <3>4. \A r \in 0 .. H - 1, line \in Lines, how \in Outcomes : ~ Output(r, line, how)
      BY DEF Output
    <3>. QED  BY <3>1, <3>2, <3>3, <3>4 DEF Next
  <2>. QED  BY <1>1, <2>1
<1>. QED  BY <1>2, Invariant, PTL DEF KeepsWhatIsShown, Spec

-----------------------------------------------------------------------------
(* One row: how it is drawn, edited and kept up with.                      *)

Chars == Letters \cup Wides \cup {Blank}
CellType == [ch : Chars, type : {"S", "L", "R"}]

\* How many columns of a set there are from a on to n.
Count(P, a, n) == Cardinality({k \in Row!Cols : k \in a .. n /\ k \in P})

\* What is counted in the module of the row is counted here.
LEMMA SameCardinality == \A S : Row!Cardinality(S) = Cardinality(S)
BY DEF Row!Cardinality, Cardinality

\* Counting goes column by column.
LEMMA CountNext ==
  ASSUME W \in Nat, NEW P, NEW a \in Row!Cols, NEW m \in Row!Cols, a <= m
  PROVE  /\ Count(P, a, m - 1) \in Nat
         /\ Count(P, a, m) = Count(P, a, m - 1) + (IF m \in P THEN 1 ELSE 0)
<1> DEFINE before == {k \in Row!Cols : k \in a .. m - 1 /\ k \in P}
<1> DEFINE upto == {k \in Row!Cols : k \in a .. m /\ k \in P}
<1>1. IsFiniteSet(before)
  <2>1. IsFiniteSet(0 .. W - 1)  BY FS_Interval
  <2>. QED  BY <2>1, FS_Subset DEF Row!Cols
<1>2. Cardinality(before) \in Nat  BY <1>1, FS_CardinalityType
<1>3. CASE m \in P
  <2>1. upto = before \cup {m} /\ m \notin before  BY <1>3 DEF Row!Cols
  <2> HIDE DEF before, upto
  <2>2. Cardinality(upto) = Cardinality(before) + 1  BY <1>1, <2>1, FS_AddElement
  <2>. QED  BY <1>2, <1>3, <2>2 DEF Count, before, upto
<1>4. CASE m \notin P
  <2>1. upto = before  BY <1>4 DEF Row!Cols
  <2>. QED  BY <1>2, <1>4, <2>1 DEF Count
<1>. QED  BY <1>3, <1>4

\* There is nothing to the left of the first column.
LEMMA CountNothing ==
  ASSUME W \in Nat, NEW P, NEW a \in Row!Cols
  PROVE  Count(P, a, a - 1) = 0
<1>1. {k \in Row!Cols : k \in a .. a - 1 /\ k \in P} = {}  BY DEF Row!Cols
<1>. QED  BY <1>1, FS_EmptySet DEF Count

\* The columns that hold a character, and those of the wide ones.
Full(row) == {k \in Row!Cols : row[k].type # "R"}
Wide(row) == {k \in Row!Cols : row[k].type = "L"}

\* In a row of whole characters the one in column c is drawn there.
LEMMA DrawnHere ==
  ASSUME W \in Nat, NEW row, Row!Whole(row), \A k \in Row!Cols : row[k].type \in {"S", "L", "R"},
         NEW start \in Row!Cols, row[start].type # "R", NEW c \in Row!Cols, start <= c
  PROVE  Row!DrawnFrom(row, start, c) = IF row[c].type = "R" THEN c + 1 ELSE c
<1> DEFINE G(m) == Count(Full(row), start, m - 1) + Count(Wide(row), start, m - 1)
<1> DEFINE Right(m) == G(m) = (IF row[m].type = "R" THEN m + 1 ELSE m) - start
<1> DEFINE bad == {m \in Row!Cols : start <= m /\ ~ Right(m)}
<1>1. bad = {}
  <2>1. SUFFICES ASSUME bad # {} PROVE FALSE  OBVIOUS
  <2>2. PICK m \in bad : \A k \in bad : m <= k
    <3>1. bad \subseteq Nat  BY DEF Row!Cols
    <3> HIDE DEF bad
    <3>. QED  BY <2>1, <3>1, LeastElement
  <2>3. m \in Row!Cols /\ start <= m /\ ~ Right(m)  OBVIOUS
  <2>4. CASE m = start
    <3>1. G(m) = 0  BY <2>4, CountNothing
    <3>. QED  BY <2>3, <2>4, <3>1 DEF Row!Cols
  <2>5. CASE m # start
    <3> DEFINE n == m - 1
    <3>1. n \in Row!Cols /\ start <= n /\ m = n + 1  BY <2>3, <2>5 DEF Row!Cols
    <3>2. n \notin bad  BY <2>2, <3>1 DEF Row!Cols
    <3>3. Right(n)  BY <3>1, <3>2
    <3> HIDE DEF bad
    <3>4. /\ Count(Full(row), start, n - 1) \in Nat
          /\ Count(Full(row), start, n)
               = Count(Full(row), start, n - 1) + (IF n \in Full(row) THEN 1 ELSE 0)
      BY <3>1, CountNext
    <3>5. /\ Count(Wide(row), start, n - 1) \in Nat
          /\ Count(Wide(row), start, n)
               = Count(Wide(row), start, n - 1) + (IF n \in Wide(row) THEN 1 ELSE 0)
      BY <3>1, CountNext
    <3>6. Row!IsWhole(row, n) /\ Row!IsWhole(row, m)  BY <2>3, <3>1 DEF Row!Whole
    <3>7. row[n].type \in {"S", "L", "R"} /\ row[m].type \in {"S", "L", "R"}  BY <2>3, <3>1
    <3>8. G(n) = Count(Full(row), start, n - 1) + Count(Wide(row), start, n - 1)
          /\ G(m) = Count(Full(row), start, n) + Count(Wide(row), start, n)
      BY <3>1
    <3>9. G(m) = G(n) + (IF n \in Full(row) THEN 1 ELSE 0) + (IF n \in Wide(row) THEN 1 ELSE 0)
      BY <3>4, <3>5, <3>8
    <3>10. G(n) = (IF row[n].type = "R" THEN n + 1 ELSE n) - start  BY <3>3
    <3> HIDE DEF G
    <3>11. row[n].type = "L" <=> row[m].type = "R"
      <4>1. row[n].type = "L" => row[m].type = "R"  BY <3>1, <3>6 DEF Row!IsWhole, Row!Cell
      <4>2. row[m].type = "R" => row[n].type = "L"  BY <3>1, <3>6 DEF Row!IsWhole, Row!Cell
      <4>. QED  BY <4>1, <4>2
    <3>12. G(m) = (IF row[m].type = "R" THEN m + 1 ELSE m) - start
      BY <3>1, <3>7, <3>9, <3>10, <3>11 DEF Full, Wide, Row!Cols
    <3>. QED  BY <2>3, <3>12 DEF G
  <2>. QED  BY <2>4, <2>5
<1>2. Right(c)  BY <1>1
<1>3. Row!DrawnFrom(row, start, c) = start + G(c)
  <2>1. /\ {k \in Row!Cols : k \in start .. c - 1 /\ k \in Full(row)}
           = {k \in Row!Cols : k \in start .. c - 1 /\ row[k].type # "R"}
        /\ {k \in Row!Cols : k \in start .. c - 1 /\ k \in Wide(row)}
           = {k \in Row!Cols : k \in start .. c - 1 /\ row[k].type = "L"}
    BY DEF Full, Wide
  <2>2. /\ Count(Full(row), start, c - 1) \in Nat
        /\ Count(Wide(row), start, c - 1) \in Nat
    BY CountNext
  <2>3. Row!DrawnFrom(row, start, c)
              = start + Count(Full(row), start, c - 1) + Count(Wide(row), start, c - 1)
    <3> DEFINE filled == {k \in Row!Cols : k \in start .. c - 1 /\ row[k].type # "R"}
    <3> DEFINE doubled == {k \in Row!Cols : k \in start .. c - 1 /\ row[k].type = "L"}
    <3> DEFINE full == Row!Cardinality(filled)
    <3> DEFINE wide == Row!Cardinality(doubled)
    <3>1. full = Count(Full(row), start, c - 1) /\ wide = Count(Wide(row), start, c - 1)
      <4>1. /\ Cardinality(filled) = Count(Full(row), start, c - 1)
            /\ Cardinality(doubled) = Count(Wide(row), start, c - 1)
        BY <2>1, Zenon DEF Count
      <4> HIDE DEF filled, doubled
      <4>. QED  BY <4>1, SameCardinality
    <3>2. Row!DrawnFrom(row, start, c) = start + full + wide  BY DEF Row!DrawnFrom
    <3> HIDE DEF full, wide
    <3>. QED  BY <3>1, <3>2
  <2>. QED  BY <2>2, <2>3 DEF Row!Cols
<1> HIDE DEF G
<1>. QED  BY <1>2, <1>3 DEF Row!Cols

\* The range expose draws of a row of whole characters ends with no half of one.
LEMMA ExposedEnds ==
  ASSUME W \in Nat, NEW row, Row!Whole(row), \A k \in Row!Cols : row[k].type \in {"S", "L", "R"},
         NEW sx \in Row!Cols, NEW ex \in Row!Cols, sx <= ex
  PROVE  /\ Row!ExposedStart(row, sx) \in Row!Cols /\ Row!ExposedEnd(row, ex) \in Row!Cols
         /\ Row!ExposedStart(row, sx) <= sx /\ ex <= Row!ExposedEnd(row, ex)
         /\ row[Row!ExposedStart(row, sx)].type # "R" /\ row[Row!ExposedEnd(row, ex)].type # "L"
         /\ Row!Exposed(row, sx, ex) = Row!ExposedStart(row, sx) .. Row!ExposedEnd(row, ex)
<1>1. Row!IsWhole(row, sx) /\ Row!IsWhole(row, ex)  BY DEF Row!Whole
<1>2. /\ Row!ExposedStart(row, sx) \in Row!Cols /\ Row!ExposedStart(row, sx) <= sx
      /\ row[Row!ExposedStart(row, sx)].type # "R"
  <2>1. CASE row[sx].type = "R"
    <3>1. sx - 1 \in Row!Cols /\ row[sx - 1].type = "L"  BY <1>1, <2>1 DEF Row!IsWhole, Row!Cell
    <3>. QED  BY <2>1, <3>1 DEF Row!ExposedStart, Row!Cols
  <2>2. CASE row[sx].type # "R"  BY <2>2 DEF Row!ExposedStart, Row!Cols
  <2>. QED  BY <2>1, <2>2
<1>3. /\ Row!ExposedEnd(row, ex) \in Row!Cols /\ ex <= Row!ExposedEnd(row, ex)
      /\ row[Row!ExposedEnd(row, ex)].type # "L"
  <2>1. CASE row[ex].type = "L"
    <3>1. ex + 1 \in Row!Cols /\ row[ex + 1].type = "R"  BY <1>1, <2>1 DEF Row!IsWhole, Row!Cell
    <3>. QED  BY <2>1, <3>1 DEF Row!ExposedEnd, Row!Cols
  <2>2. CASE row[ex].type # "L"  BY <2>2 DEF Row!ExposedEnd, Row!Cols
  <2>. QED  BY <2>1, <2>2
<1>. QED  BY <1>2, <1>3 DEF Row!Exposed, Row!Cols

\* Of a row of whole characters expose draws what is in the columns it exposes.
LEMMA DrawnRight ==
  ASSUME W \in Nat, NEW row, Row!Whole(row), \A k \in Row!Cols : row[k] \in CellType,
         NEW sx \in Row!Cols, NEW ex \in Row!Cols, sx <= ex, NEW p \in Row!Cols
  PROVE  Row!DrawnIn(row, sx, ex, p) = IF p \in Row!Exposed(row, sx, ex) THEN {row[p]} ELSE {}
<1> DEFINE s == Row!ExposedStart(row, sx)
<1> DEFINE e == Row!ExposedEnd(row, ex)
<1> DEFINE At(c) == Row!DrawnFrom(row, s, c)
<1> DEFINE Half(c) == IF row[c].type = "L" /\ p # At(c) THEN "R" ELSE row[c].type
<1> DEFINE Covers(c) == /\ row[c].type # "R"
                        /\ p - At(c) \in IF row[c].type = "L" THEN 0 .. 1 ELSE {0}
<1>0. \A k \in Row!Cols : /\ row[k] = Row!Cell(row[k].ch, row[k].type)
                           /\ row[k].type \in {"S", "L", "R"}
  BY DEF CellType, Row!Cell
<1>1. /\ s \in Row!Cols /\ e \in Row!Cols /\ row[s].type # "R" /\ row[e].type # "L"
      /\ Row!Exposed(row, sx, ex) = s .. e
  BY <1>0, ExposedEnds
<1>2. Row!DrawnIn(row, sx, ex, p)
            = {Row!Cell(row[c].ch, Half(c)) : c \in {k \in Row!Cols \cap (s .. e) : Covers(k)}}
  BY <1>1 DEF Row!DrawnIn
<1>3. ASSUME NEW c \in Row!Cols \cap (s .. e), row[c].type # "R"
      PROVE  At(c) = c
  <2>1. s <= c  BY <1>1 DEF Row!Cols
  <2>. QED  BY <1>0, <1>1, <1>3, <2>1, DrawnHere
<1> HIDE DEF s, e
<1>4. ASSUME NEW c \in Row!Cols \cap (s .. e), Covers(c)
      PROVE  p \in s .. e /\ Row!Cell(row[c].ch, Half(c)) = row[p]
  <2>1. row[c].type # "R" /\ At(c) = c  BY <1>3, <1>4
  <2> HIDE DEF At
  <2>2. CASE p = c
    <3>1. Half(c) = row[c].type  BY <2>1, <2>2
    <3>. QED  BY <1>0, <2>2, <3>1
  <2>3. CASE p # c
    <3>1. row[c].type = "L" /\ p = c + 1
      BY <1>0, <1>4, <2>1, <2>3 DEF Row!Cols
    <3>2. Row!IsWhole(row, c)  BY DEF Row!Whole
    <3>3. row[p] = Row!Cell(row[c].ch, "R")  BY <3>1, <3>2 DEF Row!IsWhole
    <3>4. Half(c) = "R"  BY <2>1, <3>1 DEF Row!Cols
    <3>5. c # e  BY <1>1, <3>1
    <3>. QED  BY <1>1, <3>1, <3>3, <3>4, <3>5 DEF Row!Cols
  <2>. QED  BY <2>2, <2>3
<1>5. ASSUME p \in s .. e
      PROVE  \E c \in Row!Cols \cap (s .. e) : Covers(c)
  <2>1. CASE row[p].type # "R"
    <3>1. At(p) = p  BY <1>3, <1>5, <2>1
    <3> HIDE DEF At
    <3>2. Covers(p)  BY <2>1, <3>1 DEF Row!Cols
    <3>. QED  BY <1>5, <3>2
  <2>2. CASE row[p].type = "R"
    <3>1. Row!IsWhole(row, p)  BY DEF Row!Whole
    <3>2. p - 1 \in Row!Cols /\ row[p - 1].type = "L"  BY <2>2, <3>1 DEF Row!IsWhole, Row!Cell
    <3>3. p # s  BY <1>1, <2>2
    <3>4. p - 1 \in Row!Cols \cap (s .. e)  BY <1>1, <1>5, <3>2, <3>3 DEF Row!Cols
    <3>5. At(p - 1) = p - 1  BY <1>3, <3>2, <3>4
    <3> HIDE DEF At
    <3>6. Covers(p - 1)  BY <3>2, <3>5 DEF Row!Cols
    <3>. QED  BY <3>4, <3>6
  <2>. QED  BY <2>1, <2>2
<1> DEFINE here == {k \in Row!Cols \cap (s .. e) : Covers(k)}
<1>6. CASE p \in s .. e
  <2>1. PICK c \in here : TRUE  BY <1>5, <1>6
  <2>2. \A k \in here : Row!Cell(row[k].ch, Half(k)) = row[p]  BY <1>4
  <2> HIDE DEF here, Half
  <2>3. {Row!Cell(row[k].ch, Half(k)) : k \in here} = {row[p]}  BY <2>1, <2>2, Zenon
  <2>. QED  BY <1>1, <1>2, <1>6, <2>3 DEF here
<1>7. CASE p \notin s .. e
  <2>1. here = {}  BY <1>4, <1>7
  <2> HIDE DEF Half
  <2>2. {Row!Cell(row[k].ch, Half(k)) : k \in here} = {}  BY <2>1
  <2>. QED  BY <1>1, <1>2, <1>7, <2>2
<1>. QED  BY <1>6, <1>7

-----------------------------------------------------------------------------
Pixel == [ch : Chars, type : {"S", "L", "R", "?"}, mark : {"no", "inverse", "bar"}]
Cursor == [x : 0 .. W, cell : CellType, showed : BOOLEAN]

RowTypes ==
  /\ cells \in [Row!Cols -> CellType]
  /\ dirty \in (0 .. W) \X Row!Cols
  /\ cx \in 0 .. W
  /\ wrap \in BOOLEAN /\ insert \in BOOLEAN /\ visible \in BOOLEAN
  /\ shape \in {"none", "underline", "block"}
  /\ drawn \in Cursor
  /\ shows \in [Row!Cols -> Pixel]
  /\ active \in BOOLEAN /\ busy \in BOOLEAN /\ torn \in BOOLEAN /\ late \in BOOLEAN
  /\ left \in BOOLEAN

\* A display shows the row, with the cursor in the columns P, but in those of B.
ShowsRow(screen, B) ==
  \A p \in Row!Cols : p \in B \/ Row!Cell(screen[p].ch, screen[p].type) = cells[p]
MarksOnly(screen, P, B) ==
  \A p \in Row!Cols : p \in B \/ (screen[p].mark # "no" <=> p \in P)

\* What is marked as changed, and what update draws for it.
Dirty == dirty[1] .. dirty[2]

\* Whether a mark of the old cursor will be painted over: it can be the other half
\* of a character of which one is to be drawn.
Wiped(p) ==
  \/ shows[p].mark = "no"
  \/ cells[p].type = "R" /\ p - 1 \in Dirty
  \/ cells[p].type = "L" /\ p + 1 \in Dirty

\* While output is processed, what the display does not show is marked as changed.
PendingInv ==
  active /\ busy =>
    \A p \in Row!Cols : \/ p \in Dirty \/ p \in Row!LeftBehind
                        \/ Row!Cell(shows[p].ch, shows[p].type) = cells[p] /\ Wiped(p)

\* A cursor that can blink is where the program left it, over what is there.
CursorInv ==
  /\ drawn.x = W => ~ drawn.showed
  /\ ~ busy /\ visible => drawn.x = W \/ (drawn.x = cx /\ drawn.cell = cells[cx])

WholeInv == ~ busy /\ active /\ ~ torn => Row!Whole(cells)
FollowedInv == busy => ~ torn /\ ~ late

Under == IF visible /\ drawn.showed THEN Row!CursorCells(drawn) ELSE {}
SettledInv ==
  active /\ ~ busy /\ ~ torn /\ ~ late => ShowsRow(shows, Row!LeftBehind) /\ MarksOnly(shows, Under, Row!LeftBehind)

RowInv == RowTypes /\ FollowedInv /\ WholeInv /\ CursorInv /\ PendingInv /\ SettledInv

Width == W \in Nat /\ W >= 2

-----------------------------------------------------------------------------
\* What is painted of a row of whole characters, and that it is of its type.
LEMMA PaintedRow ==
  ASSUME Width, cells \in [Row!Cols -> CellType], active', NEW screen \in [Row!Cols -> Pixel],
         NEW sx \in Row!Cols, NEW ex \in Row!Cols, sx <= ex
  PROVE  /\ Row!Painted(screen, sx, ex) \in [Row!Cols -> Pixel]
         /\ Row!Whole(cells) => \A p \in Row!Cols :
                  Row!Painted(screen, sx, ex)[p]
                        = IF p \in Row!Exposed(cells, sx, ex) THEN Row!Shown(cells[p]) ELSE screen[p]
<1> DEFINE D(p) == Row!DrawnIn(cells, sx, ex, p)
<1> DEFINE new(p) == IF D(p) = {} THEN screen[p] ELSE Row!Shown(CHOOSE cell \in D(p) : TRUE)
<1>1. Row!Painted(screen, sx, ex) = [p \in Row!Cols |-> new(p)]  BY DEF Row!Painted
<1>2. ASSUME NEW p \in Row!Cols PROVE D(p) \subseteq CellType
  <2>1. \A c \in Row!Cols : cells[c].ch \in Chars /\ cells[c].type \in {"S", "L", "R"}
    BY DEF CellType
  <2>. QED  BY <2>1 DEF Row!DrawnIn, Row!Cell, CellType
<1>3. ASSUME NEW p \in Row!Cols, Row!Whole(cells)
      PROVE  D(p) = IF p \in Row!Exposed(cells, sx, ex) THEN {cells[p]} ELSE {}
  <2>1. W \in Nat  BY DEF Width
  <2>. QED  BY <1>3, <2>1, DrawnRight
<1> HIDE DEF D
<1>4. ASSUME NEW p \in Row!Cols PROVE new(p) \in Pixel
  <2>1. CASE D(p) = {}  BY <2>1
  <2>2. CASE D(p) # {}
    <3> DEFINE cell == CHOOSE cell \in D(p) : TRUE
    <3>1. cell \in CellType  BY <1>2, <2>2
    <3> HIDE DEF cell
    <3>2. Row!Shown(cell) \in Pixel  BY <3>1 DEF Row!Shown, Pixel, CellType
    <3>. QED  BY <2>2, <3>2 DEF cell
  <2>. QED  BY <2>1, <2>2
<1>5. ASSUME NEW p \in Row!Cols, Row!Whole(cells)
      PROVE  new(p) = IF p \in Row!Exposed(cells, sx, ex) THEN Row!Shown(cells[p]) ELSE screen[p]
  <2>1. CASE p \in Row!Exposed(cells, sx, ex)
    <3>1. D(p) = {cells[p]}  BY <1>3, <1>5, <2>1
    <3>2. (CHOOSE cell \in {cells[p]} : TRUE) = cells[p]  OBVIOUS
    <3>. QED  BY <2>1, <3>1, <3>2
  <2>2. CASE p \notin Row!Exposed(cells, sx, ex)  BY <1>3, <1>5, <2>2
  <2>. QED  BY <2>1, <2>2
<1> HIDE DEF new
<1>. QED  BY <1>1, <1>4, <1>5

\* The columns of a cursor over a row of whole characters, and what it draws there.
LEMMA CursorOverRow ==
  ASSUME Width, cells \in [Row!Cols -> CellType], Row!Whole(cells),
         shape \in {"none", "underline", "block"},
         NEW c \in Cursor, c.x # W, c.cell = cells[c.x],
         NEW screen \in [Row!Cols -> Pixel], NEW B, ShowsRow(screen, B),
         NEW p \in Row!CursorCells(c)
  PROVE  /\ p \in Row!Cols
         /\ Row!CursorDrawn(screen, c, p).mark # "no" <=> c.showed
         /\ \/ p \in B
            \/ Row!Cell(Row!CursorDrawn(screen, c, p).ch, Row!CursorDrawn(screen, c, p).type) = cells[p]
<1>1. c.x \in Row!Cols /\ c.x \in Int /\ c.showed \in BOOLEAN  BY DEF Cursor, Row!Cols, Width
<1>2. Row!IsWhole(cells, c.x)  BY <1>1 DEF Row!Whole
<1>3. /\ cells[c.x].type \in {"S", "L", "R"} /\ cells[c.x].ch \in Chars
      /\ cells[c.x] = Row!Cell(cells[c.x].ch, cells[c.x].type)
  BY <1>1 DEF CellType, Row!Cell
<1>4. CASE shape = "block"
  <2> DEFINE half == IF c.cell.type = "S" THEN "S"
                     ELSE IF p = c.x - (IF c.cell.type = "R" THEN 1 ELSE 0) THEN "L" ELSE "R"
  <2>1. p \in Row!Cols /\ cells[p] = Row!Cell(c.cell.ch, half)
    <3>1. CASE cells[c.x].type = "S"
      <4>1. p = c.x  BY <1>4, <3>1 DEF Row!CursorCells
      <4>. QED  BY <1>1, <1>3, <3>1, <4>1
    <3>2. CASE cells[c.x].type = "L"
      <4>1. p = c.x \/ p = c.x + 1  BY <1>4, <3>2 DEF Row!CursorCells
      <4>2. c.x + 1 \in Row!Cols /\ cells[c.x + 1] = Row!Cell(cells[c.x].ch, "R")
        BY <1>2, <3>2 DEF Row!IsWhole
      <4>3. half = IF p = c.x THEN "L" ELSE "R"  BY <1>1, <3>2
      <4>4. CASE p = c.x  BY <1>1, <1>3, <3>2, <4>3, <4>4
      <4>5. CASE p = c.x + 1  BY <1>1, <4>2, <4>3, <4>5
      <4>. QED  BY <4>1, <4>4, <4>5
    <3>3. CASE cells[c.x].type = "R"
      <4>1. c.x - 1 \in Row!Cols /\ cells[c.x - 1] = Row!Cell(cells[c.x].ch, "L")
        BY <1>2, <3>3 DEF Row!IsWhole
      <4>2. p = c.x \/ p = c.x - 1  BY <1>4, <3>3 DEF Row!CursorCells
      <4>3. half = IF p = c.x - 1 THEN "L" ELSE "R"  BY <1>1, <3>3
      <4>4. CASE p = c.x  BY <1>1, <1>3, <3>3, <4>3, <4>4
      <4>5. CASE p = c.x - 1  BY <1>1, <4>1, <4>3, <4>5
      <4>. QED  BY <4>2, <4>4, <4>5
    <3>. QED  BY <1>3, <3>1, <3>2, <3>3
  <2>2. Row!CursorDrawn(screen, c, p)
              = [Row!Shown(Row!Cell(c.cell.ch, half)) EXCEPT !.mark = IF c.showed THEN "inverse" ELSE "no"]
    BY <1>4 DEF Row!CursorDrawn
  <2> HIDE DEF half
  <2>3. /\ Row!CursorDrawn(screen, c, p).mark = IF c.showed THEN "inverse" ELSE "no"
        /\ Row!Cell(Row!CursorDrawn(screen, c, p).ch, Row!CursorDrawn(screen, c, p).type)
                 = Row!Cell(c.cell.ch, half)
    BY <2>2 DEF Row!Shown, Row!Cell
  <2>. QED  BY <1>1, <2>1, <2>3
<1>5. CASE shape = "underline"
  <2>1. p = c.x  BY <1>5 DEF Row!CursorCells
  <2>2. Row!CursorDrawn(screen, c, p)
              = [screen[p] EXCEPT !.mark = IF c.showed THEN "bar" ELSE "no"]
    BY <1>5 DEF Row!CursorDrawn
  <2>3. screen[p] \in Pixel /\ p \in Row!Cols  BY <1>1, <2>1
  <2>4. /\ Row!CursorDrawn(screen, c, p).mark = IF c.showed THEN "bar" ELSE "no"
        /\ Row!CursorDrawn(screen, c, p).ch = screen[p].ch
        /\ Row!CursorDrawn(screen, c, p).type = screen[p].type
    BY <2>2, <2>3 DEF Pixel
  <2>. QED  BY <1>1, <2>3, <2>4 DEF ShowsRow
<1>6. CASE shape = "none"  BY <1>6 DEF Row!CursorCells
<1>. QED  BY <1>4, <1>5, <1>6

\* What updateCursor makes of the display and of mCursor.
LEMMA CursorTypes ==
  ASSUME Width, shape \in {"none", "underline", "block"},
         NEW c \in Cursor, c.x = W => ~ c.showed, NEW screen \in [Row!Cols -> Pixel],
         Row!UpdateCursor(screen, c)
  PROVE  /\ shows' \in [Row!Cols -> Pixel] /\ drawn' \in Cursor
         /\ drawn'.x = c.x /\ drawn'.cell = c.cell
         /\ drawn'.x = W => ~ drawn'.showed
<1> DEFINE toggled == [c EXCEPT !.showed = ~ @]
<1>1. toggled \in Cursor /\ toggled.x = c.x /\ toggled.cell = c.cell  BY DEF Cursor
<1>2. c.x \in 0 .. W  BY DEF Cursor
<1>3. CASE active' /\ c.x < W
  <2>1. drawn' = toggled /\ shows' = Row!WithCursor(screen, toggled)  BY <1>3 DEF Row!UpdateCursor
  <2> HIDE DEF toggled
  <2>2. ASSUME NEW p \in Row!Cols PROVE Row!CursorDrawn(screen, toggled, p) \in Pixel
    <3>1. screen[p] \in Pixel  OBVIOUS
    <3>2. toggled.cell.ch \in Chars  BY <1>1 DEF Cursor, CellType
    <3> DEFINE half == IF toggled.cell.type = "S" THEN "S"
               ELSE IF p = toggled.x - (IF toggled.cell.type = "R" THEN 1 ELSE 0) THEN "L" ELSE "R"
    <3> DEFINE mark == IF ~ toggled.showed THEN "no"
                       ELSE IF shape = "block" THEN "inverse" ELSE "bar"
    <3> DEFINE base == IF shape = "block" THEN Row!Shown(Row!Cell(toggled.cell.ch, half)) ELSE screen[p]
    <3>3. half \in {"S", "L", "R"}  OBVIOUS
    <3>4. mark \in {"no", "inverse", "bar"}  OBVIOUS
    <3>5. Row!CursorDrawn(screen, toggled, p) = [base EXCEPT !.mark = mark]  BY DEF Row!CursorDrawn
    <3> HIDE DEF half, mark
    <3>6. base \in Pixel  BY <3>1, <3>2, <3>3 DEF Pixel, Row!Shown, Row!Cell
    <3> HIDE DEF base
    <3>. QED  BY <3>4, <3>5, <3>6 DEF Pixel
  <2>3. Row!WithCursor(screen, toggled) \in [Row!Cols -> Pixel]  BY <2>2 DEF Row!WithCursor
  <2>4. c.x # W  BY <1>2, <1>3 DEF Width
  <2>. QED  BY <1>1, <2>1, <2>3, <2>4
<1>4. CASE ~ (active' /\ c.x < W)  BY <1>4 DEF Row!UpdateCursor
<1>. QED  BY <1>3, <1>4

\* updateCursor over a row of whole characters leaves them as they are, and the
\* cursor as its only mark.
LEMMA CursorShown ==
  ASSUME Width, cells \in [Row!Cols -> CellType], Row!Whole(cells), active',
         UNCHANGED <<cells, shape>>, shape \in {"none", "underline", "block"},
         NEW c \in Cursor, c.x = W => ~ c.showed, c.x # W => c.cell = cells[c.x],
         NEW screen \in [Row!Cols -> Pixel], NEW B, ShowsRow(screen, B),
         MarksOnly(screen, IF c.showed THEN Row!CursorCells(c) ELSE {}, B),
         Row!UpdateCursor(screen, c)
  PROVE  /\ ShowsRow(shows', B)
         /\ MarksOnly(shows', IF drawn'.showed THEN Row!CursorCells(drawn)' ELSE {}, B)
<1> DEFINE toggled == [c EXCEPT !.showed = ~ @]
<1>1. /\ toggled \in Cursor /\ toggled.x = c.x /\ toggled.cell = c.cell
      /\ toggled.showed <=> ~ c.showed
  BY DEF Cursor
<1>2. c.x \in 0 .. W  BY DEF Cursor
<1>4. CASE c.x < W
  <2>1. drawn' = toggled /\ shows' = Row!WithCursor(screen, toggled)  BY <1>4 DEF Row!UpdateCursor
  <2>2. c.x # W  BY <1>2, <1>4 DEF Width
  <2> HIDE DEF toggled
  <2>3. Row!CursorCells(drawn)' = Row!CursorCells(toggled)  BY <2>1 DEF Row!CursorCells
  <2>4. Row!CursorCells(toggled) = Row!CursorCells(c)  BY <1>1 DEF Row!CursorCells
  <2>5. ASSUME NEW p \in Row!CursorCells(toggled)
        PROVE  /\ p \in Row!Cols
               /\ Row!CursorDrawn(screen, toggled, p).mark # "no" <=> toggled.showed
               /\ \/ p \in B
                  \/ Row!Cell(Row!CursorDrawn(screen, toggled, p).ch, Row!CursorDrawn(screen, toggled, p).type)
                           = cells[p]
    <3>1. toggled.x # W /\ toggled.cell = cells[toggled.x]  BY <1>1, <2>2
    <3>. QED  BY <1>1, <3>1, CursorOverRow
  <2>6. ASSUME NEW p \in Row!Cols
        PROVE  shows'[p] = IF p \in Row!CursorCells(toggled) THEN Row!CursorDrawn(screen, toggled, p)
                           ELSE screen[p]
    BY <2>1 DEF Row!WithCursor
  <2>7. ASSUME NEW p \in Row!Cols
        PROVE  p \in B \/ Row!Cell(shows'[p].ch, shows'[p].type) = cells[p]
    <3>1. CASE p \in Row!CursorCells(toggled)  BY <2>5, <2>6, <3>1
    <3>2. CASE p \notin Row!CursorCells(toggled)  BY <2>6, <3>2 DEF ShowsRow
    <3>. QED  BY <3>1, <3>2
  <2>8. ASSUME NEW p \in Row!Cols, p \notin B
        PROVE  shows'[p].mark # "no"
                 <=> p \in (IF toggled.showed THEN Row!CursorCells(toggled) ELSE {})
    <3>1. CASE p \in Row!CursorCells(toggled)  BY <2>5, <2>6, <3>1
    <3>2. CASE p \notin Row!CursorCells(toggled)
      <4>1. p \notin Row!CursorCells(c)  BY <2>4, <3>2
      <4>2. screen[p].mark = "no"  BY <2>8, <4>1 DEF MarksOnly
      <4>. QED  BY <2>6, <3>2, <4>2
    <3>. QED  BY <3>1, <3>2
  <2>9. drawn'.showed <=> toggled.showed  BY <2>1
  <2>10. ShowsRow(shows', B)  BY <2>7 DEF ShowsRow
  <2>11. MarksOnly(shows', IF drawn'.showed THEN Row!CursorCells(drawn)' ELSE {}, B)
    BY <2>3, <2>8, <2>9 DEF MarksOnly
  <2>. QED  BY <2>10, <2>11
<1>5. CASE ~ (c.x < W)
  <2>1. drawn' = c /\ shows' = screen  BY <1>5 DEF Row!UpdateCursor
  <2>2. ~ c.showed  BY <1>2, <1>5 DEF Width
  <2>3. ShowsRow(shows', B)  BY <2>1 DEF ShowsRow
  <2>4. MarksOnly(shows', IF drawn'.showed THEN Row!CursorCells(drawn)' ELSE {}, B)
    BY <2>1, <2>2 DEF MarksOnly
  <2>. QED  BY <2>3, <2>4
<1>. QED  BY <1>2, <1>4, <1>5 DEF Width

-----------------------------------------------------------------------------
\* changed_line only adds to what is marked, and marks the columns it is given.
LEMMA ChangedGrows ==
  ASSUME Width, NEW d, d \in (0 .. W) \X Row!Cols, NEW sx, sx \in Nat, NEW ex, ex \in Int
  PROVE  /\ Row!Changed(d, sx, ex) \in (0 .. W) \X Row!Cols
         /\ \A p \in d[1] .. d[2] : p \in Row!Changed(d, sx, ex)[1] .. Row!Changed(d, sx, ex)[2]
         /\ \A p \in Row!Cols : p \in sx .. ex =>
              p \in Row!Changed(d, sx, ex)[1] .. Row!Changed(d, sx, ex)[2]
<1> DEFINE s == IF sx >= W THEN W - 1 ELSE sx
<1> DEFINE e == IF ex >= W THEN W - 1 ELSE ex
<1> DEFINE first == IF d[1] > s THEN s ELSE d[1]
<1> DEFINE last == IF d[2] < e THEN e ELSE d[2]
<1>1. d[1] \in 0 .. W /\ d[2] \in 0 .. W - 1  BY DEF Row!Cols
<1>2. s \in 0 .. W - 1 /\ e \in Int /\ e <= W - 1 /\ s <= sx  BY DEF Width
<1>3. first \in 0 .. W /\ last \in 0 .. W - 1 /\ first <= d[1] /\ first <= s
      /\ d[2] <= last /\ e <= last
  <2> HIDE DEF s, e
  <2>. QED  BY <1>1, <1>2 DEF Width
<1>4. ASSUME NEW p \in Row!Cols, p <= ex PROVE p <= e  BY <1>4 DEF Row!Cols
<1>5. Row!Changed(d, sx, ex) = <<first, last>>  BY DEF Row!Changed
<1> HIDE DEF first, last, s, e
<1>6. Row!Changed(d, sx, ex)[1] = first /\ Row!Changed(d, sx, ex)[2] = last  BY <1>5
<1>7. ASSUME NEW p \in d[1] .. d[2] PROVE p \in first .. last  BY <1>1, <1>3
<1>8. ASSUME NEW p \in Row!Cols, p \in sx .. ex PROVE p \in first .. last
  <2>1. p <= e  BY <1>4, <1>8
  <2>. QED  BY <1>2, <1>3, <1>8, <2>1 DEF Row!Cols
<1>9. Row!Changed(d, sx, ex) \in (0 .. W) \X Row!Cols  BY <1>3, <1>5 DEF Row!Cols
<1>. QED  BY <1>6, <1>7, <1>8, <1>9

\* What an edit of the row may do: what it changes is marked, or left behind.
Edited ==
  /\ cells' \in [Row!Cols -> CellType]
  /\ dirty' \in (0 .. W) \X Row!Cols
  /\ left' \in BOOLEAN
  /\ left => left'
  /\ \A p \in Dirty : p \in Dirty'
  /\ \A p \in Row!Cols : \/ cells'[p] = cells[p]
                         \/ p \in Dirty'
                         \/ p = W - 1 /\ left'

\* Marking the columns that were changed makes a change of the row an edit.
LEMMA MarkedEdit ==
  ASSUME Width, dirty \in (0 .. W) \X Row!Cols, cells' \in [Row!Cols -> CellType],
         NEW sx, sx \in Nat, NEW ex, ex \in Int, dirty' = Row!Changed(dirty, sx, ex),
         left' \in BOOLEAN, left => left',
         \A p \in Row!Cols : \/ cells'[p] = cells[p] \/ p \in sx .. ex
                             \/ p = W - 1 /\ left'
  PROVE  Edited
BY ChangedGrows DEF Edited, Dirty

\* An erased cell is one.
LEMMA BlankIsCell == Row!BlankCell \in CellType
BY DEF Row!BlankCell, Row!Cell, CellType, Chars

\* Erasing, deleting and inserting blanks mark what they change.
LEMMA ClearAreaEdits ==
  ASSUME Width, RowTypes, UNCHANGED left,
         NEW sx, sx \in Nat, NEW ex, ex \in Int, Row!ClearArea(sx, ex)
  PROVE  Edited
<1>1. CASE sx >= W  BY <1>1 DEF Row!ClearArea, Edited, RowTypes, Dirty
<1>2. CASE ~ (sx >= W)
  <2>1. cells' = Row!Cleared(cells, sx, ex) /\ dirty' = Row!Changed(dirty, sx, ex)
    BY <1>2 DEF Row!ClearArea
  <2>2. cells' \in [Row!Cols -> CellType]  BY <2>1, BlankIsCell DEF Row!Cleared, RowTypes
  <2>3. \A p \in Row!Cols : cells'[p] = cells[p] \/ p \in sx .. ex  BY <2>1 DEF Row!Cleared
  <2>. QED  BY <2>1, <2>2, <2>3, MarkedEdit DEF RowTypes
<1>. QED  BY <1>1, <1>2

\* So does shifting a part of the row.
LEMMA ShiftTextEdits ==
  ASSUME Width, RowTypes, UNCHANGED left, NEW n, n \in Int, Row!ShiftText(n)
  PROVE  Edited
<1>1. cells' = Row!ShiftedBy(cells, cx, n) /\ dirty' = Row!Changed(dirty, cx, W - 1)
  BY DEF Row!ShiftText
<1>2. cx \in Nat /\ W - 1 \in Int  BY DEF RowTypes, Width
<1>3. ASSUME NEW p \in Row!Cols
      PROVE  /\ Row!ShiftedBy(cells, cx, n)[p] \in CellType
             /\ Row!ShiftedBy(cells, cx, n)[p] = cells[p] \/ p \in cx .. W - 1
  <2>1. CASE p < cx  BY <2>1 DEF Row!ShiftedBy, RowTypes
  <2>2. CASE ~ (p < cx)
    <3>1. p \in cx .. W - 1  BY <1>2, <2>2 DEF Row!Cols
    <3>2. CASE p - n \in cx .. W - 1
      <4>1. p - n \in Row!Cols  BY <1>2, <3>2 DEF Row!Cols
      <4>. QED  BY <2>2, <3>1, <3>2, <4>1 DEF Row!ShiftedBy, RowTypes
    <3>3. CASE p - n \notin cx .. W - 1  BY <2>2, <3>1, <3>3, BlankIsCell DEF Row!ShiftedBy
    <3>. QED  BY <3>2, <3>3
  <2>. QED  BY <2>1, <2>2
<1>4. cells' \in [Row!Cols -> CellType]  BY <1>1, <1>3 DEF Row!ShiftedBy
<1>5. \A p \in Row!Cols : cells'[p] = cells[p] \/ p \in cx .. W - 1  BY <1>1, <1>3
<1>. QED  BY <1>1, <1>2, <1>4, <1>5, MarkedEdit DEF RowTypes

\* And printing, but for the blank it leaves at the end of a row that wraps.
LEMMA PrintCharEdits ==
  ASSUME Width, RowTypes, NEW ch, ch \in Letters \cup Wides, NEW n, n \in {1, 2},
         Row!PrintChar(ch, n)
  PROVE  Edited /\ cx' \in 0 .. W
<1>1. CASE UNCHANGED <<cells, dirty, cx, left>>  BY <1>1 DEF Edited, RowTypes, Dirty
<1>2. CASE ~ UNCHANGED <<cells, dirty, cx, left>>
  <2> DEFINE x == Row!PrintsAt(n)
  <2> DEFINE base == Row!BeforeWrap(n)
  <2> DEFINE ex == IF insert THEN W - 1 ELSE x + n - 1
  <2>1. x \in Row!Cols /\ x + n - 1 \in Row!Cols
    BY DEF Row!PrintChar, Row!PrintsAt, Row!Fits, RowTypes, Row!Cols, Width
  <2>2. /\ cells' = Row!Put(Row!MakeRoom(base, x, n), x, ch, n)
        /\ dirty' = Row!Marked(x, n) /\ cx' = x + n
        /\ left' = (left \/ (Row!WrapsWide(n) /\ cells[W - 1] # Row!BlankCell))
    BY <1>2 DEF Row!PrintChar
  <2>3. base \in [Row!Cols -> CellType]
        /\ \A p \in Row!Cols : base[p] = cells[p] \/ (p = W - 1 /\ left')
    <3>1. base \in [Row!Cols -> CellType]  BY BlankIsCell DEF Row!BeforeWrap, RowTypes
    <3>2. ASSUME NEW p \in Row!Cols, base[p] # cells[p] PROVE p = W - 1 /\ left'
      BY <2>2, <3>2 DEF Row!BeforeWrap, RowTypes
    <3>. QED  BY <3>1, <3>2
  <2>12. left' \in BOOLEAN /\ (left => left')  BY <2>2, Zenon
  <2>4. dirty' = Row!Changed(dirty, x, ex)  BY <2>2 DEF Row!Marked
  <2>5. x \in Nat /\ ex \in Int /\ n \in Nat  BY <2>1 DEF Row!Cols, Width
  <2>6. Row!Cell(ch, "S") \in CellType /\ Row!Cell(ch, "L") \in CellType /\ Row!Cell(ch, "R") \in CellType
    BY DEF Row!Cell, CellType, Chars
  <2> HIDE DEF x, base
  <2>7. ASSUME NEW p \in Row!Cols
        PROVE  /\ Row!MakeRoom(base, x, n)[p] \in CellType
               /\ Row!MakeRoom(base, x, n)[p] = base[p] \/ p \in x .. ex
    <3>1. CASE insert /\ p - n \in x .. W - n - 1
      <4>1. p - n \in Row!Cols /\ p \in x .. ex  BY <2>1, <2>5, <3>1 DEF Row!Cols
      <4>. QED  BY <2>3, <3>1, <4>1 DEF Row!MakeRoom
    <3>2. CASE ~ (insert /\ p - n \in x .. W - n - 1)  BY <2>3, <3>2 DEF Row!MakeRoom
    <3>. QED  BY <3>1, <3>2
  <2> DEFINE room == Row!MakeRoom(base, x, n)
  <2> HIDE DEF room
  <2>8. ASSUME NEW p \in Row!Cols
        PROVE  /\ Row!Put(room, x, ch, n)[p] \in CellType
               /\ Row!Put(room, x, ch, n)[p] = room[p] \/ p \in x .. ex
    <3>1. room[p] \in CellType  BY <2>7 DEF room
    <3>2. n = 2 => (p = x \/ p = x + 1 => p \in x .. ex)  BY <2>1, <2>5 DEF Row!Cols
    <3>3. p = x => p \in x .. ex  BY <2>1, <2>5 DEF Row!Cols
    <3>. QED  BY <2>6, <3>1, <3>2, <3>3 DEF Row!Put
  <2>9. cells' \in [Row!Cols -> CellType]
    <3>1. cells' = [p \in Row!Cols |-> cells'[p]]  BY <2>2 DEF Row!Put
    <3>. QED  BY <2>2, <2>8, <3>1 DEF room
  <2>10. \A p \in Row!Cols : \/ cells'[p] = cells[p] \/ p \in x .. ex
                             \/ p = W - 1 /\ left'
    BY <2>2, <2>3, <2>7, <2>8 DEF room
  <2> HIDE DEF ex
  <2>11. Edited  BY <2>4, <2>5, <2>9, <2>10, <2>12, MarkedEdit DEF RowTypes
  <2>. QED  BY <2>1, <2>2, <2>5, <2>11 DEF Row!Cols, Width
<1>. QED  BY <1>1, <1>2

-----------------------------------------------------------------------------
\* An edit keeps the invariant: only what is marked is not shown as it is.
LEMMA EditKeeps ==
  ASSUME Width, RowInv, busy, Edited, cx' \in 0 .. W,
         wrap' \in BOOLEAN, insert' \in BOOLEAN, visible' \in BOOLEAN,
         shape' \in {"none", "underline", "block"},
         UNCHANGED <<drawn, shows, torn, late, active, busy>>
  PROVE  RowInv'
<1>6. left' \in BOOLEAN /\ (left => left')
  <2>1. left' \in BOOLEAN  BY DEF Edited
  <2>2. left => left'  BY DEF Edited
  <2>. QED  BY <2>1, <2>2
<1>1. RowTypes'
  <2>1. /\ cells' \in [Row!Cols -> CellType] /\ dirty' \in (0 .. W) \X Row!Cols
        /\ cx' \in 0 .. W /\ drawn' \in Cursor /\ shows' \in [Row!Cols -> Pixel]
    BY DEF RowInv, RowTypes, Edited
  <2>2. active' \in BOOLEAN /\ busy' \in BOOLEAN /\ torn' \in BOOLEAN /\ late' \in BOOLEAN
    BY DEF RowInv, RowTypes
  <2>. QED  BY <1>6, <2>1, <2>2, Zenon DEF RowTypes
<1>2. FollowedInv'  BY DEF RowInv, FollowedInv
<1>3. WholeInv' /\ SettledInv'  BY DEF WholeInv, SettledInv
<1>4. CursorInv'  BY DEF RowInv, CursorInv
<1>5. PendingInv'
  <2>1. SUFFICES ASSUME active, NEW p \in Row!Cols, p \notin Dirty', p \notin Row!LeftBehind'
                 PROVE  Row!Cell(shows[p].ch, shows[p].type) = cells'[p] /\ Wiped(p)'
    BY DEF PendingInv
  <2>2. cells'[p] = cells[p] /\ p \notin Dirty
    BY <2>1 DEF Edited, Row!LeftBehind
  <2>3. p \notin Row!LeftBehind  BY <1>6, <2>1 DEF Row!LeftBehind
  <2>4. Row!Cell(shows[p].ch, shows[p].type) = cells[p] /\ Wiped(p)
    BY <2>1, <2>2, <2>3 DEF RowInv, PendingInv
  <2>5. Wiped(p)'  BY <2>2, <2>4 DEF Wiped, Edited
  <2>. QED  BY <2>2, <2>4, <2>5
<1>. QED  BY <1>1, <1>2, <1>3, <1>4, <1>5 DEF RowInv

\* At the start of input the old cursor is to be painted over.
LEMMA BeginInputKeeps ==
  ASSUME Width, RowInv, Row!BeginInput
  PROVE  RowInv'
<1>1. /\ cx \in Nat /\ cx \in Int /\ dirty \in (0 .. W) \X Row!Cols
      /\ ~ torn /\ ~ late /\ ~ busy /\ busy'
      /\ UNCHANGED <<cells, cx, wrap, insert, visible, shape, drawn, shows, torn, late, left, active>>
  BY DEF RowInv, RowTypes, Row!BeginInput, Row!Followed, Row!modes, Row!display, Width
<1>2. dirty' = IF visible THEN Row!Changed(dirty, cx, cx) ELSE dirty  BY DEF Row!BeginInput
<1>3. dirty' \in (0 .. W) \X Row!Cols  BY <1>1, <1>2, ChangedGrows
<1>4. visible => \A p \in Row!Cols : p = cx => p \in Dirty'
  <2>1. \A p \in Row!Cols : p = cx => p \in cx .. cx  BY <1>1
  <2>. QED  BY <1>1, <1>2, <2>1, ChangedGrows DEF Dirty
<1>5. RowTypes'  BY <1>1, <1>3 DEF RowInv, RowTypes, Row!BeginInput
<1>6. FollowedInv' /\ WholeInv' /\ SettledInv'
  BY <1>1 DEF FollowedInv, WholeInv, SettledInv
<1>7. CursorInv'  BY <1>1 DEF RowInv, CursorInv
<1>8. PendingInv'
  <2>1. SUFFICES ASSUME active, NEW p \in Row!Cols, p \notin Dirty', p \notin Row!LeftBehind'
                 PROVE  (Row!Cell(shows[p].ch, shows[p].type) = cells[p] /\ Wiped(p))'
    BY <1>1 DEF PendingInv
  <2>2. p \notin Row!LeftBehind  BY <1>1, <2>1 DEF Row!LeftBehind
  <2>3. ShowsRow(shows, Row!LeftBehind) /\ MarksOnly(shows, Under, Row!LeftBehind)
    BY <1>1, <2>1 DEF RowInv, SettledInv
  <2>4. (Row!Cell(shows[p].ch, shows[p].type) = cells[p])'
    BY <1>1, <2>2, <2>3 DEF ShowsRow
  <2>5. CASE shows[p].mark = "no"  BY <1>1, <2>4, <2>5 DEF Wiped
  <2>6. CASE shows[p].mark # "no"
    <3>1. p \in Under  BY <2>2, <2>3, <2>6 DEF MarksOnly
    <3>2. visible /\ drawn.showed /\ p \in Row!CursorCells(drawn)  BY <3>1 DEF Under
    <3>3. drawn.x = cx /\ drawn.cell = cells[cx] /\ cx # W
      BY <1>1, <3>2 DEF RowInv, CursorInv
    <3>4. cx \in Row!Cols  BY <1>1, <3>3 DEF RowInv, RowTypes, Row!Cols, Width
    <3>5. Row!Whole(cells)  BY <1>1, <2>1 DEF RowInv, WholeInv
    <3>6. Row!IsWhole(cells, cx)  BY <3>4, <3>5 DEF Row!Whole
    <3>7. cx \in Dirty'  BY <1>4, <3>2, <3>4
    <3>8. p # cx  BY <2>1, <3>7
    <3>9. \/ cells[cx].type = "L" /\ p = cx + 1
          \/ cells[cx].type = "R" /\ p = cx - 1
      <4>1. shape \in {"none", "underline", "block"} /\ cells[cx].type \in {"S", "L", "R"}
        BY <3>4 DEF RowInv, RowTypes, CellType
      <4>. QED  BY <3>2, <3>3, <3>8, <4>1 DEF Row!CursorCells
    <3>10. CASE cells[cx].type = "L" /\ p = cx + 1
      <4>1. cells[p].type = "R"  BY <3>6, <3>10 DEF Row!IsWhole, Row!Cell
      <4>2. p - 1 = cx  BY <1>1, <3>10
      <4>. QED  BY <1>1, <2>4, <3>7, <4>1, <4>2 DEF Wiped
    <3>11. CASE cells[cx].type = "R" /\ p = cx - 1
      <4>1. cells[p].type = "L"  BY <3>6, <3>11 DEF Row!IsWhole, Row!Cell
      <4>2. p + 1 = cx  BY <1>1, <3>11
      <4>. QED  BY <1>1, <2>4, <3>7, <4>1, <4>2 DEF Wiped
    <3>. QED  BY <3>9, <3>10, <3>11
  <2>. QED  BY <2>5, <2>6
<1>. QED  BY <1>5, <1>6, <1>7, <1>8 DEF RowInv

\* Nothing is promised of a window that is not active.
LEMMA DeactivateKeeps ==
  ASSUME Width, RowInv, Row!Deactivate
  PROVE  RowInv'
<1>1. /\ ~ busy /\ ~ busy' /\ ~ active'
      /\ UNCHANGED <<cells, dirty, cx, wrap, insert, visible, shape, drawn, torn, late, left, busy>>
  BY DEF Row!Deactivate, Row!modes
<1>2. shows' \in [Row!Cols -> Pixel]
  <2>1. Row!Garbage \in Pixel  BY DEF Row!Garbage, Pixel, Chars
  <2>. QED  BY <2>1 DEF Row!Deactivate
<1>3. RowTypes'  BY <1>1, <1>2 DEF RowInv, RowTypes, Row!Deactivate
<1>4. CursorInv'  BY <1>1 DEF RowInv, CursorInv
<1>. QED  BY <1>1, <1>3, <1>4 DEF RowInv, FollowedInv, WholeInv, SettledInv, PendingInv

\* A new window is not active.
LEMMA InitKeeps ==
  ASSUME Width, DefaultShape \in {"none", "underline", "block"}, Row!Init
  PROVE  RowInv
<1>1. Row!Garbage \in Pixel  BY DEF Row!Garbage, Pixel, Chars
<1>2. dirty \in (0 .. W) \X Row!Cols  BY DEF Row!Init, Row!Cols, Width
<1>3. drawn \in Cursor /\ drawn.x = W /\ ~ drawn.showed
  <2>1. drawn = [x |-> W, cell |-> Row!BlankCell, showed |-> FALSE]  BY DEF Row!Init
  <2>. QED  BY <2>1, BlankIsCell DEF Cursor, Width
<1>4. RowTypes  BY <1>1, <1>2, <1>3, BlankIsCell DEF Row!Init, RowTypes, Width
<1>. QED
  BY <1>3, <1>4 DEF Row!Init, RowInv, CursorInv, FollowedInv, WholeInv, SettledInv, PendingInv

\* What update paints at the end of input: the row, without the old cursor.
LEMMA Updated ==
  ASSUME Width, RowInv, busy, active, active', Row!Whole(cells), NEW screen, NEW B,
         B = Row!LeftBehind \ Dirty,
         screen = IF dirty[2] >= dirty[1] THEN Row!Painted(shows, dirty[1], dirty[2]) ELSE shows
  PROVE  /\ screen \in [Row!Cols -> Pixel]
         /\ ShowsRow(screen, B) /\ MarksOnly(screen, {}, B)
<1> DEFINE sx == dirty[1]
<1> DEFINE ex == dirty[2]
<1>1. /\ cells \in [Row!Cols -> CellType] /\ shows \in [Row!Cols -> Pixel]
      /\ sx \in 0 .. W /\ ex \in Row!Cols /\ sx \in Int /\ ex \in Int
  BY DEF RowInv, RowTypes, Row!Cols, Width
<1>2. ASSUME NEW p \in Row!Cols, p \notin Dirty, p \notin Row!LeftBehind
      PROVE  Row!Cell(shows[p].ch, shows[p].type) = cells[p] /\ Wiped(p)
  BY <1>2 DEF RowInv, PendingInv
<1>5. \A p : p \in B <=> p \in Row!LeftBehind /\ p \notin Dirty  OBVIOUS
<1>3. CASE ~ (ex >= sx)
  <2>1. screen = shows /\ Dirty = {}  BY <1>1, <1>3 DEF Dirty
  <2>2. ASSUME NEW p \in Row!Cols, p \notin B
        PROVE  Row!Cell(shows[p].ch, shows[p].type) = cells[p] /\ shows[p].mark = "no"
    BY <1>2, <1>5, <2>1, <2>2 DEF Wiped
  <2>. QED  BY <1>1, <2>1, <2>2 DEF ShowsRow, MarksOnly
<1>4. CASE ex >= sx
  <2>1. sx \in Row!Cols /\ sx <= ex  BY <1>1, <1>4 DEF Row!Cols, Width
  <2>2. screen = Row!Painted(shows, sx, ex)  BY <1>4
  <2> HIDE DEF sx, ex
  <2>3. /\ screen \in [Row!Cols -> Pixel]
        /\ \A p \in Row!Cols : screen[p] = IF p \in Row!Exposed(cells, sx, ex) THEN Row!Shown(cells[p])
                                           ELSE shows[p]
    BY <1>1, <2>1, <2>2, PaintedRow
  <2>4. /\ W \in Nat
        /\ \A k \in Row!Cols : cells[k].type \in {"S", "L", "R"}
    BY <1>1 DEF Width, CellType
  <2>5. /\ Row!ExposedStart(cells, sx) <= sx /\ ex <= Row!ExposedEnd(cells, ex)
        /\ Row!ExposedStart(cells, sx) \in Row!Cols /\ Row!ExposedEnd(cells, ex) \in Row!Cols
        /\ Row!Exposed(cells, sx, ex) = Row!ExposedStart(cells, sx) .. Row!ExposedEnd(cells, ex)
    BY <1>1, <2>1, <2>4, ExposedEnds
  <2>6. \A p \in Dirty : p \in Row!Exposed(cells, sx, ex)
    BY <1>1, <2>1, <2>5 DEF Dirty, Row!Cols, sx, ex
  <2>7. ASSUME NEW p \in Row!Cols, p \notin B
        PROVE  Row!Cell(screen[p].ch, screen[p].type) = cells[p] /\ screen[p].mark = "no"
    <3>1. CASE p \in Row!Exposed(cells, sx, ex)
      <4>1. screen[p] = Row!Shown(cells[p])  BY <2>3, <3>1
      <4>2. cells[p] \in CellType  BY <1>1
      <4>. QED  BY <4>1, <4>2 DEF Row!Shown, Row!Cell, CellType
    <3>2. CASE p \notin Row!Exposed(cells, sx, ex)
      <4>1. screen[p] = shows[p]  BY <2>3, <3>2
      <4>2. Row!Cell(shows[p].ch, shows[p].type) = cells[p] /\ Wiped(p)
        BY <1>2, <1>5, <2>6, <2>7, <3>2
      <4>3. ASSUME shows[p].mark # "no" PROVE FALSE
        <5>1. p \notin Dirty  BY <2>6, <3>2
        <5>2. Row!IsWhole(cells, p)  BY DEF Row!Whole
        <5>3. CASE cells[p].type = "R" /\ p - 1 \in Dirty
          <6>1. p - 1 \in Row!Cols /\ cells[p - 1].type = "L"
            BY <5>2, <5>3 DEF Row!IsWhole, Row!Cell
          <6>2. p - 1 = ex  BY <1>1, <2>1, <5>1, <5>3 DEF Dirty, Row!Cols, sx, ex
          <6>3. Row!ExposedEnd(cells, ex) = p  BY <6>1, <6>2 DEF Row!ExposedEnd, Row!Cols
          <6>4. Row!ExposedStart(cells, sx) <= p  BY <1>1, <2>1, <2>5, <6>2 DEF Row!Cols, Width
          <6>5. p \in Row!ExposedStart(cells, sx) .. p  BY <2>5, <6>4 DEF Row!Cols, Width
          <6>. QED  BY <2>5, <3>2, <6>3, <6>5
        <5>4. CASE cells[p].type = "L" /\ p + 1 \in Dirty
          <6>1. p + 1 \in Row!Cols /\ cells[p + 1].type = "R"
            BY <5>2, <5>4 DEF Row!IsWhole, Row!Cell
          <6>2. p + 1 = sx  BY <1>1, <2>1, <5>1, <5>4 DEF Dirty, Row!Cols, sx, ex
          <6>3. Row!ExposedStart(cells, sx) = p  BY <6>1, <6>2 DEF Row!ExposedStart, Row!Cols
          <6>4. p <= Row!ExposedEnd(cells, ex)  BY <1>1, <2>1, <2>5, <6>2 DEF Row!Cols, Width
          <6>5. p \in p .. Row!ExposedEnd(cells, ex)  BY <2>5, <6>4 DEF Row!Cols, Width
          <6>. QED  BY <2>5, <3>2, <6>3, <6>5
        <5>. QED  BY <4>2, <4>3, <5>3, <5>4 DEF Wiped
      <4>. QED  BY <4>1, <4>2, <4>3
    <3>. QED  BY <3>1, <3>2
  <2>. QED  BY <2>3, <2>7 DEF ShowsRow, MarksOnly
<1>. QED  BY <1>3, <1>4

\* At the end of input what is marked is painted, and the cursor over it.
LEMMA EndInputKeeps ==
  ASSUME Width, RowInv, Row!EndInput
  PROVE  RowInv'
<1> DEFINE screen == IF dirty[2] >= dirty[1] THEN Row!Painted(shows, dirty[1], dirty[2]) ELSE shows
<1> DEFINE B == Row!LeftBehind \ Dirty
<1> DEFINE c == [x |-> cx, cell |-> IF cx < W THEN cells[cx] ELSE Row!BlankCell, showed |-> FALSE]
<1>1. /\ busy /\ ~ busy' /\ (active' <=> active) /\ ~ torn /\ ~ late
      /\ dirty' = <<W, 0>> /\ (torn' <=> active /\ ~ Row!Whole(cells))
      /\ UNCHANGED <<cells, cx, wrap, insert, visible, shape, late>>
  BY DEF RowInv, FollowedInv, Row!EndInput, Row!modes, Row!Clean
<1>2. /\ cells \in [Row!Cols -> CellType] /\ shows \in [Row!Cols -> Pixel] /\ cx \in 0 .. W
      /\ dirty \in (0 .. W) \X Row!Cols /\ left \in BOOLEAN
      /\ shape \in {"none", "underline", "block"} /\ visible \in BOOLEAN
      /\ active \in BOOLEAN /\ drawn \in Cursor
  BY DEF RowInv, RowTypes
<1>3. IF visible THEN Row!UpdateCursor(screen, c) ELSE drawn' = drawn /\ shows' = screen
  BY DEF Row!EndInput, Row!DrawCursor
<1>4. screen \in [Row!Cols -> Pixel]
  <2>1. CASE active' /\ dirty[2] >= dirty[1]
    <3>1. dirty[1] \in Row!Cols /\ dirty[2] \in Row!Cols /\ dirty[1] <= dirty[2]
      BY <1>2, <2>1 DEF Row!Cols, Width
    <3> DEFINE sx == dirty[1]
    <3> DEFINE ex == dirty[2]
    <3>2. screen = Row!Painted(shows, sx, ex)  BY <2>1
    <3>3. sx \in Row!Cols /\ ex \in Row!Cols /\ sx <= ex  BY <3>1
    <3> HIDE DEF sx, ex, screen
    <3>. QED  BY <1>2, <2>1, <3>2, <3>3, PaintedRow
  <2>2. CASE ~ (active' /\ dirty[2] >= dirty[1])
    <3>1. screen = shows  BY <2>2 DEF Row!Painted
    <3>. QED  BY <1>2, <3>1
  <2>. QED  BY <2>1, <2>2
<1>5. active /\ Row!Whole(cells) => ShowsRow(screen, B) /\ MarksOnly(screen, {}, B)
  <2> DEFINE s == screen
  <2>1. s = IF dirty[2] >= dirty[1] THEN Row!Painted(shows, dirty[1], dirty[2]) ELSE shows
    OBVIOUS
  <2> HIDE DEF s
  <2>2. active /\ Row!Whole(cells) => ShowsRow(s, B) /\ MarksOnly(s, {}, B)
    BY <1>1, <2>1, Updated
  <2>. QED  BY <2>2 DEF s
<1> HIDE DEF screen
<1>13. left' \in BOOLEAN /\ Row!LeftBehind' = B
  <2>1. left' = (left /\ W - 1 \notin Dirty)  BY DEF Row!EndInput, Dirty
  <2>2. left' \in BOOLEAN  BY <2>1, Zenon
  <2>3. CASE left /\ W - 1 \notin Dirty  BY <2>1, <2>3 DEF Row!LeftBehind
  <2>4. CASE ~ (left /\ W - 1 \notin Dirty)  BY <2>1, <2>4 DEF Row!LeftBehind
  <2>. QED  BY <2>2, <2>3, <2>4
<1> HIDE DEF B
<1>6. c \in Cursor /\ c.x = cx /\ ~ c.showed /\ (c.x # W => c.cell = cells[c.x])
  BY <1>2, BlankIsCell DEF Cursor, Row!Cols, Width
<1> HIDE DEF c
<1>7. /\ shows' \in [Row!Cols -> Pixel] /\ drawn' \in Cursor
      /\ drawn'.x = W => ~ drawn'.showed
      /\ visible => drawn'.x = cx /\ drawn'.cell = c.cell
  <2>1. CASE visible  BY <1>2, <1>3, <1>4, <1>6, <2>1, CursorTypes
  <2>2. CASE ~ visible  BY <1>2, <1>3, <1>4, <2>2 DEF RowInv, CursorInv
  <2>. QED  BY <2>1, <2>2
<1>8. RowTypes'
  <2>1. dirty' \in (0 .. W) \X Row!Cols  BY <1>1 DEF Row!Cols, Width
  <2>2. torn' \in BOOLEAN /\ active' \in BOOLEAN /\ busy' \in BOOLEAN
    <3>1. torn' = (torn \/ (active /\ ~ Row!Whole(cells)))  BY DEF Row!EndInput
    <3>2. torn' \in BOOLEAN  BY <3>1, Zenon
    <3>3. active' = active /\ busy' = FALSE  BY DEF Row!EndInput
    <3>. QED  BY <1>2, <3>2, <3>3
  <2>. QED  BY <1>1, <1>7, <1>13, <2>1, <2>2 DEF RowInv, RowTypes
<1>9. FollowedInv' /\ PendingInv'  BY <1>1 DEF FollowedInv, PendingInv
<1>10. WholeInv'
  <2>1. torn' = FALSE => (~ active \/ Row!Whole(cells))  BY <1>1
  <2>. QED  BY <1>1 DEF WholeInv, Row!Whole, Row!IsWhole
<1>11. CursorInv'  BY <1>1, <1>6, <1>7 DEF CursorInv
<1>12. SettledInv'
  <2>1. SUFFICES ASSUME active, Row!Whole(cells)
                 PROVE  ShowsRow(shows', B) /\ MarksOnly(shows', Under', B)
    BY <1>1, <1>13 DEF SettledInv, ShowsRow, MarksOnly
  <2>3. CASE visible
    <3>1. Row!UpdateCursor(screen, c) /\ active'  BY <1>1, <1>3, <2>1, <2>3
    <3>2. MarksOnly(screen, IF c.showed THEN Row!CursorCells(c) ELSE {}, B)  BY <1>5, <1>6, <2>1
    <3>3. ShowsRow(screen, B)  BY <1>5, <2>1
    <3>4. UNCHANGED <<cells, shape>>  BY <1>1
    <3>5. /\ ShowsRow(shows', B)
          /\ MarksOnly(shows', IF drawn'.showed THEN Row!CursorCells(drawn)' ELSE {}, B)
      BY <1>2, <1>4, <1>6, <2>1, <3>1, <3>2, <3>3, <3>4, CursorShown
    <3>6. visible'  BY <1>1, <2>3
    <3>. QED  BY <3>5, <3>6 DEF Under
  <2>4. CASE ~ visible
    <3>1. shows' = screen /\ ~ visible'  BY <1>1, <1>3, <2>4
    <3>2. Under' = {}  BY <3>1 DEF Under
    <3>. QED  BY <1>5, <2>1, <3>1, <3>2
  <2>. QED  BY <2>3, <2>4
<1>. QED  BY <1>8, <1>9, <1>10, <1>11, <1>12 DEF RowInv

\* A late signal draws a cursor that is hidden only where it leaves no mark.
LEMMA BlinkKeeps ==
  ASSUME Width, RowInv, Row!Blink
  PROVE  RowInv'
<1>1. /\ ~ busy /\ ~ busy' /\ (active' <=> active) /\ ~ torn /\ ~ late /\ ~ torn'
      /\ UNCHANGED <<cells, dirty, cx, wrap, insert, visible, shape, busy, torn, left>>
      /\ late' <=> active /\ ~ visible /\ drawn.x < W /\ shape # "none"
      /\ Row!UpdateCursor(shows, drawn)
  BY DEF Row!Blink, Row!Followed, Row!modes
<1>2. /\ cells \in [Row!Cols -> CellType] /\ shows \in [Row!Cols -> Pixel]
      /\ shape \in {"none", "underline", "block"} /\ drawn \in Cursor
      /\ drawn.x = W => ~ drawn.showed
  BY DEF RowInv, RowTypes, CursorInv
<1>3. /\ shows' \in [Row!Cols -> Pixel] /\ drawn' \in Cursor
      /\ drawn'.x = drawn.x /\ drawn'.cell = drawn.cell
      /\ drawn'.x = W => ~ drawn'.showed
  BY <1>1, <1>2, CursorTypes
<1>4. RowTypes'
  <2>1. late' = (late \/ (active /\ ~ visible /\ drawn.x < W /\ shape # "none"))
    BY DEF Row!Blink
  <2>2. late' \in BOOLEAN  BY <2>1, Zenon
  <2>3. active' = active  BY DEF Row!Blink
  <2>. QED  BY <1>1, <1>3, <2>2, <2>3 DEF RowInv, RowTypes
<1>5. FollowedInv' /\ PendingInv'  BY <1>1 DEF FollowedInv, PendingInv
<1>6. WholeInv'  BY <1>1 DEF RowInv, WholeInv, Row!Whole, Row!IsWhole
<1>7. CursorInv'  BY <1>1, <1>3 DEF RowInv, CursorInv
<1>8. SettledInv'
  <2> DEFINE B == Row!LeftBehind
  <2>1. SUFFICES ASSUME active, ~ late'
                 PROVE  ShowsRow(shows', B) /\ MarksOnly(shows', Under', B)
    <3>1. Row!LeftBehind' = B  BY <1>1 DEF Row!LeftBehind
    <3>. QED  BY <1>1, <3>1 DEF SettledInv, ShowsRow, MarksOnly
  <2>2. ShowsRow(shows, B) /\ MarksOnly(shows, Under, B)
    BY <1>1, <2>1 DEF RowInv, SettledInv
  <2> HIDE DEF B
  <2>3. CASE visible
    <3>1. Row!Whole(cells)  BY <1>1, <2>1 DEF RowInv, WholeInv
    <3>2. drawn.x # W => drawn.cell = cells[drawn.x]
      BY <1>1, <2>3 DEF RowInv, CursorInv
    <3>3. MarksOnly(shows, IF drawn.showed THEN Row!CursorCells(drawn) ELSE {}, B)
      BY <2>2, <2>3 DEF Under
    <3>4. active' /\ UNCHANGED <<cells, shape>>  BY <1>1, <2>1
    <3>5. /\ ShowsRow(shows', B)
          /\ MarksOnly(shows', IF drawn'.showed THEN Row!CursorCells(drawn)' ELSE {}, B)
      BY <1>1, <1>2, <2>2, <3>1, <3>2, <3>3, <3>4, CursorShown
    <3>6. visible'  BY <1>1, <2>3
    <3>. QED  BY <3>5, <3>6 DEF Under
  <2>4. CASE ~ visible
    <3>1. shows' = shows
      <4>1. CASE ~ (drawn.x < W)  BY <1>1, <4>1 DEF Row!UpdateCursor
      <4>2. CASE drawn.x < W
        <5>1. shape = "none"  BY <1>1, <2>1, <2>4, <4>2
        <5>2. \A c : Row!CursorCells(c) = {}  BY <5>1 DEF Row!CursorCells
        <5>3. \A c : Row!WithCursor(shows, c) = shows  BY <1>2, <5>2 DEF Row!WithCursor
        <5>. QED  BY <1>1, <5>3 DEF Row!UpdateCursor
      <4>. QED  BY <4>1, <4>2
    <3>2. Under = {} /\ Under' = {}  BY <1>1, <2>4 DEF Under
    <3>. QED  BY <2>2, <3>1, <3>2
  <2>. QED  BY <2>3, <2>4
<1>. QED  BY <1>4, <1>5, <1>6, <1>7, <1>8 DEF RowInv

\* A window that becomes the active one is painted whole.
LEMMA ActivateKeeps ==
  ASSUME Width, RowInv, Row!Activate
  PROVE  RowInv'
<1> DEFINE painted == Row!Painted(shows, 0, W - 1)
<1> DEFINE c == [drawn EXCEPT !.showed = FALSE]
<1>1. /\ ~ busy /\ ~ busy' /\ active' /\ (torn' <=> ~ Row!Whole(cells))
      /\ ~ left' /\ UNCHANGED <<cells, dirty, cx, wrap, insert, visible, shape, busy>>
  BY DEF Row!Activate, Row!modes
<1>2. /\ cells \in [Row!Cols -> CellType] /\ shows \in [Row!Cols -> Pixel]
      /\ shape \in {"none", "underline", "block"} /\ drawn \in Cursor
      /\ drawn.x = W => ~ drawn.showed
  BY DEF RowInv, RowTypes, CursorInv
<1>3. IF visible /\ drawn.x < W THEN Row!UpdateCursor(painted, c)
      ELSE drawn' = drawn /\ shows' = painted
  BY DEF Row!Activate
<1>4. 0 \in Row!Cols /\ W - 1 \in Row!Cols /\ 0 <= W - 1 /\ W \in Nat  BY DEF Row!Cols, Width
<1>5. /\ painted \in [Row!Cols -> Pixel]
      /\ Row!Whole(cells) => \A p \in Row!Cols :
               painted[p] = IF p \in Row!Exposed(cells, 0, W - 1) THEN Row!Shown(cells[p]) ELSE shows[p]
  <2> DEFINE last == W - 1
  <2>1. last \in Row!Cols /\ 0 <= last  BY <1>4
  <2> HIDE DEF last
  <2>2. /\ Row!Painted(shows, 0, last) \in [Row!Cols -> Pixel]
        /\ Row!Whole(cells) => \A p \in Row!Cols :
                 Row!Painted(shows, 0, last)[p]
                       = IF p \in Row!Exposed(cells, 0, last) THEN Row!Shown(cells[p]) ELSE shows[p]
    BY <1>1, <1>2, <1>4, <2>1, PaintedRow
  <2>. QED  BY <2>2 DEF last
<1> HIDE DEF painted
<1>6. Row!Whole(cells) => ShowsRow(painted, {}) /\ MarksOnly(painted, {}, {})
  <2>1. SUFFICES ASSUME Row!Whole(cells) PROVE ShowsRow(painted, {}) /\ MarksOnly(painted, {}, {})
    OBVIOUS
  <2>2. ASSUME NEW p \in Row!Cols PROVE p \in Row!Exposed(cells, 0, W - 1)
    <3> DEFINE last == W - 1
    <3>1. last \in Row!Cols /\ 0 <= last  BY <1>4
    <3>2. \A k \in Row!Cols : cells[k].type \in {"S", "L", "R"}  BY <1>2 DEF CellType
    <3>3. p \in 0 .. last  BY DEF Row!Cols
    <3> HIDE DEF last
    <3>4. /\ Row!ExposedStart(cells, 0) \in Row!Cols /\ Row!ExposedEnd(cells, last) \in Row!Cols
          /\ Row!ExposedStart(cells, 0) <= 0 /\ last <= Row!ExposedEnd(cells, last)
          /\ Row!Exposed(cells, 0, last) = Row!ExposedStart(cells, 0) .. Row!ExposedEnd(cells, last)
      BY <1>4, <2>1, <3>1, <3>2, ExposedEnds
    <3>5. p \in Row!ExposedStart(cells, 0) .. Row!ExposedEnd(cells, last)
      BY <1>4, <3>1, <3>3, <3>4 DEF Row!Cols
    <3>. QED  BY <3>4, <3>5 DEF last
  <2>3. ASSUME NEW p \in Row!Cols
        PROVE  Row!Cell(painted[p].ch, painted[p].type) = cells[p] /\ painted[p].mark = "no"
    <3>1. painted[p] = Row!Shown(cells[p])  BY <1>5, <2>1, <2>2
    <3>2. cells[p] \in CellType  BY <1>2
    <3>. QED  BY <3>1, <3>2 DEF Row!Shown, Row!Cell, CellType
  <2>. QED  BY <2>3 DEF ShowsRow, MarksOnly
<1>7. c \in Cursor /\ c.x = drawn.x /\ c.cell = drawn.cell /\ ~ c.showed
  BY <1>2 DEF Cursor
<1> HIDE DEF c
<1>8. /\ shows' \in [Row!Cols -> Pixel] /\ drawn' \in Cursor
      /\ drawn'.x = drawn.x /\ drawn'.cell = drawn.cell
      /\ drawn'.x = W => ~ drawn'.showed
  <2>1. CASE visible /\ drawn.x < W  BY <1>2, <1>3, <1>5, <1>7, <2>1, CursorTypes
  <2>2. CASE ~ (visible /\ drawn.x < W)  BY <1>2, <1>3, <1>5, <2>2
  <2>. QED  BY <2>1, <2>2
<1>9. RowTypes'
  <2>1. torn' = ~ Row!Whole(cells) /\ late' = FALSE /\ left' = FALSE /\ active' = TRUE
    BY DEF Row!Activate
  <2>2. torn' \in BOOLEAN /\ late' \in BOOLEAN /\ left' \in BOOLEAN /\ active' \in BOOLEAN
    BY <2>1, Zenon
  <2>. QED  BY <1>1, <1>8, <2>2 DEF RowInv, RowTypes
<1>10. FollowedInv' /\ PendingInv'  BY <1>1 DEF FollowedInv, PendingInv
<1>11. WholeInv'  BY <1>1 DEF WholeInv, Row!Whole, Row!IsWhole
<1>12. CursorInv'  BY <1>1, <1>8 DEF RowInv, CursorInv
<1>13. SettledInv'
  <2>1. SUFFICES ASSUME Row!Whole(cells)
                 PROVE  ShowsRow(shows', {}) /\ MarksOnly(shows', Under', {})
    <3>1. Row!LeftBehind' = {}  BY <1>1 DEF Row!LeftBehind
    <3>. QED  BY <1>1, <3>1 DEF SettledInv, ShowsRow, MarksOnly
  <2>3. CASE visible /\ drawn.x < W
    <3>1. c.x # W => c.cell = cells[c.x]  BY <1>1, <1>7, <2>3 DEF RowInv, CursorInv
    <3>2. MarksOnly(painted, IF c.showed THEN Row!CursorCells(c) ELSE {}, {})
      BY <1>6, <1>7, <2>1
    <3>3. c.x = W => ~ c.showed  BY <1>7
    <3>4. ShowsRow(painted, {}) /\ Row!UpdateCursor(painted, c)  BY <1>3, <1>6, <2>1, <2>3
    <3>5. UNCHANGED <<cells, shape>>  BY <1>1
    <3>6. /\ ShowsRow(shows', {})
          /\ MarksOnly(shows', IF drawn'.showed THEN Row!CursorCells(drawn)' ELSE {}, {})
      BY <1>1, <1>2, <1>5, <1>7, <2>1, <3>1, <3>2, <3>3, <3>4, <3>5, CursorShown
    <3>7. visible'  BY <1>1, <2>3
    <3>. QED  BY <3>6, <3>7 DEF Under
  <2>4. CASE ~ (visible /\ drawn.x < W)
    <3>1. shows' = painted /\ drawn' = drawn  BY <1>3, <2>4
    <3>2. ~ (visible' /\ drawn'.showed)
      <4>1. CASE ~ visible  BY <1>1, <4>1
      <4>2. CASE ~ (drawn.x < W)
        <5>1. drawn.x \in 0 .. W  BY <1>2 DEF Cursor
        <5>2. drawn.x = W  BY <4>2, <5>1 DEF Width
        <5>. QED  BY <1>2, <3>1, <5>2
      <4>. QED  BY <2>4, <4>1, <4>2
    <3>3. Under' = {}  BY <3>2 DEF Under
    <3>. QED  BY <1>6, <2>1, <3>1, <3>3
  <2>. QED  BY <2>3, <2>4
<1>. QED  BY <1>9, <1>10, <1>11, <1>12, <1>13 DEF RowInv

-----------------------------------------------------------------------------
AllShapes == {"none", "underline", "block"}

\* Every step keeps the invariant.
LEMMA RowInvariance ==
  ASSUME Width, Shapes \subseteq AllShapes, DefaultShape \in AllShapes,
         RowInv, [Row!Next]_(Row!vars)
  PROVE  RowInv'
<1> DEFINE still == UNCHANGED <<drawn, shows, torn, late, active, busy>>
<1> DEFINE quiet == still /\ UNCHANGED left
<1>1. RowTypes  BY DEF RowInv
<1>2. ASSUME NEW ch \in Letters \cup Wides, NEW n \in {1, 2}, Row!PrintChar(ch, n) PROVE RowInv'
  <2>1. Edited /\ cx' \in 0 .. W  BY <1>1, <1>2, PrintCharEdits
  <2>2. busy /\ still /\ UNCHANGED <<wrap, insert, visible, shape>>
    BY <1>2 DEF Row!PrintChar, Row!Does, Row!modes, Row!display
  <2>. QED  BY <1>1, <2>1, <2>2, EditKeeps DEF RowTypes
<1>3. ASSUME NEW n \in (-W) .. W, Row!ShiftChars(n) PROVE RowInv'
  <2>3. UNCHANGED left  BY <1>3 DEF Row!ShiftChars, Row!display
  <2>1. Edited
    <3>1. CASE Row!ClearArea(cx, W - 1)
      <4>1. cx \in Nat /\ W - 1 \in Int  BY <1>1 DEF RowTypes, Width
      <4>. QED  BY <1>1, <2>3, <3>1, <4>1, ClearAreaEdits
    <3>2. CASE Row!ShiftText(n)
      <4>1. n \in Int  BY DEF Width
      <4>. QED  BY <1>1, <2>3, <3>2, <4>1, ShiftTextEdits
    <3>. QED  BY <1>3, <3>1, <3>2 DEF Row!ShiftChars
  <2>2. busy /\ still /\ UNCHANGED <<cx, wrap, insert, visible, shape>>
    BY <1>3 DEF Row!ShiftChars, Row!Does, Row!modes, Row!display
  <2>. QED  BY <1>1, <2>1, <2>2, EditKeeps DEF RowTypes
<1>4. ASSUME NEW sx, sx \in Nat, NEW ex, ex \in Int, Row!Erase(sx, ex) PROVE RowInv'
  <2>1. Edited  BY <1>1, <1>4, ClearAreaEdits DEF Row!Erase, Row!display
  <2>2. busy /\ still /\ UNCHANGED <<cx, wrap, insert, visible, shape>>
    BY <1>4 DEF Row!Erase, Row!Does, Row!modes, Row!display
  <2>. QED  BY <1>1, <2>1, <2>2, EditKeeps DEF RowTypes
<1>5. ASSUME NEW n \in 1 .. W, Row!EraseChar(n) PROVE RowInv'
  <2> DEFINE ex == cx + (IF n > W - cx THEN W - cx ELSE n) - 1
  <2>1. cx \in Nat /\ ex \in Int  BY <1>1 DEF RowTypes, Width
  <2>2. Row!Erase(cx, ex)  BY <1>5 DEF Row!EraseChar
  <2> HIDE DEF ex
  <2>. QED  BY <1>4, <2>1, <2>2
<1>6. ASSUME NEW part \in 0 .. 2, Row!EraseLine(part) PROVE RowInv'
  <2>1. cx \in Nat /\ cx \in Int /\ 0 \in Nat /\ W - 1 \in Int  BY <1>1 DEF RowTypes, Width
  <2>2. \/ Row!Erase(cx, W - 1) \/ Row!Erase(0, cx) \/ Row!Erase(0, W - 1)
    <3>1. part = 0 \/ part = 1 \/ part = 2  OBVIOUS
    <3>. QED  BY <1>6, <3>1 DEF Row!EraseLine
  <2>. QED  BY <1>4, <2>1, <2>2
<1>7. ASSUME NEW x \in Row!Cols, Row!MoveCursor(x) PROVE RowInv'
  <2>1. busy /\ quiet /\ UNCHANGED <<cells, dirty, wrap, insert, visible, shape>> /\ cx' = x
    BY <1>7 DEF Row!MoveCursor, Row!Does, Row!modes, Row!display
  <2>2. Edited  BY <1>1, <2>1 DEF Edited, RowTypes, Dirty
  <2>3. cx' \in 0 .. W  BY <2>1 DEF Row!Cols, Width
  <2>. QED  BY <1>1, <2>1, <2>2, <2>3, EditKeeps DEF RowTypes
<1>8. ASSUME NEW w \in BOOLEAN, NEW i \in BOOLEAN, NEW v \in BOOLEAN, NEW s \in Shapes,
             Row!SetMode(w, i, v, s)
      PROVE  RowInv'
  <2>1. busy /\ quiet /\ UNCHANGED <<cells, dirty, cx>>
    BY <1>8 DEF Row!SetMode, Row!Does, Row!display
  <2>2. wrap' \in BOOLEAN /\ insert' \in BOOLEAN /\ visible' \in BOOLEAN
        /\ shape' \in {"none", "underline", "block"}
    BY <1>8 DEF Row!SetMode, AllShapes
  <2>3. Edited  BY <1>1, <2>1 DEF Edited, RowTypes, Dirty
  <2>. QED  BY <1>1, <2>1, <2>2, <2>3, EditKeeps DEF RowTypes
<1>9. ASSUME Row!Reset PROVE RowInv'
  <2>1. busy /\ quiet  BY <1>9 DEF Row!Reset, Row!Does, Row!display
  <2>2. wrap' \in BOOLEAN /\ insert' \in BOOLEAN /\ visible' \in BOOLEAN
        /\ shape' \in {"none", "underline", "block"} /\ cx' \in 0 .. W
    <3>1. wrap' = TRUE /\ insert' = FALSE /\ visible' = TRUE /\ shape' = DefaultShape /\ cx' = 0
      BY <1>9 DEF Row!Reset
    <3>2. cx' \in 0 .. W  BY <3>1 DEF Width
    <3>3. shape' \in {"none", "underline", "block"}  BY <3>1 DEF AllShapes
    <3>. QED  BY <3>1, <3>2, <3>3, Zenon
  <2>3. 0 \in Nat /\ W - 1 \in Int /\ Row!ClearArea(0, W - 1)  BY <1>9 DEF Row!Reset, Width
  <2>4. Edited  BY <1>1, <2>1, <2>3, ClearAreaEdits
  <2>. QED  BY <2>1, <2>2, <2>4, EditKeeps
<1>10. CASE UNCHANGED Row!vars
  <2>1. UNCHANGED <<cells, dirty, cx, wrap, insert, visible, shape, drawn,
                    active, busy, shows, torn, late, left>>
    BY <1>10 DEF Row!vars
  <2>2. RowTypes' /\ FollowedInv' /\ CursorInv'
    BY <1>1, <2>1 DEF RowInv, RowTypes, FollowedInv, CursorInv
  <2>3. WholeInv'  BY <2>1 DEF RowInv, WholeInv, Row!Whole, Row!IsWhole
  <2>4. UNCHANGED <<Dirty, Row!LeftBehind, Under>>
    BY <2>1 DEF Dirty, Row!LeftBehind, Under, Row!CursorCells
  <2>5. PendingInv'  BY <2>1, <2>4 DEF RowInv, PendingInv, Wiped
  <2>6. SettledInv'  BY <2>1, <2>4 DEF RowInv, SettledInv, ShowsRow, MarksOnly
  <2>. QED  BY <2>2, <2>3, <2>5, <2>6 DEF RowInv
<1>11. ASSUME Row!Returns PROVE RowInv'
  BY <1>2, <1>3, <1>5, <1>6, <1>7, <1>8, <1>9, <1>11, BeginInputKeeps, EndInputKeeps,
     BlinkKeeps, ActivateKeeps, DeactivateKeeps DEF Row!Returns
<1>. QED  BY <1>10, <1>11 DEF Row!Next

\* What the invariant is for.
LEMMA RowInvShows ==
  ASSUME Width, RowInv
  PROVE  Row!RowShown /\ Row!OneCursor
<1>1. Row!RowShown
  BY DEF RowInv, SettledInv, ShowsRow, Row!RowShown
<1>2. Row!OneCursor
  <2> DEFINE there == IF visible /\ drawn.showed
                      THEN Row!CursorCells([x |-> cx, cell |-> cells[cx]]) ELSE {}
  <2>1. SUFFICES ASSUME active, ~ busy, ~ torn, ~ late
                 PROVE  \A p \in Row!Cols \ Row!LeftBehind : shows[p].mark # "no" <=> p \in there
    BY DEF Row!OneCursor
  <2>2. there = Under
    <3>1. CASE visible /\ drawn.showed
      <4>1. drawn.x = cx /\ drawn.cell = cells[cx]  BY <2>1, <3>1 DEF RowInv, CursorInv
      <4>. QED  BY <3>1, <4>1 DEF Under, Row!CursorCells
    <3>2. CASE ~ (visible /\ drawn.showed)  BY <3>2 DEF Under
    <3>. QED  BY <3>1, <3>2
  <2> HIDE DEF there
  <2>. QED  BY <2>1, <2>2 DEF RowInv, SettledInv, MarksOnly
<1>. QED  BY <1>1, <1>2

\* The invariant holds of every width, set of characters and length of a read.
LEMMA RowInvAlways ==
  ASSUME Width, Shapes \subseteq AllShapes, DefaultShape \in AllShapes
  PROVE  Row!Spec => []RowInv
<1>1. Row!Init => RowInv  BY InitKeeps DEF AllShapes
<1>2. RowInv /\ [Row!Next]_(Row!vars) => RowInv'  BY RowInvariance
<1>. QED  BY <1>1, <1>2, PTL DEF Row!Spec

\* What the module of the row promises is what is promised here.
LEMMA SamePromises == (Row!RowShown <=> RowShown) /\ (Row!OneCursor <=> OneCursor)
BY DEF Row!RowShown, RowShown, Row!OneCursor, OneCursor, Row!CursorCells, CursorCells,
       Row!LeftBehind, LeftBehind, Row!BlankCell, BlankCell, Row!Cell, Cell, Row!Cols, Cols

\* Whatever is printed, inserted, deleted and erased between two paintings, the
\* active window shows its row when output has been processed, for every width of
\* the window (do_normal_char, clear_area, shift_text, changed_line, update):
\* but for the last column after a character was wrapped out of it (LeftBehind),
\* and not after a character lost a half (torn) or a late signal drew an old
\* cursor (late), until column or window are painted again.
THEOREM RowShownAlways ==
  ASSUME Row!WidthAssumption, Row!CharactersAssumption, Row!ShapeAssumption
  PROVE  Row!Spec => []RowShown
<1>1. Width /\ Shapes \subseteq AllShapes /\ DefaultShape \in AllShapes
  BY DEF Row!WidthAssumption, Row!ShapeAssumption, Width, AllShapes
<1>2. Row!Spec => []RowInv  BY <1>1, RowInvAlways
<1>3. RowInv => RowShown  BY <1>1, RowInvShows, SamePromises
<1>. QED  BY <1>2, <1>3, PTL

\* The display shows one cursor, over what is at cursor_x, and none of an earlier
\* one, through blinking, modes and switches of the window (input, draw_cursor,
\* drawCursor, updateCursor, enableCursor), with the same exceptions: LeftBehind,
\* torn and late.
THEOREM OneCursorAlways ==
  ASSUME Row!WidthAssumption, Row!CharactersAssumption, Row!ShapeAssumption
  PROVE  Row!Spec => []OneCursor
<1>1. Width /\ Shapes \subseteq AllShapes /\ DefaultShape \in AllShapes
  BY DEF Row!WidthAssumption, Row!ShapeAssumption, Width, AllShapes
<1>2. Row!Spec => []RowInv  BY <1>1, RowInvAlways
<1>3. RowInv => OneCursor  BY <1>1, RowInvShows, SamePromises
<1>. QED  BY <1>2, <1>3, PTL
==============================================================================
