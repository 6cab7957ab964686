--------------------------- MODULE ScreenPanProofs ---------------------------
(***************************************************************************)
(* The display never leaves the video memory, and shows every line of      *)
(* every row wherever panning has come to: for every number of rows,       *)
(* height of font, margin and memory, and in either direction.             *)
(***************************************************************************)
EXTENDS ScreenPan, TLAPS

\* The offset is one the device accepts.
Inv == kind \in {"redraw", "pan", "wrap"} /\ back \in BOOLEAN /\ off \in 0 .. OffsetMax

\* The sizes of the screen and of the memory.
LEMMA Sizes ==
  ASSUME kind \in {"redraw", "pan", "wrap"}
  PROVE  /\ Height \in Nat \ {0} /\ Size \in Nat \ {0} /\ Spare \in Nat
         /\ OffsetMax \in Nat
         /\ Size = Height + Spare
         /\ kind = "wrap" => OffsetMax = Size - 1
         /\ kind # "wrap" => OffsetMax <= Spare
<1>1. Bottom \in Nat  BY LinesAssumption, RowsAssumption
<1>2. R * F \in Nat \ {0}  BY RowsAssumption
<1>. QED  BY <1>1, <1>2, LinesAssumption DEF Height, Size, OffsetMax

\* adjustOffset: from an offset of the device every line has a place in the
\* memory, and no other line the same.
LEMMA PlacesApart ==
  ASSUME kind \in {"redraw", "pan", "wrap"}, back \in BOOLEAN, NEW o \in 0 .. OffsetMax
  PROVE  /\ \A y \in Lines : Place(o, y) \in Memory
         /\ \A y, z \in Lines : Place(o, y) = Place(o, z) => y = z
<1>. DEFINE z(y) == (IF back THEN Height - 1 - y ELSE y) + o
<1>1. \A y \in Lines : z(y) \in Int /\ z(y) >= o /\ z(y) < Height + o
  BY Sizes DEF Lines
<1>2. \A x, y \in Lines : z(x) = z(y) => x = y
  BY Sizes DEF Lines
<1>3. CASE kind = "wrap"
  <2>1. \A y \in Lines : Place(o, y) = IF z(y) > Size - 1 THEN z(y) - Size ELSE z(y)
    BY <1>1, <1>3, Sizes DEF Place
  <2>2. o \in Int /\ o >= 0 /\ o <= Size - 1
    BY <1>3, Sizes
  <2>. QED  BY <1>1, <1>2, <2>1, <2>2, Sizes DEF Memory
<1>4. CASE kind # "wrap"
  <2>1. \A y \in Lines : Place(o, y) = z(y)
    BY <1>4 DEF Place
  <2>2. o \in Int /\ o >= 0 /\ o <= Spare
    BY <1>4, Sizes
  <2>. QED  BY <1>1, <1>2, <2>1, <2>2, Sizes DEF Memory
<1>. QED  BY <1>3, <1>4

\* Screen::move: wherever panning goes, the new offset is one of the device.
LEMMA OffsetBounds ==
  ASSUME Inv, NEW s \in Int, NEW d \in Int
  PROVE  Offset(s, d) \in 0 .. OffsetMax
<1>1. kind \in {"redraw", "pan", "wrap"}  BY DEF Inv
<1>2. Panned(s, d) \in Int
  <2>1. off \in Int  BY <1>1, Sizes DEF Inv
  <2>2. F \in Int  BY RowsAssumption
  <2>3. \A k \in Int : F * k \in Int  BY <2>2
  <2>. QED  BY <2>1, <2>3 DEF Panned
<1>3. \A n \in Int, m \in Nat \ {0} : n % m \in 0 .. m - 1
  OBVIOUS
<1>4. CASE kind = "wrap"
  <2>. DEFINE m == OffsetMax + 1
  <2>1. m \in Nat \ {0} /\ m - 1 = OffsetMax  BY <1>1, Sizes
  <2>2. Panned(s, d) % m \in 0 .. m - 1
    <3>. HIDE DEF m
    <3>. QED  BY <1>2, <1>3, <2>1
  <2>. QED  BY <1>4, <2>1, <2>2 DEF Offset
<1>5. CASE kind # "wrap"
  <2>1. OffsetMax \in Nat  BY <1>1, Sizes
  <2>. QED  BY <1>2, <1>5, <2>1 DEF Offset
<1>. QED  BY <1>4, <1>5

\* The program starts in it.
LEMMA InitInv == Init => Inv
  BY Sizes DEF Init, Inv

\* Every step keeps the offset in the device's range.
LEMMA StepInv == Inv /\ [Next]_vars => Inv'
<1>. SUFFICES ASSUME Inv, [Next]_vars PROVE Inv'
  OBVIOUS
<1>1. CASE \E t, b \in Rows, n \in (-R) .. R, c \in Content : t <= b /\ n # 0 /\ Scroll(t, b, n, c)
  <2>. PICK t \in Rows, b \in Rows, n \in (-R) .. R, c \in Content : Scroll(t, b, n, c)
    BY <1>1
  <2>. DEFINE s == IF n > 0 THEN t + n ELSE t
              d == IF n > 0 THEN t ELSE t - n
  <2>1. s \in Int /\ d \in Int  BY RowsAssumption DEF Rows
  <2>2. UNCHANGED device /\ (off' = off \/ off' = Offset(s, d))
    BY DEF Scroll
  <2>3. Offset(s, d) \in 0 .. OffsetMax  BY <2>1, OffsetBounds
  <2>. QED  BY <2>2, <2>3 DEF Inv, device, OffsetMax
<1>2. CASE \E r \in Rows, c \in Content : Change(r, c)
  BY <1>2 DEF Change, Inv, device, OffsetMax
<1>3. CASE EnableScroll
  BY <1>3 DEF EnableScroll, Inv, device, OffsetMax
<1>4. CASE Leave \/ Enter
  <2>1. UNCHANGED device /\ off' = 0  BY <1>4 DEF Leave, Enter
  <2>2. UNCHANGED OffsetMax  BY <2>1 DEF device, OffsetMax
  <2>3. OffsetMax \in Nat  BY Sizes DEF Inv
  <2>. QED  BY <2>1, <2>2, <2>3 DEF Inv, device
<1>5. CASE UNCHANGED vars
  BY <1>5 DEF vars, Inv, OffsetMax
<1>. QED  BY <1>1, <1>2, <1>3, <1>4, <1>5 DEF Next

\* Whatever is scrolled, the device is never asked to display what is not in
\* its memory, and no two lines share a place (move, adjustOffset).
THEOREM InMemoryAlways == Spec => []InMemory
<1>1. Inv => InMemory  BY PlacesApart DEF Inv, InMemory
<1>. QED  BY <1>1, InitInv, StepInv, PTL DEF Spec

-----------------------------------------------------------------------------
(* Lines and rows                                                          *)

\* A multiple of h between -h and h is none.
LEMMA SmallMultiple ==
  ASSUME NEW h \in Nat \ {0}, NEW k \in Int, h * k < h, -h < h * k
  PROVE  k = 0
<1>1. CASE k >= 1
  <2>1. h * k >= h * 1  BY <1>1
  <2>. QED  BY <2>1
<1>2. CASE k <= -1
  <2>1. h * (-k) >= h * 1  BY <1>2
  <2>2. h * (-k) = -(h * k)  OBVIOUS
  <2>. QED  BY <2>1, <2>2
<1>. QED  BY <1>1, <1>2

\* A number is divided in one way.
LEMMA Divided ==
  ASSUME NEW h \in Nat \ {0}, NEW x \in Nat, NEW q \in Int, NEW m \in 0 .. h - 1,
         x = h * q + m
  PROVE  x \div h = q /\ x % h = m
<1> DEFINE a == x \div h
           b == x % h
<1>1. a \in Int /\ b \in 0 .. h - 1 /\ x = h * a + b  BY SMT
<1> HIDE DEF a, b
<1>2. h * (a - q) = m - b
  <2>1. h * (a - q) = h * a - h * q  BY <1>1
  <2>2. h * a \in Int /\ h * q \in Int  BY <1>1
  <2>. QED  BY <1>1, <2>1, <2>2
<1>3. a - q = 0
  <2>1. a - q \in Int /\ h * (a - q) < h /\ -h < h * (a - q)  BY <1>1, <1>2
  <2>. QED  BY <2>1, SmallMultiple
<1>4. a = q  BY <1>1, <1>3
<1>5. b = m
  <2>1. h * q \in Int  OBVIOUS
  <2>. QED  BY <1>1, <1>4, <2>1
<1>. QED  BY <1>4, <1>5 DEF a, b

\* A line above the last row's end is one of a row.
LEMMA LineInRow ==
  ASSUME NEW y \in Lines, y < R * F
  PROVE  /\ y \div F \in Rows /\ y % F \in 0 .. F - 1
         /\ y = F * (y \div F) + (y % F)
<1> DEFINE r == y \div F
           m == y % F
<1>1. y \in Nat /\ F \in Nat \ {0} /\ R \in Nat \ {0}
  BY RowsAssumption DEF Lines
<1>2. r \in Int /\ m \in 0 .. F - 1 /\ y = F * r + m  BY <1>1, SMT
<1> HIDE DEF r, m
<1>3. r >= 0
  <2>1. CASE r <= -1
    <3>1. F * (-r) >= F * 1  BY <1>1, <1>2, <2>1
    <3>2. F * (-r) = -(F * r) /\ F * r \in Int  BY <1>1, <1>2
    <3>. QED  BY <1>1, <1>2, <3>1, <3>2
  <2>. QED  BY <1>2, <2>1
<1>4. r < R
  <2>1. CASE r >= R
    <3>1. F * r >= F * R  BY <1>1, <1>2, <2>1
    <3>2. F * R = R * F /\ F * r \in Int /\ F * R \in Int  BY <1>1, <1>2
    <3>. QED  BY <1>1, <1>2, <3>1, <3>2
  <2>. QED  BY <1>1, <1>2, <2>1
<1>5. r \in Rows  BY <1>1, <1>2, <1>3, <1>4 DEF Rows
<1>. QED  BY <1>2, <1>5, Zenon DEF r, m

\* The lines of the rows are the first ones of the screen.
LEMMA RowLines ==
  /\ LinesOf(Rows) = {y \in Lines : y < R * F}
  /\ R * F \in Nat /\ Height \in Nat /\ R * F <= Height
<1>1. LinesOf(Rows) = {y \in Lines : y < R * F}  BY LineInRow DEF LinesOf
<1>2. R * F \in Nat  BY RowsAssumption
<1>3. Bottom \in Nat  BY LinesAssumption, RowsAssumption
<1>. QED  BY <1>1, <1>2, <1>3 DEF Height

\* n rows further is the line n rows further.
LEMMA LineFurther ==
  ASSUME NEW y \in Lines, y < R * F, NEW n \in Int, y \div F + n \in Rows
  PROVE  /\ y + F * n \in Lines /\ y + F * n < R * F
         /\ (y + F * n) \div F = y \div F + n /\ (y + F * n) % F = y % F
<1> DEFINE r == y \div F
           m == y % F
           x == y + F * n
<1>1. y \in Nat /\ F \in Nat \ {0} /\ R \in Nat \ {0}
  BY RowsAssumption DEF Lines
<1>2. r \in Rows /\ m \in 0 .. F - 1 /\ y = F * r + m  BY LineInRow
<1> HIDE DEF r, m
<1>3. x = F * (r + n) + m
  <2>1. r \in Int  BY <1>2 DEF Rows
  <2>2. F * (r + n) = F * r + F * n  BY <1>1, <2>1
  <2>3. F * r \in Int /\ F * n \in Int  BY <1>1, <2>1
  <2>. QED  BY <1>1, <1>2, <2>2, <2>3
<1>4. r + n \in 0 .. R - 1  BY DEF r, Rows
<1>5. F * (r + n) >= 0 /\ F * (r + n) <= F * (R - 1)  BY <1>1, <1>4
<1>6. F * (R - 1) = R * F - F /\ R * F \in Nat  BY <1>1
<1>7. x \in Nat /\ x < R * F
  <2>1. F * (r + n) \in Int /\ m \in Int  BY <1>1, <1>2, <1>4
  <2>. QED  BY <1>1, <1>2, <1>3, <1>5, <1>6, <2>1
<1>8. x \div F = r + n /\ x % F = m
  <2> HIDE DEF x
  <2>. QED  BY <1>1, <1>2, <1>3, <1>4, <1>7, Divided
<1>9. x \in Lines  BY <1>7, RowLines DEF Lines
<1>. QED  BY <1>7, <1>8, <1>9 DEF r, m

-----------------------------------------------------------------------------
(* What the display shows                                                  *)

DeviceOK == kind \in {"redraw", "pan", "wrap"} /\ back \in BOOLEAN

\* Drawing changes the lines drawn, and no other.
LEMMA DrawnAt ==
  ASSUME DeviceOK, NEW o \in 0 .. OffsetMax, NEW m, NEW lines, DOMAIN lines \subseteq Lines,
         NEW y \in Lines
  PROVE  Drawn(m, o, lines)[Place(o, y)] =
           IF y \in DOMAIN lines THEN lines[y] ELSE m[Place(o, y)]
<1> DEFINE here == {x \in DOMAIN lines : Place(o, x) = Place(o, y)}
<1>1. Place(o, y) \in Memory /\ \A x \in Lines : Place(o, x) = Place(o, y) => x = y
  BY PlacesApart DEF DeviceOK
<1>2. Drawn(m, o, lines)[Place(o, y)] =
        IF here = {} THEN m[Place(o, y)] ELSE lines[CHOOSE x \in here : TRUE]
  BY <1>1 DEF Drawn
<1>3. CASE y \in DOMAIN lines
  <2>1. here = {y}  BY <1>1, <1>3
  <2>2. (CHOOSE x \in here : TRUE) = y  BY <2>1
  <2> HIDE DEF here
  <2>. QED  BY <1>2, <1>3, <2>1, <2>2
<1>4. CASE y \notin DOMAIN lines
  <2>1. here = {}  BY <1>1, <1>4
  <2> HIDE DEF here
  <2>. QED  BY <1>2, <1>4, <2>1
<1>. QED  BY <1>3, <1>4

\* Drawing rows shows their text on their lines.
LEMMA RowsDrawnAt ==
  ASSUME DeviceOK, NEW o \in 0 .. OffsetMax, NEW m, NEW tx, NEW rs, NEW y \in Lines
  PROVE  RowsDrawn(m, o, tx, rs)[Place(o, y)] =
           IF y < R * F /\ y \div F \in rs THEN TextLine(tx, y) ELSE m[Place(o, y)]
<1> DEFINE lines == [x \in LinesOf(rs) |-> TextLine(tx, x)]
<1>1. DOMAIN lines \subseteq Lines /\ DOMAIN lines = LinesOf(rs)  BY DEF LinesOf
<1>2. y \in LinesOf(rs) => lines[y] = TextLine(tx, y)  OBVIOUS
<1>3. RowsDrawn(m, o, tx, rs) = Drawn(m, o, lines)  BY DEF RowsDrawn
<1>4. y \in LinesOf(rs) <=> y < R * F /\ y \div F \in rs  BY DEF LinesOf
<1> HIDE DEF lines
<1>5. Drawn(m, o, lines)[Place(o, y)] =
        IF y \in DOMAIN lines THEN lines[y] ELSE m[Place(o, y)]
  BY <1>1, DrawnAt
<1>6. CASE y \in LinesOf(rs)  BY <1>1, <1>2, <1>3, <1>4, <1>5, <1>6
<1>7. CASE y \notin LinesOf(rs)  BY <1>1, <1>3, <1>4, <1>5, <1>7
<1>. QED  BY <1>6, <1>7

\* Erasing the margin below clears the lines after the rows.
LEMMA BottomErasedAt ==
  ASSUME DeviceOK, NEW o \in 0 .. OffsetMax, NEW m, NEW y \in Lines
  PROVE  BottomErased(m, o)[Place(o, y)] = IF y < R * F THEN m[Place(o, y)] ELSE Bare
<1> DEFINE lines == [x \in Lines \ LinesOf(Rows) |-> Bare]
<1>1. /\ DOMAIN lines \subseteq Lines
      /\ y \in DOMAIN lines <=> ~ (y < R * F)
      /\ y \in DOMAIN lines => lines[y] = Bare
  BY RowLines
<1>2. BottomErased(m, o) = Drawn(m, o, lines)  BY DEF BottomErased
<1> HIDE DEF lines
<1>3. Drawn(m, o, lines)[Place(o, y)] =
        IF y \in DOMAIN lines THEN lines[y] ELSE m[Place(o, y)]
  BY <1>1, DrawnAt
<1>. QED  BY <1>1, <1>2, <1>3

\* Erasing the margin beside some rows clears it there, and below all.
LEMMA EdgeErasedAt ==
  ASSUME DeviceOK, NEW o \in 0 .. OffsetMax, NEW e, NEW up \in BOOLEAN, NEW h \in Nat,
         NEW y \in Lines
  PROVE  EdgeErased(e, o, up, h)[Place(o, y)] =
           IF ~ (y < R * F) \/ y \div F \in IF up THEN 0 .. h - 1 ELSE R - h .. R - 1
           THEN Bare ELSE e[Place(o, y)]
<1> DEFINE rs == IF up THEN 0 .. h - 1 ELSE R - h .. R - 1
           ls == LinesOf(rs) \cup (Lines \ LinesOf(Rows))
           lines == [x \in ls |-> Bare]
<1>1. LinesOf(rs) \subseteq Lines
      /\ (y \in LinesOf(rs) <=> (y < R * F /\ y \div F \in rs))
  BY DEF LinesOf
<1>2. EdgeErased(e, o, up, h) = Drawn(e, o, lines)  BY DEF EdgeErased
<1> SUFFICES EdgeErased(e, o, up, h)[Place(o, y)] =
               IF ~ (y < R * F) \/ y \div F \in rs THEN Bare ELSE e[Place(o, y)]
  OBVIOUS
<1> HIDE DEF rs
<1>3. /\ DOMAIN lines \subseteq Lines
      /\ y \in DOMAIN lines <=> ~ (y < R * F) \/ y \div F \in rs
      /\ y \in DOMAIN lines => lines[y] = Bare
  BY <1>1, RowLines
<1> HIDE DEF lines
<1>4. Drawn(e, o, lines)[Place(o, y)] =
        IF y \in DOMAIN lines THEN lines[y] ELSE e[Place(o, y)]
  BY <1>3, DrawnAt
<1>. QED  BY <1>2, <1>3, <1>4

\* What panning moves: line y of the new display is the line n rows further of
\* the old one.
LEMMA PannedPlace ==
  ASSUME DeviceOK, off \in 0 .. OffsetMax, NEW s \in Int, NEW d \in Int,
         kind # "redraw", ~ StartsOver(s, d),
         NEW y \in Lines, y + F * (s - d) \in Lines
  PROVE  Place(Offset(s, d), y) = Place(off, y + F * (s - d))
<1> DEFINE n == F * (s - d)
           p == Panned(s, d)
           o == Offset(s, d)
           a == (IF back THEN Height - 1 - y ELSE y) + o
           b == (IF back THEN Height - 1 - (y + n) ELSE y + n) + off
<1>1. /\ n \in Int /\ y \in Int /\ y + n \in Int /\ Height \in Int /\ off \in Int
      /\ p = off + IF back THEN -n ELSE n
  <2>1. F \in Int  BY RowsAssumption
  <2>2. F * (d - s) = -(F * (s - d)) /\ F * (s - d) \in Int  BY <2>1
  <2>3. Height \in Int /\ OffsetMax \in Nat  BY Sizes DEF DeviceOK
  <2>. QED  BY <2>2, <2>3 DEF Panned, Lines
<1> HIDE DEF n, p
<1>2. b = (IF back THEN Height - 1 - y ELSE y) + p  BY <1>1 DEF DeviceOK
<1>3. p \in Int  BY <1>1
<1>4. y + n = y + F * (s - d)  BY DEF n
<1>5. CASE kind = "pan"
  <2>1. Place(o, y) = a /\ Place(off, y + n) = b  BY <1>5 DEF Place
  <2>2. p \in 0 .. OffsetMax  BY <1>5 DEF StartsOver, p
  <2>3. OffsetMax \in Nat  BY Sizes DEF DeviceOK
  <2>4. o = p
    <3>1. ~ (p < 0) /\ ~ (p > OffsetMax)  BY <2>2, <2>3
    <3>. QED  BY <1>5, <3>1 DEF Offset, p
  <2>. QED  BY <1>2, <1>4, <2>1, <2>4
<1>6. CASE kind = "wrap"
  <2>1. OffsetMax + 1 = Size /\ Size \in Nat \ {0} /\ OffsetMax \in Nat
    BY <1>6, Sizes DEF DeviceOK
  <2>2. /\ Place(o, y) = IF a > OffsetMax THEN a - Size ELSE a
        /\ Place(off, y + n) = IF b > OffsetMax THEN b - Size ELSE b
    BY <1>6, <2>1 DEF Place
  <2>3. o = p % Size  BY <1>6, <2>1 DEF Offset, p
  <2>4. o \in 0 .. OffsetMax
    <3> HIDE DEF o
    <3>. QED  BY <1>3, <2>1, <2>3
  <2>5. /\ Place(o, y) \in 0 .. Size - 1
        /\ Place(off, y + n) \in 0 .. Size - 1
    BY <1>4, <2>4, PlacesApart DEF Memory, DeviceOK
  <2> DEFINE k == p \div Size
  <2>6. k \in Int /\ p = Size * k + o
    <3> HIDE DEF o
    <3>. QED  BY <1>3, <2>1, <2>3, SMT
  <2> HIDE DEF o, k
  <2>7. b - a = Size * k
    <3>1. a \in Int /\ Size * k \in Int  BY <1>1, <2>1, <2>4, <2>6
    <3>. QED  BY <1>1, <1>2, <1>3, <2>1, <2>4, <2>6, <3>1
  <2> DEFINE u == Place(o, y)
             v == Place(off, y + n)
             i == (IF a > OffsetMax THEN 1 ELSE 0) - (IF b > OffsetMax THEN 1 ELSE 0)
  <2>8. i \in Int /\ v - u = Size * (k + i)
    <3>1. a \in Int /\ b \in Int  BY <1>1, <1>2, <1>3, <2>1, <2>4
    <3>2. i \in {-1, 0, 1}  OBVIOUS
    <3>3. v - u = (b - a) + (IF i = 0 THEN 0 ELSE IF i = 1 THEN Size ELSE -Size)
      <4> HIDE DEF a, b
      <4>. QED  BY <2>1, <2>2, <3>1
    <3>4. Size * (k + i) = Size * k + Size * i
      <4> HIDE DEF i
      <4>. QED  BY <2>1, <2>6, <3>2
    <3>5. Size * i = IF i = 0 THEN 0 ELSE IF i = 1 THEN Size ELSE -Size
      <4> HIDE DEF i
      <4>. QED  BY <2>1, <3>2
    <3>. QED  BY <2>7, <3>2, <3>3, <3>4, <3>5
  <2> HIDE DEF i, u, v
  <2>9. k + i \in Int /\ Size * (k + i) < Size /\ -Size < Size * (k + i)
    <3>1. u \in 0 .. Size - 1 /\ v \in 0 .. Size - 1  BY <2>5 DEF u, v
    <3>. QED  BY <2>1, <2>6, <2>8, <3>1
  <2>10. k + i = 0  BY <2>1, <2>9, SmallMultiple
  <2>11. v - u = 0  BY <2>1, <2>8, <2>10
  <2>12. u = v
    <3>1. u \in Int /\ v \in Int  BY <2>1, <2>5 DEF u, v
    <3>. QED  BY <2>11, <3>1
  <2>. QED  BY <1>4, <2>12 DEF u, v, o
<1>. QED  BY <1>5, <1>6 DEF DeviceOK

ShowsText(m, o, tx) ==
  \A y \in Lines : m[Place(o, y)] = IF y < R * F THEN TextLine(tx, y) ELSE Bare
ShowsEdge(e, o) == \A y \in Lines : e[Place(o, y)] = Bare

DisplayInv == text \in [Rows -> Content] /\ DisplayRight

\* The places of the lines only change with the device and the offset.
LEMMA NextDisplay ==
  ASSUME UNCHANGED device, text' \in [Rows -> Content],
         on' => ShowsText(mem', off', text') /\ ShowsEdge(edge', off')
  PROVE  DisplayInv'
<1>1. kind' = kind /\ back' = back  BY DEF device
<1>2. OffsetMax' = OffsetMax  BY <1>1 DEF OffsetMax
<1>3. \A y \in Lines : Place(off, y)' = Place(off', y)
  <2>1. TAKE y \in Lines
  <2>. QED  BY <1>1, <1>2 DEF Place
<1>4. ASSUME on'
      PROVE  \A y \in Lines : /\ mem'[Place(off, y)'] = IF y < R * F THEN TextLine(text', y) ELSE Bare
                              /\ edge'[Place(off, y)'] = Bare
  BY <1>3, <1>4 DEF ShowsText, ShowsEdge
<1>. QED  BY <1>4 DEF DisplayInv, DisplayRight, TextLine

\* Moving a region and drawing the rest shows the scrolled text.
LEMMA ScrollShows ==
  ASSUME Inv, DisplayInv, NEW t \in Rows, NEW b \in Rows, NEW n \in (-R) .. R,
         NEW c \in Content, t <= b, n # 0, Scroll(t, b, n, c)
  PROVE  DisplayInv'
<1> DEFINE s == IF n > 0 THEN t + n ELSE t
           d == IF n > 0 THEN t ELSE t - n
           h == b - t + 1 - (IF n > 0 THEN n ELSE -n)
           moved == d .. d + h - 1
           tx == [r \in Rows |-> IF r \in moved THEN text[r + n]
                                 ELSE IF r \in t .. b THEN c ELSE text[r]]
           moves == Accepts(s, d, h)
           left == IF moves /\ ~ StartsOver(s, d) THEN (t .. b) \ moved ELSE t .. b
           o == Offset(s, d)
<1>1. /\ on /\ h > 0 /\ text' = tx /\ UNCHANGED device
      /\ moves => /\ off' = o /\ mem' = RowsDrawn(Moved(s, d, h, tx), o, tx, left)
                  /\ edge' = EdgeMoved(s, d)
      /\ ~ moves => mem' = RowsDrawn(mem, off, tx, left) /\ UNCHANGED <<off, edge>>
  BY DEF Scroll
<1>2. /\ t \in Int /\ b \in Int /\ n \in Int /\ R \in Nat /\ s \in Int /\ d \in Int /\ h \in Int
      /\ s - d = n /\ t >= 0 /\ b < R
  BY RowsAssumption DEF Rows
<1>3. /\ \A r : r \in moved <=> r \in t .. b /\ r + n \in t .. b /\ r \in Int
      /\ \A r \in Rows : r \in Int
  <2>1. CASE n > 0  BY <1>1, <1>2, <2>1
  <2>2. CASE ~ (n > 0)  BY <1>1, <1>2, <2>2
  <2>. QED  BY <2>1, <2>2 DEF Rows
<1>4. Outside(s, d, h) = Rows \ (t .. b)
  <2>1. CASE n > 0
    <3>1. Over(s, d) = t /\ Under(s, d, h) = b + 1  BY <1>2, <2>1 DEF Over, Under
    <3>. QED  BY <1>2, <3>1 DEF Outside, Rows
  <2>2. CASE ~ (n > 0)
    <3>1. Over(s, d) = t /\ Under(s, d, h) = b + 1  BY <1>2, <2>2 DEF Over, Under
    <3>. QED  BY <1>2, <3>1 DEF Outside, Rows
  <2>. QED  BY <2>1, <2>2
<1>5. /\ tx \in [Rows -> Content]
      /\ \A r \in moved : tx[r] = text[r + n] /\ r \in Rows /\ r + n \in Rows
      /\ \A r \in Rows : r \notin t .. b => tx[r] = text[r]
  <2>1. \A r \in moved : r \in Rows /\ r + n \in Rows  BY <1>2, <1>3 DEF Rows
  <2>2. \A r \in Rows : r \notin t .. b => r \notin moved  BY <1>3
  <2>3. text \in [Rows -> Content]  BY DEF DisplayInv
  <2> HIDE DEF moved
  <2>. QED  BY <2>1, <2>2, <2>3
<1>6. DeviceOK /\ off \in 0 .. OffsetMax /\ o \in 0 .. OffsetMax
  BY <1>2, OffsetBounds DEF Inv, DeviceOK
<1>7. ShowsText(mem, off, text) /\ ShowsEdge(edge, off)
  BY <1>1 DEF DisplayInv, DisplayRight, ShowsText, ShowsEdge
<1>8. left = IF moves /\ ~ StartsOver(s, d) THEN (t .. b) \ moved ELSE t .. b
  OBVIOUS
<1>9. moves => kind # "redraw"  BY DEF Accepts
<1>10. h = b - t + 1 - (IF n > 0 THEN n ELSE -n)  OBVIOUS
<1> HIDE DEF s, d, h, moved, tx, moves, left, o
<1>11. CASE ~ moves
  <2>1. left = t .. b  BY <1>8, <1>11
  <2>2. ASSUME NEW y \in Lines
        PROVE  RowsDrawn(mem, off, tx, left)[Place(off, y)] =
                 IF y < R * F THEN TextLine(tx, y) ELSE Bare
    <3>1. RowsDrawn(mem, off, tx, left)[Place(off, y)] =
            IF y < R * F /\ y \div F \in left THEN TextLine(tx, y) ELSE mem[Place(off, y)]
      BY <1>6, RowsDrawnAt
    <3>2. mem[Place(off, y)] = IF y < R * F THEN TextLine(text, y) ELSE Bare
      BY <1>7 DEF ShowsText
    <3>3. y < R * F => y \div F \in Rows  BY LineInRow
    <3>4. y < R * F /\ y \div F \notin t .. b => TextLine(tx, y) = TextLine(text, y)
      BY <1>5, <3>3 DEF TextLine
    <3>. QED  BY <2>1, <3>1, <3>2, <3>4
  <2>3. ShowsText(mem', off', text') /\ ShowsEdge(edge', off')
    BY <1>1, <1>7, <1>11, <2>2 DEF ShowsText
  <2>. QED  BY <1>1, <1>5, <2>3, NextDisplay
<1>12. CASE moves
  <2> DEFINE m1 == RowsDrawn(mem, o, tx, Outside(s, d, h))
             m2 == BottomErased(m1, o)
             m3 == RowsDrawn(m2, o, tx, left)
  <2>1. mem' = m3 /\ off' = o /\ edge' = EdgeMoved(s, d)
    BY <1>1, <1>12 DEF Moved, o
  <2>2. ASSUME NEW y \in Lines, y < R * F, y \div F + n \in Rows, ~ StartsOver(s, d)
        PROVE  /\ Place(o, y) = Place(off, y + F * n) /\ y + F * n \in Lines
               /\ y + F * n < R * F
               /\ (y + F * n) \div F = y \div F + n /\ (y + F * n) % F = y % F
    <3>1. /\ y + F * n \in Lines /\ y + F * n < R * F
          /\ (y + F * n) \div F = y \div F + n /\ (y + F * n) % F = y % F
      BY <1>2, <2>2, LineFurther
    <3>2. y + F * (s - d) \in Lines  BY <1>2, <3>1
    <3>3. Place(Offset(s, d), y) = Place(off, y + F * (s - d))
      BY <1>2, <1>6, <1>9, <1>12, <2>2, <3>2, PannedPlace
    <3>. QED  BY <1>2, <3>1, <3>3 DEF o
  <2>3. ASSUME NEW y \in Lines
        PROVE  m3[Place(o, y)] = IF y < R * F THEN TextLine(tx, y) ELSE Bare
    <3>1. m3[Place(o, y)] = IF y < R * F /\ y \div F \in left THEN TextLine(tx, y)
                            ELSE m2[Place(o, y)]
      BY <1>6, RowsDrawnAt
    <3>2. m2[Place(o, y)] = IF y < R * F THEN m1[Place(o, y)] ELSE Bare
      BY <1>6, BottomErasedAt
    <3>3. m1[Place(o, y)] = IF y < R * F /\ y \div F \in Outside(s, d, h)
                            THEN TextLine(tx, y) ELSE mem[Place(o, y)]
      BY <1>6, RowsDrawnAt
    <3> HIDE DEF m1, m2, m3
    <3>4. CASE ~ (y < R * F)  BY <3>1, <3>2, <3>4
    <3>5. CASE y < R * F
      <4> DEFINE r == y \div F
      <4>1. r \in Rows  BY <3>5, LineInRow
      <4>2. CASE r \in left  BY <3>1, <3>5, <4>2
      <4>3. CASE r \in Outside(s, d, h) /\ r \notin left
        BY <3>1, <3>2, <3>3, <3>5, <4>3
      <4>4. CASE r \notin Outside(s, d, h) /\ r \notin left
        <5>1. r \in moved /\ ~ StartsOver(s, d)  BY <1>4, <1>8, <4>1, <4>4
        <5>2. tx[r] = text[r + n] /\ r + n \in Rows  BY <1>5, <5>1
        <5>3. /\ Place(o, y) = Place(off, y + F * n) /\ y + F * n \in Lines
              /\ y + F * n < R * F
              /\ (y + F * n) \div F = r + n /\ (y + F * n) % F = y % F
          BY <2>2, <3>5, <5>1, <5>2
        <5>4. mem[Place(off, y + F * n)] = TextLine(text, y + F * n)
          BY <1>7, <5>3 DEF ShowsText
        <5>5. TextLine(text, y + F * n) = TextLine(tx, y)
          BY <5>2, <5>3 DEF TextLine
        <5>. QED  BY <3>1, <3>2, <3>3, <3>5, <4>4, <5>3, <5>4, <5>5
      <4>. QED  BY <4>2, <4>3, <4>4
    <3>. QED  BY <3>4, <3>5
  <2>4. ASSUME NEW y \in Lines
        PROVE  EdgeMoved(s, d)[Place(o, y)] = Bare
    <3>1. CASE StartsOver(s, d)
      <4>1. EdgeMoved(s, d) = EdgeErased(edge, o, TRUE, R)
        BY <3>1 DEF EdgeMoved, o
      <4>2. EdgeErased(edge, o, TRUE, R)[Place(o, y)] =
              IF ~ (y < R * F) \/ y \div F \in 0 .. R - 1 THEN Bare ELSE edge[Place(o, y)]
        BY <1>2, <1>6, EdgeErasedAt, ZenonT(40)
      <4>3. y < R * F => y \div F \in 0 .. R - 1  BY LineInRow DEF Rows
      <4>. QED  BY <4>1, <4>2, <4>3
    <3>2. CASE ~ StartsOver(s, d)
      <4> DEFINE g == IF d > s THEN d - s ELSE s - d
                 up == d > s
                 rs == IF up THEN 0 .. g - 1 ELSE R - g .. R - 1
      <4>1. EdgeMoved(s, d) = EdgeErased(edge, o, up, g)
        BY <3>2 DEF EdgeMoved, o
      <4>2. g \in Nat /\ up \in BOOLEAN /\ g = (IF n > 0 THEN n ELSE -n) /\ (up <=> n < 0)
        BY <1>2
      <4>3. EdgeErased(edge, o, up, g)[Place(o, y)] =
              IF ~ (y < R * F) \/ y \div F \in rs THEN Bare ELSE edge[Place(o, y)]
        <5>1. CASE up
          <6>1. EdgeErased(edge, o, up, g) = EdgeErased(edge, o, TRUE, g)
            BY <5>1 DEF EdgeErased
          <6>2. rs = 0 .. g - 1  BY <5>1
          <6>3. EdgeErased(edge, o, TRUE, g)[Place(o, y)] =
                  IF ~ (y < R * F) \/ y \div F \in 0 .. g - 1 THEN Bare ELSE edge[Place(o, y)]
            <7>1. g \in Nat  BY <4>2
            <7> HIDE DEF g, up, rs
            <7>. QED  BY <1>6, <7>1, EdgeErasedAt, ZenonT(40)
          <6> HIDE DEF g, up, rs
          <6>. QED  BY <6>1, <6>2, <6>3
        <5>2. CASE ~ up
          <6>1. EdgeErased(edge, o, up, g) = EdgeErased(edge, o, FALSE, g)
            BY <5>2 DEF EdgeErased
          <6>2. rs = R - g .. R - 1  BY <5>2
          <6>3. EdgeErased(edge, o, FALSE, g)[Place(o, y)] =
                  IF ~ (y < R * F) \/ y \div F \in R - g .. R - 1 THEN Bare ELSE edge[Place(o, y)]
            <7>1. g \in Nat  BY <4>2
            <7> HIDE DEF g, up, rs
            <7>. QED  BY <1>6, <7>1, EdgeErasedAt, ZenonT(40)
          <6> HIDE DEF g, up, rs
          <6>. QED  BY <6>1, <6>2, <6>3
        <5>. QED  BY <5>1, <5>2
      <4>4. CASE ~ (y < R * F) \/ y \div F \in rs  BY <4>1, <4>3, <4>4
      <4>5. CASE y < R * F /\ y \div F \notin rs
        <5>1. y \div F \in Rows  BY <4>5, LineInRow
        <5>2. y \div F + n \in Rows
          <6> DEFINE r == y \div F
          <6>1. r \in 0 .. R - 1 /\ r \notin rs  BY <4>5, <5>1 DEF Rows
          <6> HIDE DEF r
          <6>2. CASE n > 0  BY <1>2, <4>2, <6>1, <6>2 DEF Rows, r
          <6>3. CASE n < 0  BY <1>2, <4>2, <6>1, <6>3 DEF Rows, r
          <6>. QED  BY <1>2, <6>2, <6>3
        <5>3. Place(o, y) = Place(off, y + F * n) /\ y + F * n \in Lines
          BY <2>2, <3>2, <4>5, <5>2
        <5>4. edge[Place(off, y + F * n)] = Bare  BY <1>7, <5>3 DEF ShowsEdge
        <5>. QED  BY <4>1, <4>3, <4>5, <5>3, <5>4
      <4>. QED  BY <4>4, <4>5
    <3>. QED  BY <3>1, <3>2
  <2>5. ShowsText(mem', off', text')  BY <1>1, <2>1, <2>3 DEF ShowsText
  <2>6. ShowsEdge(edge', off')  BY <2>1, <2>4 DEF ShowsEdge
  <2>. QED  BY <1>1, <1>5, <2>5, <2>6, NextDisplay
<1>. QED  BY <1>11, <1>12

\* What draws, and what does not, leaves the display right.
LEMMA ChangeShows ==
  ASSUME Inv, DisplayInv, NEW r \in Rows, NEW c \in Content, Change(r, c)
  PROVE  DisplayInv'
<1> DEFINE tx == [text EXCEPT ![r] = c]
<1>1. /\ text' = tx /\ tx \in [Rows -> Content] /\ UNCHANGED device
      /\ off' = off /\ edge' = edge /\ on' = on
      /\ on => mem' = RowsDrawn(mem, off, tx, {r})
  BY DEF Change, DisplayInv
<1>2. \A q \in Rows : q # r => tx[q] = text[q]  BY DEF DisplayInv
<1> HIDE DEF tx
<1>3. DeviceOK /\ off \in 0 .. OffsetMax  BY DEF Inv, DeviceOK
<1>4. ASSUME on
      PROVE  ShowsText(mem', off', text') /\ ShowsEdge(edge', off')
  <2>1. ShowsText(mem, off, text) /\ ShowsEdge(edge, off)
    BY <1>4 DEF DisplayInv, DisplayRight, ShowsText, ShowsEdge
  <2>2. ASSUME NEW y \in Lines
        PROVE  RowsDrawn(mem, off, tx, {r})[Place(off, y)] =
                 IF y < R * F THEN TextLine(tx, y) ELSE Bare
    <3>1. RowsDrawn(mem, off, tx, {r})[Place(off, y)] =
            IF y < R * F /\ y \div F \in {r} THEN TextLine(tx, y) ELSE mem[Place(off, y)]
      BY <1>3, RowsDrawnAt
    <3>2. mem[Place(off, y)] = IF y < R * F THEN TextLine(text, y) ELSE Bare
      BY <2>1 DEF ShowsText
    <3>3. y < R * F /\ y \div F # r => TextLine(tx, y) = TextLine(text, y)
      BY <1>2, LineInRow DEF TextLine
    <3>. QED  BY <3>1, <3>2, <3>3
  <2>. QED  BY <1>1, <1>4, <2>1, <2>2 DEF ShowsText
<1>. QED  BY <1>1, <1>4, NextDisplay

\* Taking the console draws everything, whatever was on the screen.
LEMMA EnterShows ==
  ASSUME Inv, DisplayInv, Enter
  PROVE  DisplayInv'
<1> DEFINE m1 == BottomErased(mem, 0)
<1>1. /\ text' = text /\ text \in [Rows -> Content] /\ UNCHANGED device /\ off' = 0
      /\ mem' = RowsDrawn(m1, 0, text, Rows) /\ edge' = EdgeErased(edge, 0, TRUE, R)
  BY DEF Enter, DisplayInv
<1>2. DeviceOK /\ 0 \in 0 .. OffsetMax  BY Sizes DEF Inv, DeviceOK
<1> DEFINE h == R
<1>h. h \in Nat  BY RowsAssumption
<1>3. ASSUME NEW y \in Lines
      PROVE  /\ mem'[Place(0, y)] = IF y < R * F THEN TextLine(text, y) ELSE Bare
             /\ edge'[Place(0, y)] = Bare
  <2>1. RowsDrawn(m1, 0, text, Rows)[Place(0, y)] =
          IF y < R * F /\ y \div F \in Rows THEN TextLine(text, y) ELSE m1[Place(0, y)]
    BY <1>2, RowsDrawnAt
  <2>2. m1[Place(0, y)] = IF y < R * F THEN mem[Place(0, y)] ELSE Bare
    BY <1>2, BottomErasedAt
  <2>3. EdgeErased(edge, 0, TRUE, h)[Place(0, y)] =
          IF ~ (y < R * F) \/ y \div F \in 0 .. h - 1 THEN Bare ELSE edge[Place(0, y)]
    <3> HIDE DEF h
    <3>. QED  BY <1>2, <1>h, EdgeErasedAt
  <2>4. y < R * F => y \div F \in Rows /\ y \div F \in 0 .. R - 1
    BY LineInRow DEF Rows
  <2> HIDE DEF m1
  <2>. QED  BY <1>1, <2>1, <2>2, <2>3, <2>4
<1>4. ShowsText(mem', off', text') /\ ShowsEdge(edge', off')
  BY <1>1, <1>3 DEF ShowsText, ShowsEdge
<1>. QED  BY <1>1, <1>4, NextDisplay

\* Every step keeps the display right.
LEMMA DisplayStep == Inv /\ DisplayInv /\ [Next]_vars => DisplayInv'
<1> SUFFICES ASSUME Inv, DisplayInv, [Next]_vars
             PROVE  DisplayInv'
  OBVIOUS
<1>1. ASSUME NEW t \in Rows, NEW b \in Rows, NEW n \in (-R) .. R, NEW c \in Content,
             t <= b, n # 0, Scroll(t, b, n, c)
      PROVE  DisplayInv'
  BY <1>1, ScrollShows
<1>2. ASSUME NEW r \in Rows, NEW c \in Content, Change(r, c)
      PROVE  DisplayInv'
  BY <1>2, ChangeShows
<1>3. CASE Enter  BY <1>3, EnterShows
<1>4. CASE Leave
  <2>1. on' = FALSE /\ text' = text /\ UNCHANGED device  BY <1>4 DEF Leave
  <2>. QED  BY <2>1, NextDisplay DEF DisplayInv
<1>5. CASE EnableScroll \/ UNCHANGED vars
  <2>1. UNCHANGED <<text, device, off, mem, edge, on>>
    BY <1>5 DEF EnableScroll, vars, device
  <2>2. on => ShowsText(mem, off, text) /\ ShowsEdge(edge, off)
    BY DEF DisplayInv, DisplayRight, ShowsText, ShowsEdge
  <2>. QED  BY <2>1, <2>2, NextDisplay DEF DisplayInv
<1>. QED  BY <1>1, <1>2, <1>3, <1>4, <1>5 DEF Next

\* Wherever panning has come to, in either direction and on every device, the
\* display shows every line of every row and clean margins (Screen::move,
\* eraseMargin, FbShellManager::redraw).
THEOREM DisplayRightAlways == Spec => []DisplayRight
<1>1. Init => DisplayInv  BY DEF Init, DisplayInv, DisplayRight
<1>2. DisplayInv => DisplayRight  BY DEF DisplayInv
<1>. QED  BY <1>1, <1>2, DisplayStep, InitInv, StepInv, PTL DEF Spec
=============================================================================
