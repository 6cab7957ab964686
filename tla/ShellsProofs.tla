---------------------------- MODULE ShellsProofs ----------------------------
(***************************************************************************)
(* Machine-checked proofs about the window manager, for every number of    *)
(* slots, windows, modes and colours.                                      *)
(***************************************************************************)
EXTENDS Shells, FiniteSetTheorems, WellFoundedInduction, TLAPS

(* The inductive invariant: the console and mActiveShell are right only    *)
(* because a window is in one slot, so a deleted one is nowhere else.      *)
Inv ==
  TypeOK /\ ActiveIsCurrent /\ OneSlotEach /\ ConsoleFollowsActive /\ CountIsOccupied

-----------------------------------------------------------------------------
(* getIndex *)

\* A non-empty set of numbers has a least element: the first hit of getIndex.
LEMMA LeastElement ==
  ASSUME NEW S \in SUBSET Nat, S # {}
  PROVE  \E x \in S : \A y \in S : x <= y
<1>1. \E x \in S : \A y \in S : ~ (<<y, x>> \in OpToRel(<, Nat))
  BY NatLessThanWellFounded, WFMin
<1>2. ASSUME NEW x \in Nat, NEW y \in Nat, ~ (<<y, x>> \in OpToRel(<, Nat))
      PROVE  x <= y
  <2>1. ~ (y < x)  BY <1>2 DEF OpToRel
  <2>. QED  BY <2>1
<1>. QED  BY <1>1, <1>2

\* Every slot getIndex tries is a slot.
LEMMA ProbeType ==
  ASSUME NEW from \in Slots, NEW forward \in BOOLEAN, NEW first \in 0 .. 1, NEW k \in Slots
  PROVE  Probe(from, forward, first, k) \in Slots
<1>1. NrShells \in Nat /\ NrShells > 0  BY NrShellsAssumption
<1>2. \A x \in Nat : x % NrShells \in Slots  BY <1>1, SMT DEF Slots
<1>3. from + first + k \in Nat /\ (from + NrShells) - (first + k) \in Nat
  BY <1>1, SMT DEF Slots
<1>. QED  BY <1>2, <1>3 DEF Probe

\* getIndex returns a slot, wanted or not.
LEMMA GetIndexType ==
  ASSUME NEW slots, NEW from \in Slots, NEW wanted,
         NEW forward \in BOOLEAN, NEW first \in 0 .. 1
  PROVE  GetIndex(slots, from, wanted, forward, first) \in Slots
<1> DEFINE hits == {k \in Slots : slots[Probe(from, forward, first, k)] \in wanted}
           least == CHOOSE k \in hits : \A j \in hits : k <= j
<1>1. hits \in SUBSET Nat
  <2>1. Slots \subseteq Nat  BY NrShellsAssumption DEF Slots
  <2>. QED  BY <2>1
<1>2. hits # {} => least \in Slots
  <2>1. hits # {} => \E k \in hits : \A j \in hits : k <= j  BY <1>1, LeastElement
  <2>. QED  BY <2>1
<1>3. NrShells - 1 \in Slots  BY NrShellsAssumption DEF Slots
<1>. QED  BY <1>2, <1>3, ProbeType DEF GetIndex

\* Going forwards from the current slot, getIndex finds what some slot holds.
LEMMA GetIndexFinds ==
  ASSUME NEW slots, NEW from \in Slots, NEW wanted,
         NEW i \in Slots, slots[i] \in wanted
  PROVE  slots[GetIndex(slots, from, wanted, TRUE, 0)] \in wanted
<1> DEFINE hits == {k \in Slots : slots[Probe(from, TRUE, 0, k)] \in wanted}
           least == CHOOSE k \in hits : \A j \in hits : k <= j
           d == IF i >= from THEN i - from ELSE (i + NrShells) - from
<1>1. NrShells \in Nat /\ NrShells > 0  BY NrShellsAssumption
<1>2. d \in Slots  BY <1>1, SMT DEF Slots
<1>3. Probe(from, TRUE, 0, d) = i
  <2>1. \A x \in Slots : x % NrShells = x  BY <1>1, SMT DEF Slots
  <2>2. \A x \in Slots : (x + NrShells) % NrShells = x  BY <1>1, SMT DEF Slots
  <2>3. from + 0 + d = i \/ from + 0 + d = i + NrShells  BY <1>1, SMT DEF Slots
  <2>. QED  BY <2>1, <2>2, <2>3 DEF Probe
<1>4. d \in hits  BY <1>2, <1>3
<1>5. hits \in SUBSET Nat
  <2>1. Slots \subseteq Nat  BY <1>1 DEF Slots
  <2>. QED  BY <2>1
<1>6. \E k \in hits : \A j \in hits : k <= j  BY <1>4, <1>5, LeastElement
<1>7. least \in hits  BY <1>6
<1>. QED  BY <1>4, <1>7 DEF GetIndex

\* Counting modulo the number of slots.
LEMMA Wrapped == \A x \in Slots : x % NrShells = x /\ (x + NrShells) % NrShells = x
<1>1. NrShells \in Nat /\ NrShells > 0  BY NrShellsAssumption
<1>. QED  BY <1>1, SMT DEF Slots

\* How far slot j is behind slot i, and the probe that gets there.
Behind(i, j) == ((i + NrShells) - j) % NrShells

\* Another slot is found behind the present one as many probes back.
LEMMA ProbeBack ==
  ASSUME NEW from \in Slots, NEW j \in Slots, j # from
  PROVE  /\ Behind(from, j) \in Nat \ {0} /\ Behind(from, j) - 1 \in Slots
         /\ Probe(from, FALSE, 1, Behind(from, j) - 1) = j
<1>1. NrShells \in Nat /\ NrShells > 0  BY NrShellsAssumption
<1> DEFINE d == IF j < from THEN from - j ELSE (from + NrShells) - j
<1>2. d \in Slots /\ d \in Nat \ {0} /\ d - 1 \in Slots  BY <1>1 DEF Slots
<1>3. (from + NrShells) - j = d \/ (from + NrShells) - j = d + NrShells
  BY <1>1 DEF Slots
<1>4. (from + NrShells) - (1 + (d - 1)) = j \/ (from + NrShells) - (1 + (d - 1)) = j + NrShells
  BY <1>1 DEF Slots
<1> HIDE DEF d
<1>5. Behind(from, j) = d  BY <1>2, <1>3, Wrapped DEF Behind
<1>6. Probe(from, FALSE, 1, d - 1) = j  BY <1>4, Wrapped DEF Probe
<1>. QED  BY <1>2, <1>5, <1>6

\* The slot of the k-th probe back is k + 1 behind.
LEMMA ProbeDistance ==
  ASSUME NEW from \in Slots, NEW k \in Slots, Probe(from, FALSE, 1, k) # from
  PROVE  Behind(from, Probe(from, FALSE, 1, k)) = k + 1
<1>1. NrShells \in Nat /\ NrShells > 0  BY NrShellsAssumption
<1> DEFINE x == IF k < from THEN from - 1 - k ELSE (from + NrShells) - (1 + k)
           y == (from + NrShells) - (1 + k)
<1>2. x \in Slots /\ (y = x \/ y = x + NrShells)  BY <1>1 DEF Slots
<1>3. Probe(from, FALSE, 1, k) = x
  <2>1. Probe(from, FALSE, 1, k) = y % NrShells  BY DEF Probe
  <2> HIDE DEF x, y
  <2>. QED  BY <1>2, <2>1, Wrapped
<1>4. x # from
  <2> HIDE DEF x
  <2>. QED  BY <1>3
<1>5. k + 1 \in Slots  BY <1>1, <1>4 DEF Slots
<1>6. (from + NrShells) - x = k + 1 \/ (from + NrShells) - x = (k + 1) + NrShells
  BY <1>1 DEF Slots
<1> HIDE DEF x
<1>7. Behind(from, x) = k + 1
  <2> DEFINE z == k + 1
  <2>1. z \in Slots /\ ((from + NrShells) - x = z \/ (from + NrShells) - x = z + NrShells)
    BY <1>5, <1>6
  <2> HIDE DEF z
  <2>2. Behind(from, x) = z  BY <2>1, Wrapped DEF Behind
  <2>. QED  BY <2>2 DEF z
<1>. QED  BY <1>3, <1>7

\* Going backwards from a slot that has no window, getIndex finds the nearest
\* slot that has one.
LEMMA PrevNearest ==
  ASSUME NEW slots, NEW from \in Slots, slots[from] \notin Shell,
         NEW j \in Slots, slots[j] \in Shell
  PROVE  /\ slots[PrevIndex(slots, from)] \in Shell
         /\ \A k \in Between(PrevIndex(slots, from), from) : slots[k] \notin Shell
<1> DEFINE hits == {k \in Slots : slots[Probe(from, FALSE, 1, k)] \in Shell}
           least == CHOOSE k \in hits : \A n \in hits : k <= n
           p == PrevIndex(slots, from)
<1>1. hits \in SUBSET Nat
  <2>1. Slots \subseteq Nat  BY NrShellsAssumption DEF Slots
  <2>. QED  BY <2>1
<1>2. Behind(from, j) - 1 \in hits  BY ProbeBack
<1>3. \E k \in hits : \A n \in hits : k <= n  BY <1>1, <1>2, LeastElement
<1>4. least \in hits /\ \A n \in hits : least <= n  BY <1>3
<1>5. p = Probe(from, FALSE, 1, least)  BY <1>2 DEF PrevIndex, GetIndex
<1> HIDE DEF least, p
<1>6. slots[p] \in Shell /\ p # from  BY <1>4, <1>5
<1>7. Behind(from, p) = least + 1  BY <1>4, <1>5, <1>6, ProbeDistance
<1>8. ASSUME NEW k \in Between(p, from), slots[k] \in Shell
      PROVE  FALSE
  <2>1. k \in Slots /\ k # from /\ Behind(from, k) < Behind(from, p)
    BY DEF Between, Behind
  <2>2. Behind(from, k) \in Nat \ {0} /\ Behind(from, k) - 1 \in hits
    BY <1>8, <2>1, ProbeBack
  <2>3. least <= Behind(from, k) - 1 /\ least \in Nat  BY <1>1, <1>4, <2>2
  <2>. QED  BY <1>7, <2>1, <2>2, <2>3
<1>. QED  BY <1>6, <1>8 DEF p

\* The slots nextShell, prevShell and createShell turn to are slots.
LEMMA IndexTypes ==
  ASSUME NEW slots, NEW from \in Slots
  PROVE  /\ NextIndex(slots, from) \in Slots
         /\ PrevIndex(slots, from) \in Slots
         /\ FreeIndex(slots, from) \in Slots
<1>1. TRUE \in BOOLEAN /\ FALSE \in BOOLEAN /\ 0 \in 0 .. 1 /\ 1 \in 0 .. 1  OBVIOUS
<1>. QED  BY <1>1, GetIndexType DEF NextIndex, PrevIndex, FreeIndex

-----------------------------------------------------------------------------
(* What the console operators return *)

\* A new window's state has its type.
LEMMA NewTermType == NewTerm \in TermState
<1>1. DefaultColor \in Color  BY ColorAssumption DEF DefaultColor
<1>. QED  BY <1>1 DEF NewTerm, TermState, ResetModes, DefaultPalette

\* Screen::setPalette changes the palette address and the colours only, and the
\* colours only with the address.
LEMMA SetPaletteType ==
  ASSUME NEW c \in ConsoleState, NEW ref \in Shell \cup {DefaultRef}, NEW t \in TermState
  PROVE  /\ SetPalette(c, ref, t) \in ConsoleState
         /\ SetPalette(c, ref, t).ref = ref
         /\ SetPalette(c, ref, t).keys = c.keys
         /\ SetPalette(c, ref, t).timer = c.timer
         /\ SetPalette(c, ref, t).redirect = c.redirect
         /\ SetPalette(c, ref, t).again = c.again
         /\ SetPalette(c, ref, t).colors =
              IF c.ref = ref THEN c.colors ELSE Colors(ref, t)
<1>1. DefaultPalette \in [ColorIndex -> Color]
  BY NewTermType DEF NewTerm, TermState
<1>2. Colors(ref, t) \in [ColorIndex -> Color]  BY <1>1 DEF Colors, TermState
<1>. QED  BY <1>2 DEF SetPalette, ConsoleState

\* A timer is on or off.
LEMMA BlinksType == \A t : Blinks(t) \in BOOLEAN
  BY DEF Blinks

\* The console differs from window state t in the modes types only.
AgreeElsewhere(c, t, types) ==
  /\ \A m \in KeyModes \ types : c.keys[m] = t.keys[m]
  /\ types \cap {"CursorVisible", "CursorShape"} # {} \/ c.timer = Blinks(t)

\* The console with the modes and the timer of window state t.
Mirror(c, t) == [c EXCEPT !.keys = t.keys, !.timer = Blinks(t)]

\* modeChanged of the active window makes its modes and timer the console's
\* if they differed in the reported modes only.
LEMMA ModeChangedMirrors ==
  ASSUME NEW c \in ConsoleState, NEW s, NEW t \in TermState, NEW types,
         AgreeElsewhere(c, t, types)
  PROVE  ModeChanged(c, s, s, t, types) = Mirror(c, t)
<1>1. [m \in KeyModes |-> IF m \in types THEN t.keys[m] ELSE c.keys[m]] = t.keys
  BY DEF TermState, AgreeElsewhere
<1>2. (IF types \cap {"CursorVisible", "CursorShape"} # {} THEN Blinks(t) ELSE c.timer)
        = Blinks(t)
  BY DEF AgreeElsewhere
<1>. QED  BY <1>1, <1>2, Zenon DEF ModeChanged, Mirror

\* The mirror is a console state, different in the modes and the timer only.
LEMMA MirrorType ==
  ASSUME NEW c \in ConsoleState, NEW t \in TermState
  PROVE  /\ Mirror(c, t) \in ConsoleState
         /\ Mirror(c, t).keys = t.keys /\ Mirror(c, t).timer = Blinks(t)
         /\ Mirror(c, t).redirect = c.redirect /\ Mirror(c, t).ref = c.ref
         /\ Mirror(c, t).colors = c.colors /\ Mirror(c, t).again = c.again
  BY BlinksType DEF Mirror, ConsoleState, TermState

\* modeChanged(AllModes) of the active window programs every mode and the timer.
LEMMA ModeChangedAll ==
  ASSUME NEW c \in ConsoleState, NEW s, NEW t \in TermState
  PROVE  ModeChanged(c, s, s, t, AllModes) = Mirror(c, t)
<1>1. AgreeElsewhere(c, t, AllModes)  BY DEF AllModes, AgreeElsewhere
<1>. QED  BY <1>1, ModeChangedMirrors

\* It changes nothing for a window that is not active.
LEMMA ModeChangedInactive ==
  ASSUME NEW c, NEW act, NEW s, act # s, NEW t, NEW types
  PROVE  ModeChanged(c, act, s, t, types) = c
  BY DEF ModeChanged

\* The default palette, if in force, is in force with its own colours.
DefaultHonest(c) == c.ref = DefaultRef => c.colors = DefaultPalette

\* When nothing is to be shown of one window's palette, its address is not that
\* of another window's, and the default address stands for the default colours.
LEMMA PaletteHonest ==
  ASSUME NEW c \in ConsoleState, NEW a \in Shell, NEW t \in TermState,
         PaletteShown(c, a, t)
  PROVE  DefaultHonest(c) /\ \A s \in Shell \ {a} : c.ref # s
<1>1. \A s \in Shell : s # DefaultRef  BY DefaultRefAssumption
<1>2. \A s \in Shell \ {a} : c.ref # s  BY <1>1 DEF PaletteShown, PaletteRef
<1>3. ASSUME c.ref = DefaultRef PROVE c.colors = DefaultPalette
  <2>1. ~ t.changed  BY <1>1, <1>3 DEF PaletteShown, PaletteRef
  <2>2. \A i \in ColorIndex : c.colors[i] = DefaultPalette[i]
    BY <1>3, <2>1 DEF PaletteShown, Colors
  <2>3. c.colors \in [ColorIndex -> Color]  BY DEF ConsoleState
  <2>4. DefaultPalette \in [ColorIndex -> Color]  BY NewTermType DEF NewTerm, TermState
  <2>. QED  BY <2>2, <2>3, <2>4
<1>. QED  BY <1>2, <1>3 DEF DefaultHonest

\* What is shown of a palette depends on nothing but the palette.
LEMMA PaletteShownSame ==
  ASSUME NEW c, NEW d, NEW s, NEW t, NEW u, PaletteShown(c, s, t),
         d.ref = c.ref, d.colors = c.colors, d.again = c.again,
         u.changed = t.changed, u.palette = t.palette
  PROVE  PaletteShown(d, s, u)
  BY DEF PaletteShown, PaletteRef, Colors

\* The window that leaves with no successor gives the console back as it was.
LEMMA LeaveType ==
  ASSUME NEW c \in ConsoleState, NEW peer \in Shell \cup {None}, DefaultHonest(c)
  PROVE  /\ Leave(c, peer) \in ConsoleState
         /\ peer # None => Leave(c, peer).ref = c.ref /\ Leave(c, peer).colors = c.colors
         /\ peer = None =>
              /\ Leave(c, peer).keys = ResetModes
              /\ Leave(c, peer).timer = FALSE
              /\ Leave(c, peer).redirect = None
              /\ Leave(c, peer).ref = DefaultRef
              /\ Leave(c, peer).again = {}
              /\ Leave(c, peer).colors = DefaultPalette
<1>1. CASE peer # None  BY <1>1 DEF Leave, ConsoleState
<1>2. CASE peer = None
  <2> DEFINE d == [c EXCEPT !.redirect = None, !.keys = ResetModes, !.timer = FALSE,
                            !.again = {}]
  <2>1. /\ d \in ConsoleState
        /\ d.keys = ResetModes /\ d.timer = FALSE /\ d.redirect = None
        /\ d.again = {} /\ d.ref = c.ref /\ d.colors = c.colors
    BY DEF ConsoleState, ResetModes
  <2> HIDE DEF d
  <2>2. Leave(c, peer) = SetPalette(d, DefaultRef, NewTerm)  BY <1>2 DEF Leave, d
  <2>3. Colors(DefaultRef, NewTerm) = DefaultPalette  BY DEF Colors
  <2> DEFINE e == SetPalette(d, DefaultRef, NewTerm)
  <2>4. /\ e \in ConsoleState /\ e.ref = DefaultRef /\ e.keys = d.keys
        /\ e.timer = d.timer /\ e.redirect = d.redirect /\ e.again = d.again
        /\ e.colors = IF d.ref = DefaultRef THEN d.colors ELSE DefaultPalette
    <3>1. /\ d \in ConsoleState /\ NewTerm \in TermState
          /\ DefaultRef \in Shell \cup {DefaultRef}
      BY <2>1, NewTermType
    <3>2. e.colors = IF d.ref = DefaultRef THEN d.colors ELSE Colors(DefaultRef, NewTerm)
      BY <3>1, SetPaletteType
    <3>. QED  BY <2>3, <3>1, <3>2, SetPaletteType
  <2> HIDE DEF e
  <2>5. e.colors = DefaultPalette  BY <2>1, <2>4 DEF DefaultHonest
  <2>. QED  BY <1>2, <2>1, <2>2, <2>4, <2>5 DEF e
<1>. QED  BY <1>1, <1>2

\* The window that enters has the whole console programmed for it: its address
\* is not in force yet, so its colours are set.
LEMMA EnterType ==
  ASSUME NEW c \in ConsoleState, NEW s \in Shell, NEW tt \in [Shell -> TermState],
         DefaultHonest(c), c.ref # s
  PROVE  /\ Enter(c, s, s, tt[s]) \in ConsoleState
         /\ ConsoleFor(Enter(c, s, s, tt[s]), s, tt)
<1> DEFINE d == [c EXCEPT !.redirect = s, !.again = {}]
           e == SetPalette(d, PaletteRef(s, tt[s]), tt[s])
           f == Enter(c, s, s, tt[s])
<1>1. tt[s] \in TermState  OBVIOUS
<1>2. /\ d \in ConsoleState /\ d.redirect = s
      /\ d.again = {} /\ d.ref = c.ref /\ d.colors = c.colors
  BY DEF ConsoleState
<1>3. PaletteRef(s, tt[s]) \in Shell \cup {DefaultRef}  BY DEF PaletteRef
<1>4. e \in ConsoleState /\ e.redirect = s /\ PaletteShown(e, s, tt[s])
  <2> DEFINE ref == PaletteRef(s, tt[s])
             t == tt[s]
  <2>1. ref \in Shell \cup {DefaultRef} /\ t \in TermState  BY <1>1, <1>3
  <2>2. e = SetPalette(d, ref, t)  OBVIOUS
  <2>3. /\ d \in ConsoleState /\ d.redirect = s
        /\ d.again = {} /\ d.ref = c.ref /\ d.colors = c.colors
    BY <1>2
  <2>4. c.ref = ref => c.colors = Colors(ref, t)
    BY DEF PaletteRef, DefaultHonest, Colors
  <2> HIDE DEF d, e, ref, t
  <2>5. /\ e \in ConsoleState /\ e.ref = ref /\ e.redirect = d.redirect
        /\ e.again = d.again
        /\ e.colors = IF d.ref = ref THEN d.colors ELSE Colors(ref, t)
    <3>1. ref \in Shell \cup {DefaultRef} /\ t \in TermState /\ d \in ConsoleState
      BY <2>1, <2>3
    <3>2. e.colors = IF d.ref = ref THEN d.colors ELSE Colors(ref, t)
      BY <2>2, <3>1, SetPaletteType, Zenon
    <3>3. /\ e \in ConsoleState /\ e.ref = ref /\ e.redirect = d.redirect
          /\ e.again = d.again
      <4>1. SetPalette(d, ref, t) \in ConsoleState /\ SetPalette(d, ref, t).ref = ref
        BY <3>1, SetPaletteType, Zenon
      <4>2. /\ SetPalette(d, ref, t).redirect = d.redirect
            /\ SetPalette(d, ref, t).again = d.again
        BY <3>1 DEF SetPalette, ConsoleState
      <4>. QED  BY <2>2, <4>1, <4>2
    <3>. QED  BY <3>2, <3>3
  <2>6. e.redirect = s /\ e.again = {} /\ e.colors = Colors(ref, t)
    BY <2>3, <2>4, <2>5
  <2>. QED  BY <2>5, <2>6 DEF ref, t, PaletteShown
<1>5. f = ModeChanged(e, s, s, tt[s], AllModes)  BY DEF Enter
<1> HIDE DEF e, f
<1>6. f = Mirror(e, tt[s])
  <2>1. e \in ConsoleState  BY <1>4
  <2>2. f = ModeChanged(e, s, s, tt[s], AllModes)  BY <1>5 DEF e
  <2>. QED  BY <1>1, <2>1, <2>2, ModeChangedAll
<1>7. s # None  BY NoneAssumption
<1>8. /\ f \in ConsoleState /\ f.keys = tt[s].keys /\ f.timer = Blinks(tt[s])
      /\ f.redirect = s
      /\ f.ref = e.ref /\ f.colors = e.colors /\ f.again = e.again
  BY <1>1, <1>4, <1>6, MirrorType
<1>9. PaletteShown(f, s, tt[s])  BY <1>4, <1>8, PaletteShownSame
<1>10. ConsoleFor(f, s, tt)  BY <1>7, <1>8, <1>9 DEF ConsoleFor
<1>. QED  BY <1>8, <1>10 DEF f

\* setActive leaves the console programmed for the new active window.
LEMMA ActivateType ==
  ASSUME NEW c \in ConsoleState, NEW s \in Shell \cup {None},
         NEW tt \in [Shell -> TermState],
         active \in Shell \cup {None},
         ConsoleFor(c, active, tt)
  PROVE  /\ Activate(c, s, tt) \in ConsoleState
         /\ ConsoleFor(Activate(c, s, tt), s, tt)
<1> DEFINE left == IF active = None THEN c ELSE Leave(c, s)
<1>0. DefaultHonest(c) /\ (s \in Shell /\ active # s => c.ref # s)
  <2>1. CASE active = None
    <3>1. \A r \in Shell : r # None /\ r # DefaultRef
      BY NoneAssumption, DefaultRefAssumption
    <3>. QED  BY <2>1, <3>1 DEF ConsoleFor, DefaultHonest
  <2>2. CASE active # None
    <3>1. active \in Shell /\ tt[active] \in TermState  BY <2>2
    <3>2. PaletteShown(c, active, tt[active])  BY <2>2 DEF ConsoleFor
    <3>. QED  BY <3>1, <3>2, PaletteHonest
  <2>. QED  BY <2>1, <2>2
<1>1. /\ left \in ConsoleState
      /\ s # None => left.ref = c.ref /\ left.colors = c.colors
  BY <1>0, LeaveType
<1>2. CASE active = s  BY <1>2 DEF Activate
<1>3. CASE active # s /\ s = None
  <2> DEFINE d == Leave(c, s)
  <2>1. Activate(c, s, tt) = d  BY <1>3 DEF Activate
  <2>2. /\ d \in ConsoleState
        /\ d.keys = ResetModes /\ d.timer = FALSE /\ d.redirect = None
        /\ d.ref = DefaultRef /\ d.again = {} /\ d.colors = DefaultPalette
    BY <1>0, <1>3, LeaveType
  <2> HIDE DEF d
  <2>. QED  BY <1>3, <2>1, <2>2 DEF ConsoleFor
<1>4. CASE active # s /\ s # None
  <2>1. Activate(c, s, tt) = Enter(left, s, s, tt[s])  BY <1>4 DEF Activate
  <2>2. s \in Shell  BY <1>4
  <2>3. DefaultHonest(left) /\ left.ref # s
    BY <1>0, <1>1, <1>4, <2>2 DEF DefaultHonest
  <2> HIDE DEF left
  <2>. QED  BY <1>1, <2>1, <2>2, <2>3, EnterType
<1>. QED  BY <1>2, <1>3, <1>4

\* What the console mirrors is the active window's own state and nothing else.
LEMMA ConsoleForSame ==
  ASSUME NEW c, NEW s, NEW tt, NEW uu, s = None \/ tt[s] = uu[s], ConsoleFor(c, s, tt)
  PROVE  ConsoleFor(c, s, uu)
  BY DEF ConsoleFor

\* switchShell: mActiveShell is the window of the slot chosen, if the virtual
\* console is in front, and the console is programmed for it.
LEMMA SelectType ==
  ASSUME NEW i \in Slots, NEW slots \in [Slots -> Shell \cup {None}],
         NEW tt \in [Shell -> TermState], console \in ConsoleState,
         active \in Shell \cup {None}, vcCurrent \in BOOLEAN,
         ConsoleFor(console, active, tt),
         ~ vcCurrent => active = None,
         Select(i, slots, tt)
  PROVE  /\ cur' = i
         /\ active' \in Shell \cup {None}
         /\ active' = IF vcCurrent THEN slots[i] ELSE None
         /\ console' \in ConsoleState
         /\ ConsoleFor(console', active', tt)
<1>1. CASE vcCurrent
  <2>1. slots[i] \in Shell \cup {None}  OBVIOUS
  <2>2. cur' = i /\ active' = slots[i] /\ console' = Activate(console, slots[i], tt)
    BY <1>1 DEF Select, SetActive
  <2>. QED  BY <1>1, <2>1, <2>2, ActivateType
<1>2. CASE ~ vcCurrent
  <2>1. cur' = i /\ active' = active /\ console' = console  BY <1>2 DEF Select
  <2>. QED  BY <1>2, <2>1
<1>. QED  BY <1>1, <1>2

-----------------------------------------------------------------------------
(* The invariant is inductive *)

\* Slots are finitely many, and so are those in use.
LEMMA SlotsFinite ==
  /\ IsFiniteSet(Slots) /\ Cardinality(Slots) = NrShells
  /\ IsFiniteSet(Occupied) /\ Cardinality(Occupied) \in Nat
<1>1. IsFiniteSet(Slots) /\ Cardinality(Slots) = NrShells
  <2>1. 0 \in Int /\ NrShells - 1 \in Int /\ ~ (0 > NrShells - 1)
    BY NrShellsAssumption
  <2>2. (NrShells - 1) - 0 + 1 = NrShells  BY NrShellsAssumption
  <2>. QED  BY <2>1, <2>2, FS_Interval DEF Slots
<1>2. Occupied \in SUBSET Slots  BY DEF Occupied
<1>3. IsFiniteSet(Occupied)  BY <1>1, <1>2, FS_Subset
<1>. QED  BY <1>1, <1>3, FS_CardinalityType

\* The program starts in it.
LEMMA InitInv == Init => Inv
<1> SUFFICES ASSUME Init PROVE Inv  OBVIOUS
<1>1. NrShells \in Nat /\ NrShells > 0  BY NrShellsAssumption
<1>2. 0 \in Slots  BY <1>1 DEF Slots
<1>3. DefaultPalette \in [ColorIndex -> Color]  BY NewTermType DEF NewTerm, TermState
<1>4. InitConsole \in ConsoleState  BY <1>3 DEF InitConsole, ConsoleState, ResetModes
<1>5. TypeOK
  <2>1. term \in [Shell -> TermState]  BY NewTermType DEF Init
  <2>2. console \in ConsoleState  BY <1>4 DEF Init
  <2>3. slot \in [Slots -> Shell \cup {None}]  BY DEF Init
  <2>4. count \in 0 .. NrShells  BY <1>1 DEF Init
  <2>5. cur \in Slots /\ active \in Shell \cup {None}  BY <1>2 DEF Init
  <2>6. vcCurrent \in BOOLEAN /\ running \in BOOLEAN  BY DEF Init
  <2>. QED  BY <2>1, <2>2, <2>3, <2>4, <2>5, <2>6 DEF TypeOK
<1>6. ActiveIsCurrent /\ OneSlotEach  BY DEF Init, ActiveIsCurrent, OneSlotEach, Occupied
<1>7. ConsoleFollowsActive
  BY DEF Init, InitConsole, ConsoleFollowsActive, ConsoleFor
<1>8. CountIsOccupied
  <2>1. Occupied = {}  BY DEF Init, Occupied
  <2>. QED  BY <2>1, FS_EmptySet DEF Init, CountIsOccupied
<1>. QED  BY <1>5, <1>6, <1>7, <1>8 DEF Inv

\* While there are fewer windows than slots, createShell finds a free slot.
LEMMA FreeSlot ==
  ASSUME Inv, count # NrShells
  PROVE  FreeIndex(slot, cur) \in Slots /\ slot[FreeIndex(slot, cur)] = None
<1>1. Occupied # Slots  BY SlotsFinite DEF Inv, CountIsOccupied
<1>2. PICK j \in Slots : slot[j] = None  BY <1>1 DEF Occupied
<1>3. slot[j] \in {None} /\ cur \in Slots  BY <1>2 DEF Inv, TypeOK
<1>4. slot[GetIndex(slot, cur, {None}, TRUE, 0)] \in {None}  BY <1>3, GetIndexFinds
<1>. QED  BY <1>3, <1>4, IndexTypes DEF FreeIndex

\* shellExited finds the slot of the window, and no other holds it.
LEMMA ExitedSlot ==
  ASSUME Inv, NEW s \in Alive
  PROVE  LET i == GetIndex(slot, cur, {s}, TRUE, 0)
         IN  i \in Slots /\ slot[i] = s /\ \A j \in Slots \ {i} : slot[j] # s
<1> USE DEF Inv
<1> DEFINE i == GetIndex(slot, cur, {s}, TRUE, 0)
<1>1. s # None  BY DEF Alive
<1>2. i \in Slots
  <2>1. TRUE \in BOOLEAN /\ 0 \in 0 .. 1  OBVIOUS
  <2>. QED  BY <2>1, GetIndexType DEF TypeOK
<1>3. slot[i] = s
  <2>1. PICK j \in Slots : slot[j] = s  BY DEF Alive
  <2>2. slot[j] \in {s}  BY <2>1
  <2>3. cur \in Slots  BY DEF TypeOK
  <2>4. slot[GetIndex(slot, cur, {s}, TRUE, 0)] \in {s}  BY <2>2, <2>3, GetIndexFinds
  <2>. QED  BY <2>4
<1> HIDE DEF i
<1>4. \A j \in Slots \ {i} : slot[j] # s  BY <1>1, <1>2, <1>3 DEF OneSlotEach, Occupied
<1>. QED  BY <1>2, <1>3, <1>4 DEF i

\* createShell puts the new window in a free slot and shows it.
LEMMA CreateShellInv == Inv /\ CreateShell => Inv'
<1> SUFFICES ASSUME Inv, CreateShell PROVE Inv'  OBVIOUS
<1> USE DEF Inv
<1>1. PICK s \in Shell \ Alive :
        LET i == FreeIndex(slot, cur) IN
          /\ slot' = [slot EXCEPT ![i] = s]
          /\ term' = [term EXCEPT ![s] = NewTerm]
          /\ Select(i, slot', term')
  BY DEF CreateShell
<1> DEFINE i == FreeIndex(slot, cur)
<1>2. i \in Slots  BY IndexTypes DEF TypeOK
<1>3. slot' \in [Slots -> Shell \cup {None}] /\ slot'[i] = s  BY <1>1, <1>2 DEF TypeOK
<1>4. term' \in [Shell -> TermState]  BY <1>1, NewTermType DEF TypeOK
<1>5. active # s
  BY NoneAssumption DEF TypeOK, ActiveIsCurrent, Alive
<1>6. active = None \/ term[active] = term'[active]
  BY <1>1, <1>5 DEF TypeOK
<1>7. ConsoleFor(console, active, term')
  BY <1>6, ConsoleForSame DEF ConsoleFollowsActive
<1>8. ~ vcCurrent => active = None  BY DEF ActiveIsCurrent
<1> HIDE DEF i
<1>9. /\ cur' = i
      /\ active' \in Shell \cup {None}
      /\ active' = IF vcCurrent THEN slot'[i] ELSE None
      /\ console' \in ConsoleState
      /\ ConsoleFor(console', active', term')
  BY <1>1, <1>2, <1>3, <1>4, <1>7, <1>8, SelectType DEF TypeOK, i
<1>10. count' \in 0 .. NrShells
  BY NrShellsAssumption DEF CreateShell, TypeOK
<1>11. UNCHANGED <<vcCurrent, running>>  BY DEF CreateShell
<1>12. TypeOK'  BY <1>2, <1>3, <1>4, <1>9, <1>10, <1>11 DEF TypeOK
<1>13. ActiveIsCurrent'  BY <1>9, <1>11 DEF ActiveIsCurrent
<1>14. OneSlotEach'  BY <1>1, <1>2 DEF OneSlotEach, Occupied, Alive, TypeOK, i
<1>15. ConsoleFollowsActive'  BY <1>9 DEF ConsoleFollowsActive
<1>16. slot[i] = None  BY FreeSlot DEF i, CreateShell
<1>17. CountIsOccupied'
  <2>1. s # None  BY <1>1, NoneAssumption
  <2>2. \A j \in Slots : slot'[j] = IF j = i THEN s ELSE slot[j]
    BY <1>1, <1>2 DEF TypeOK, i
  <2>3. Occupied' = Occupied \cup {i}  BY <1>2, <2>1, <2>2 DEF Occupied, Slots
  <2>4. i \notin Occupied  BY <1>16 DEF Occupied
  <2>5. Cardinality(Occupied \cup {i}) = Cardinality(Occupied) + 1
    BY <2>4, SlotsFinite, FS_AddElement
  <2>. QED  BY <2>3, <2>5 DEF CountIsOccupied, CreateShell
<1>. QED  BY <1>12, <1>13, <1>14, <1>15, <1>17

\* shellExited clears the slot of the window, which no other slot holds.
LEMMA ShellExitedInv ==
  ASSUME Inv, NEW s \in Alive, ShellExited(s)
  PROVE  Inv'
<1> USE DEF Inv
<1> DEFINE i == GetIndex(slot, cur, {s}, TRUE, 0)
           freed == [slot EXCEPT ![i] = None]
           next == PrevIndex(freed, cur)
<1>1. s \in Shell /\ s # None  BY DEF Alive, TypeOK
<1>2. i \in Slots  BY ExitedSlot
<1>3. slot[i] = s  BY ExitedSlot
<1>4. next \in Slots  BY IndexTypes DEF TypeOK
<1>5. /\ slot' = freed
      /\ term' = [term EXCEPT ![s] = NewTerm]
      /\ IF i = cur THEN Select(next, freed, term)
                    ELSE UNCHANGED <<cur, active, console>>
      /\ vcCurrent' = vcCurrent
      /\ running' = (running /\ count' # 0)
      /\ count' = count - 1
  BY Zenon DEF ShellExited
<1> HIDE DEF i, next
<1>6. freed \in [Slots -> Shell \cup {None}]  BY <1>2 DEF TypeOK
<1>7. freed[i] = None /\ \A j \in Slots \ {i} : freed[j] = slot[j] /\ freed[j] # s
  <2>1. freed[i] = None  BY <1>2 DEF TypeOK
  <2>2. ASSUME NEW j \in Slots \ {i} PROVE freed[j] = slot[j] /\ freed[j] # s
    <3>1. freed[j] = slot[j]  BY <1>2 DEF TypeOK
    <3>2. slot[j] # s  BY <1>1, <1>2, <1>3 DEF OneSlotEach, Occupied
    <3>. QED  BY <3>1, <3>2
  <2>. QED  BY <2>1, <2>2
<1>8. term' \in [Shell -> TermState]  BY <1>5, NewTermType DEF TypeOK
<1> HIDE DEF freed
<1>9. /\ cur' \in Slots
      /\ active' \in Shell \cup {None} /\ active' # s
      /\ active' = IF vcCurrent THEN freed[cur'] ELSE None
      /\ console' \in ConsoleState
      /\ ConsoleFor(console', active', term)
  <2>1. CASE i = cur
    <3>1. Select(next, freed, term)  BY <1>5, <2>1
    <3>2. freed[next] # s  BY <1>1, <1>4, <1>7
    <3>3. ConsoleFor(console, active, term)
      BY DEF ConsoleFollowsActive
    <3>4. ~ vcCurrent => active = None  BY DEF ActiveIsCurrent
    <3>5. /\ cur' = next
          /\ active' \in Shell \cup {None}
          /\ active' = IF vcCurrent THEN freed[next] ELSE None
          /\ console' \in ConsoleState
          /\ ConsoleFor(console', active', term)
      BY <1>4, <1>6, <3>1, <3>3, <3>4, SelectType DEF TypeOK
    <3>. QED  BY <1>1, <1>4, <3>2, <3>5
  <2>2. CASE i # cur
    <3>1. cur' = cur /\ active' = active /\ console' = console  BY <1>5, <2>2
    <3>2. freed[cur] = slot[cur] /\ freed[cur] # s  BY <1>7, <2>2 DEF TypeOK
    <3>. QED  BY <1>1, <3>1, <3>2 DEF TypeOK, ActiveIsCurrent, ConsoleFollowsActive
  <2>. QED  BY <2>1, <2>2
<1>15. i \in Occupied  BY <1>1, <1>2, <1>3 DEF Occupied
<1>16. CountIsOccupied'
  <2>1. Occupied' = Occupied \ {i}
    BY <1>2, <1>5, <1>7 DEF Occupied, Slots
  <2>2. Cardinality(Occupied \ {i}) = Cardinality(Occupied) - 1
    BY <1>15, SlotsFinite, FS_RemoveElement
  <2>. QED  BY <1>5, <2>1, <2>2 DEF CountIsOccupied
<1>17. count # 0  BY <1>15, SlotsFinite, FS_EmptySet DEF CountIsOccupied
<1>10. count' \in 0 .. NrShells /\ running' \in BOOLEAN
  <2>1. count' \in 0 .. NrShells  BY <1>5, <1>17, NrShellsAssumption DEF TypeOK
  <2>2. running' \in BOOLEAN  BY <1>5, Zenon
  <2>. QED  BY <2>1, <2>2
<1>11. TypeOK'
  BY <1>5, <1>6, <1>8, <1>9, <1>10 DEF TypeOK
<1>12. ActiveIsCurrent'  BY <1>5, <1>9 DEF ActiveIsCurrent
<1>13. OneSlotEach'  BY <1>2, <1>5, <1>7 DEF OneSlotEach, Occupied
<1>14. ConsoleFollowsActive'
  <2>1. active' = None \/ term[active'] = term'[active']  BY <1>5, <1>9 DEF TypeOK
  <2>2. ConsoleFor(console', active', term')  BY <1>9, <2>1, ConsoleForSame
  <2>. QED  BY <2>2 DEF ConsoleFollowsActive
<1>. QED  BY <1>11, <1>12, <1>13, <1>14, <1>16

\* CTRL_ALT_n, SHIFT_LEFT and SHIFT_RIGHT show the window of a slot.
LEMMA SwitchShellInv == ASSUME Inv, NEW i \in Slots, SwitchShell(i) PROVE Inv'
<1> USE DEF Inv
<1>1. Select(i, slot, term) /\ UNCHANGED <<slot, count, vcCurrent, running, term>>
  BY DEF SwitchShell
<1>2. ConsoleFor(console, active, term)
  BY DEF ConsoleFollowsActive
<1>3. ~ vcCurrent => active = None  BY DEF ActiveIsCurrent
<1>4. /\ cur' = i
      /\ active' \in Shell \cup {None}
      /\ active' = IF vcCurrent THEN slot[i] ELSE None
      /\ console' \in ConsoleState
      /\ ConsoleFor(console', active', term)
  BY <1>1, <1>2, <1>3, SelectType DEF TypeOK
<1>5. TypeOK'  BY <1>1, <1>4 DEF TypeOK
<1>6. OneSlotEach' /\ CountIsOccupied'
  BY <1>1 DEF OneSlotEach, CountIsOccupied, Occupied
<1>7. ActiveIsCurrent' /\ ConsoleFollowsActive'
  BY <1>1, <1>4 DEF ActiveIsCurrent, ConsoleFollowsActive
<1>. QED  BY <1>5, <1>6, <1>7

\* Leaving the virtual console deactivates the current window, entering it
\* activates it.
LEMMA SwitchVcInv == ASSUME Inv, NEW enter \in BOOLEAN, SwitchVc(enter) PROVE Inv'
<1> USE DEF Inv
<1> DEFINE s == IF enter THEN slot[cur] ELSE None
<1>1. /\ vcCurrent' = enter /\ active' = s /\ console' = Activate(console, s, term)
      /\ UNCHANGED <<slot, cur, count, running, term>>
  BY DEF SwitchVc, SetActive
<1>2. s \in Shell \cup {None}  BY DEF TypeOK
<1> HIDE DEF s
<1>3. console' \in ConsoleState /\ ConsoleFor(console', s, term)
  BY <1>1, <1>2, ActivateType DEF TypeOK, ConsoleFollowsActive
<1>4. TypeOK'  BY <1>1, <1>2, <1>3 DEF TypeOK
<1>5. OneSlotEach' /\ CountIsOccupied'
  BY <1>1 DEF OneSlotEach, CountIsOccupied, Occupied
<1>6. ActiveIsCurrent' /\ ConsoleFollowsActive'
  BY <1>1, <1>3 DEF ActiveIsCurrent, ConsoleFollowsActive, s
<1>. QED  BY <1>4, <1>5, <1>6

\* A step that changes one window's own state keeps the invariant if the
\* console still mirrors the active window.
LEMMA WindowStep ==
  ASSUME Inv, NEW s \in Shell, NEW t \in TermState,
         UNCHANGED <<slot, cur, active, count, vcCurrent, running>>,
         term' = [term EXCEPT ![s] = t],
         console' \in ConsoleState,
         active # s => console' = console,
         active = s =>
           /\ console'.keys = t.keys /\ console'.timer = Blinks(t)
           /\ console'.redirect = s /\ PaletteShown(console', s, t)
  PROVE  Inv'
<1> USE DEF Inv
<1>1. term' \in [Shell -> TermState]  BY DEF TypeOK
<1>2. TypeOK'  BY <1>1 DEF TypeOK
<1>3. OneSlotEach' /\ CountIsOccupied' /\ ActiveIsCurrent'
  BY DEF OneSlotEach, CountIsOccupied, Occupied, ActiveIsCurrent
<1>4. ConsoleFor(console', active, term')
  <2>1. CASE active = s
    <3>1. term'[s] = t /\ s # None  BY NoneAssumption DEF TypeOK
    <3>. QED  BY <2>1, <3>1 DEF ConsoleFor
  <2>2. CASE active # s
    <3>1. active = None \/ term[active] = term'[active]  BY <2>2 DEF TypeOK
    <3>. QED  BY <2>2, <3>1, ConsoleForSame DEF ConsoleFollowsActive
  <2>. QED  BY <2>1, <2>2
<1>5. ConsoleFollowsActive'  BY <1>4 DEF ConsoleFollowsActive
<1>. QED  BY <1>2, <1>3, <1>5

\* Output first ends a look at the history, and the timer runs again.
LEMMA SnapType ==
  ASSUME Inv, NEW s \in Shell
  PROVE  /\ Snapped(term[s]) = [term[s] EXCEPT !.hidden = term[s].hidden \ {"history"}]
         /\ Snapped(term[s]) \in TermState
         /\ SnapConsole(s) \in ConsoleState
         /\ active # s => SnapConsole(s) = console
         /\ active = s => SnapConsole(s) = Mirror(console, Snapped(term[s]))
<1> USE DEF Inv
<1> DEFINE t == Snapped(term[s])
<1>1. term[s] \in TermState /\ console \in ConsoleState  BY DEF TypeOK
<1>2. t = [term[s] EXCEPT !.hidden = term[s].hidden \ {"history"}]  BY Zenon DEF Snapped
<1>3. t \in TermState /\ t.keys = term[s].keys  BY <1>1, <1>2 DEF TermState
<1> HIDE DEF t
<1>4. CASE active # s  BY <1>1, <1>2, <1>3, <1>4, ModeChangedInactive DEF SnapConsole, t
<1>5. CASE active = s
  <2>1. console.keys = term[s].keys /\ console.timer = Blinks(term[s])
    BY <1>5, NoneAssumption DEF ConsoleFollowsActive, ConsoleFor
  <2>2. CASE "history" \in term[s].hidden
    <3>1. SnapConsole(s) = ModeChanged(console, s, s, t, {"CursorVisible"})
      BY <1>5, <2>2 DEF SnapConsole, t
    <3>2. AgreeElsewhere(console, t, {"CursorVisible"})
      BY <1>3, <2>1 DEF AgreeElsewhere
    <3>3. SnapConsole(s) = Mirror(console, t)
      BY <1>1, <1>3, <3>1, <3>2, ModeChangedMirrors
    <3>. QED  BY <1>1, <1>2, <1>3, <1>5, <3>3, MirrorType DEF t
  <2>3. CASE "history" \notin term[s].hidden
    <3>1. SnapConsole(s) = console  BY <2>3 DEF SnapConsole
    <3>2. term[s].hidden \ {"history"} = term[s].hidden  BY <2>3
    <3>3. t = term[s]  BY <1>1, <1>2, <3>2 DEF TermState
    <3>4. Mirror(console, t) = console
      BY <1>1, <2>1, <3>3 DEF ConsoleState, Mirror
    <3>. QED  BY <1>1, <1>2, <1>3, <1>5, <3>1, <3>4 DEF t
  <2>. QED  BY <2>2, <2>3
<1>. QED  BY <1>4, <1>5

\* An escape sequence that changes the modes it reports and no other.
LEMMA OutputInv ==
  ASSUME Inv, NEW s \in Alive, NEW t \in TermState, NEW types,
         Output(s, t, types),
         t.changed = term[s].changed, t.palette = term[s].palette,
         \A m \in KeyModes \ types : t.keys[m] = term[s].keys[m],
         types \cap {"CursorVisible", "CursorShape"} # {}
           \/ t.hidden = Snapped(term[s]).hidden
  PROVE  Inv'
<1> USE DEF Inv
<1> DEFINE c == SnapConsole(s)
           u == Snapped(term[s])
<1>1. s \in Shell  BY DEF Alive, TypeOK
<1>2. c \in ConsoleState /\ u \in TermState /\ u.keys = term[s].keys
  <2>1. term[s] \in TermState  BY <1>1 DEF TypeOK
  <2>. QED  BY <1>1, <2>1, SnapType DEF TermState
<1>3. /\ UNCHANGED <<slot, cur, active, count, vcCurrent, running>>
      /\ term' = [term EXCEPT ![s] = t]
      /\ console' = ModeChanged(c, active, s, t, types)
  BY DEF Output
<1>4. active # s => console' = console
  <2>1. active # s => c = console  BY <1>1, SnapType
  <2> HIDE DEF c
  <2>. QED  BY <1>3, <2>1, Zenon DEF ModeChanged
<1>5. CASE active = s
  <2>1. c = Mirror(console, u)  BY <1>1, <1>5, SnapType
  <2> HIDE DEF c, u
  <2>2. /\ c.keys = u.keys /\ c.timer = Blinks(u)
        /\ c.redirect = console.redirect /\ c.ref = console.ref
        /\ c.colors = console.colors /\ c.again = console.again
    BY <1>2, <2>1, MirrorType DEF TypeOK
  <2>3. types \cap {"CursorVisible", "CursorShape"} # {} \/ Blinks(u) = Blinks(t)
    BY DEF Blinks, u
  <2>4. AgreeElsewhere(c, t, types)  BY <1>2, <2>2, <2>3 DEF AgreeElsewhere
  <2>5. console' = Mirror(c, t)  BY <1>2, <1>3, <1>5, <2>4, ModeChangedMirrors
  <2>6. console.redirect = s /\ PaletteShown(console, s, term[s])
    BY <1>1, <1>5, NoneAssumption DEF ConsoleFollowsActive, ConsoleFor
  <2>7. /\ console' \in ConsoleState /\ console'.keys = t.keys /\ console'.timer = Blinks(t)
        /\ console'.redirect = s /\ console'.ref = console.ref
        /\ console'.colors = console.colors /\ console'.again = console.again
    BY <1>2, <2>2, <2>5, <2>6, MirrorType
  <2>8. PaletteShown(console', s, t)  BY <2>6, <2>7, PaletteShownSame
  <2>. QED  BY <1>1, <1>3, <1>5, <2>7, <2>8, WindowStep
<1>6. CASE active # s
  BY <1>1, <1>3, <1>4, <1>6, WindowStep DEF TypeOK
<1>. QED  BY <1>5, <1>6

\* A console key mode is set or cleared.
LEMMA SetKeyModeInv ==
  ASSUME Inv, NEW s \in Shell, NEW m \in KeyModes, NEW v \in BOOLEAN, SetKeyMode(s, m, v)
  PROVE  Inv'
<1> DEFINE u == Snapped(term[s])
           t == [u EXCEPT !.keys[m] = v]
<1>1. s \in Alive /\ Output(s, t, {m})  BY DEF SetKeyMode
<1>2. /\ u \in TermState
      /\ u.keys = term[s].keys /\ u.changed = term[s].changed
      /\ u.palette = term[s].palette
  <2>1. term[s] \in TermState  BY DEF Inv, TypeOK
  <2>. QED  BY <2>1, SnapType DEF TermState
<1> HIDE DEF u
<1>3. /\ t \in TermState /\ t.changed = u.changed /\ t.hidden = u.hidden
      /\ t.palette = u.palette
      /\ \A n \in KeyModes \ {m} : t.keys[n] = u.keys[n]
  BY <1>2 DEF TermState
<1>4. \A n \in KeyModes \ {m} : t.keys[n] = term[s].keys[n]  BY <1>2, <1>3
<1>5. t.changed = term[s].changed /\ t.palette = term[s].palette  BY <1>2, <1>3
<1>6. t.hidden = Snapped(term[s]).hidden  BY <1>3 DEF u
<1> HIDE DEF t
<1>. QED  BY <1>1, <1>3, <1>4, <1>5, <1>6, OutputInv

\* The cursor is hidden or shown.
LEMMA SetCursorInv ==
  ASSUME Inv, NEW s \in Shell, NEW r \in HiddenBy, NEW hide \in BOOLEAN, SetCursor(s, r, hide)
  PROVE  Inv'
<1> DEFINE u == Snapped(term[s])
           h == IF hide THEN u.hidden \cup {r} ELSE u.hidden \ {r}
           t == [u EXCEPT !.hidden = h]
<1>1. s \in Alive /\ r # "history" /\ Output(s, t, {r})  BY DEF SetCursor
<1>2. /\ u \in TermState
      /\ u.keys = term[s].keys /\ u.changed = term[s].changed
      /\ u.palette = term[s].palette
  <2>1. term[s] \in TermState  BY DEF Inv, TypeOK
  <2>. QED  BY <2>1, SnapType DEF TermState
<1> HIDE DEF u
<1>3. h \in SUBSET HiddenBy  BY <1>2 DEF TermState
<1> HIDE DEF h
<1>4. /\ t \in TermState /\ t.changed = u.changed /\ t.keys = u.keys
      /\ t.palette = u.palette
  BY <1>2, <1>3 DEF TermState
<1> HIDE DEF t
<1>5. {r} \cap {"CursorVisible", "CursorShape"} # {}  BY <1>1, HiddenByAssumption
<1>6. \A n \in KeyModes \ {r} : t.keys[n] = term[s].keys[n]  BY <1>2, <1>4
<1>7. t.changed = term[s].changed /\ t.palette = term[s].palette  BY <1>2, <1>4
<1>. QED  BY <1>1, <1>4, <1>5, <1>6, <1>7, OutputInv

\* Every mode of a window is reset.
LEMMA ResetTermInv == ASSUME Inv, NEW s \in Shell, ResetTerm(s) PROVE Inv'
<1> DEFINE u == Snapped(term[s])
           t == [u EXCEPT !.keys = ResetModes, !.hidden = {}]
<1>1. s \in Alive /\ Output(s, t, AllModes)  BY DEF ResetTerm
<1>2. /\ u \in TermState /\ u.changed = term[s].changed
      /\ u.palette = term[s].palette
  <2>1. term[s] \in TermState  BY DEF Inv, TypeOK
  <2>. QED  BY <2>1, SnapType DEF TermState
<1> HIDE DEF u
<1>3. /\ t \in TermState /\ t.changed = term[s].changed
      /\ t.palette = term[s].palette
  BY <1>2 DEF TermState, ResetModes
<1> HIDE DEF t
<1>4. AllModes \cap {"CursorVisible", "CursorShape"} # {}  BY DEF AllModes
<1>5. \A n \in KeyModes \ AllModes : t.keys[n] = term[s].keys[n]  BY DEF AllModes
<1>. QED  BY <1>1, <1>3, <1>4, <1>5, OutputInv

\* ESC [ 3 ; n ; r ; g ; b }: the active window's palette becomes the screen's.
LEMMA PaletteSetInv ==
  ASSUME Inv, NEW s \in Shell, NEW i \in ColorIndex, NEW col \in Color, PaletteSet(s, i, col)
  PROVE  Inv'
<1> USE DEF Inv
<1> DEFINE u == Snapped(term[s])
           base == IF u.changed THEN u.palette ELSE DefaultPalette
           t == [u EXCEPT !.changed = TRUE, !.palette = [base EXCEPT ![i] = col]]
           c == SnapConsole(s)
<1>1. /\ term' = [term EXCEPT ![s] = t]
      /\ console' = IF active = s
                    THEN [SetPalette(c, s, t) EXCEPT
                            !.again = IF u.changed THEN @ \cup {i} ELSE {}]
                    ELSE c
      /\ UNCHANGED <<slot, cur, active, count, vcCurrent, running>>
  BY Zenon DEF PaletteSet
<1>2. /\ u \in TermState /\ u.keys = term[s].keys
      /\ u.changed = term[s].changed /\ u.palette = term[s].palette
  <2>1. term[s] \in TermState  BY DEF TypeOK
  <2>. QED  BY <2>1, SnapType DEF TermState
<1>3. c \in ConsoleState /\ (active # s => c = console)
        /\ (active = s => c = Mirror(console, u))
  BY SnapType
<1> HIDE DEF u, c
<1>4. /\ t \in TermState /\ t.keys = u.keys /\ t.hidden = u.hidden /\ t.changed = TRUE
      /\ u.changed => \A j \in ColorIndex \ {i} : t.palette[j] = u.palette[j]
  <2>1. base \in [ColorIndex -> Color] /\ (u.changed => base = u.palette)
    BY <1>2, NewTermType DEF TermState, NewTerm
  <2> HIDE DEF base
  <2>. QED  BY <1>2, <2>1 DEF TermState
<1> HIDE DEF t
<1>5. Blinks(t) = Blinks(u)  BY <1>4 DEF Blinks
<1>6. CASE active = s
  <2>1. c.keys = u.keys /\ c.timer = Blinks(u) /\ c.redirect = console.redirect
    BY <1>2, <1>3, <1>6, MirrorType DEF TypeOK
  <2>2. console.redirect = s /\ PaletteShown(console, s, term[s])
    BY <1>6, NoneAssumption DEF ConsoleFollowsActive, ConsoleFor
  <2>3. PaletteShown(c, s, u)
    <3>1. /\ u.changed = term[s].changed /\ u.palette = term[s].palette
          /\ c.ref = console.ref /\ c.colors = console.colors /\ c.again = console.again
      BY <1>2, <1>3, <1>6, MirrorType DEF TypeOK
    <3>. QED  BY <2>2, <3>1, PaletteShownSame
  <2> DEFINE d == SetPalette(c, s, t)
             again == IF u.changed THEN d.again \cup {i} ELSE {}
  <2>4. /\ d \in ConsoleState /\ d.ref = s
        /\ d.keys = c.keys /\ d.timer = c.timer /\ d.redirect = c.redirect
        /\ d.again = c.again
        /\ d.colors = IF c.ref = s THEN c.colors ELSE Colors(s, t)
    BY <1>3, <1>4, SetPaletteType
  <2>5. console' = [d EXCEPT !.again = again]  BY <1>1, <1>6, Zenon
  <2> HIDE DEF d
  <2>6. again \in SUBSET ColorIndex  BY <2>4 DEF ConsoleState
  <2>7. again = IF u.changed THEN c.again \cup {i} ELSE {}  BY <2>4
  <2> HIDE DEF again
  <2>8. /\ console' \in ConsoleState /\ console'.ref = s
        /\ console'.keys = c.keys /\ console'.timer = c.timer
        /\ console'.redirect = c.redirect
        /\ console'.again = again /\ console'.colors = d.colors
    BY <2>4, <2>5, <2>6 DEF ConsoleState
  <2>9. s # DefaultRef  BY DefaultRefAssumption
  <2>10. PaletteShown(console', s, t)
    <3>1. CASE u.changed
      <4>1. c.ref = s /\ \A j \in ColorIndex \ c.again : c.colors[j] = u.palette[j]
        BY <2>3, <2>9, <3>1 DEF PaletteShown, PaletteRef, Colors
      <4>2. console'.colors = c.colors /\ console'.again = c.again \cup {i}
        BY <2>4, <2>7, <2>8, <3>1, <4>1
      <4>3. \A j \in ColorIndex \ console'.again : console'.colors[j] = t.palette[j]
        BY <1>4, <3>1, <4>1, <4>2
      <4>. QED  BY <1>4, <2>8, <2>9, <4>3 DEF PaletteShown, PaletteRef, Colors
    <3>2. CASE ~ u.changed
      <4>1. c.ref # s  BY <2>3, <2>9, <3>2 DEF PaletteShown, PaletteRef
      <4>2. console'.colors = t.palette /\ console'.again = {}
        BY <2>4, <2>7, <2>8, <2>9, <3>2, <4>1 DEF Colors
      <4>. QED  BY <1>4, <2>8, <2>9, <4>2 DEF PaletteShown, PaletteRef, Colors
    <3>. QED  BY <3>1, <3>2
  <2>. QED  BY <1>1, <1>4, <1>5, <1>6, <2>1, <2>2, <2>8, <2>10, WindowStep
<1>7. CASE active # s
  BY <1>1, <1>3, <1>4, <1>7, WindowStep
<1>. QED  BY <1>6, <1>7

\* ESC ] R: the active window's palette is the default one again.
LEMMA PaletteClearInv ==
  ASSUME Inv, NEW s \in Shell, PaletteClear(s)
  PROVE  Inv'
<1> USE DEF Inv
<1> DEFINE u == Snapped(term[s])
           t == [u EXCEPT !.changed = FALSE, !.palette = DefaultPalette]
           c == SnapConsole(s)
<1>1. /\ term' = [term EXCEPT ![s] = t]
      /\ console' = IF active = s /\ u.changed
                    THEN [SetPalette(c, DefaultRef, u) EXCEPT !.again = {}]
                    ELSE c
      /\ UNCHANGED <<slot, cur, active, count, vcCurrent, running>>
  BY Zenon DEF PaletteClear
<1>2. /\ u \in TermState /\ u.keys = term[s].keys
      /\ u.changed = term[s].changed /\ u.palette = term[s].palette
  <2>1. term[s] \in TermState  BY DEF TypeOK
  <2>. QED  BY <2>1, SnapType DEF TermState
<1>3. c \in ConsoleState /\ (active # s => c = console)
        /\ (active = s => c = Mirror(console, u))
  BY SnapType
<1> HIDE DEF u, c
<1>4. t \in TermState /\ t.keys = u.keys /\ t.hidden = u.hidden /\ t.changed = FALSE
  BY <1>2, NewTermType DEF TermState, NewTerm
<1> HIDE DEF t
<1>5. Blinks(t) = Blinks(u)  BY <1>4 DEF Blinks
<1>6. CASE active = s
  <2>1. /\ c.keys = u.keys /\ c.timer = Blinks(u)
        /\ c.redirect = console.redirect /\ c.ref = console.ref
    BY <1>2, <1>3, <1>6, MirrorType DEF TypeOK
  <2>2. console.redirect = s /\ PaletteShown(console, s, term[s])
    BY <1>6, NoneAssumption DEF ConsoleFollowsActive, ConsoleFor
  <2>3. PaletteShown(c, s, u)
    <3>1. c.colors = console.colors /\ c.again = console.again
      BY <1>2, <1>3, <1>6, MirrorType DEF TypeOK
    <3>. QED  BY <1>2, <2>1, <2>2, <3>1, PaletteShownSame
  <2>4. s # DefaultRef  BY DefaultRefAssumption
  <2>5. /\ console' \in ConsoleState
        /\ console'.keys = c.keys /\ console'.timer = c.timer
        /\ console'.redirect = c.redirect
        /\ PaletteShown(console', s, t)
    <3>1. CASE u.changed
      <4> DEFINE d == SetPalette(c, DefaultRef, u)
      <4>1. /\ d \in ConsoleState /\ d.ref = DefaultRef
            /\ d.keys = c.keys /\ d.timer = c.timer /\ d.redirect = c.redirect
            /\ d.colors = IF c.ref = DefaultRef THEN c.colors ELSE Colors(DefaultRef, u)
        BY <1>2, <1>3, SetPaletteType
      <4>2. console' = [d EXCEPT !.again = {}]  BY <1>1, <1>6, <3>1, Zenon
      <4> HIDE DEF d
      <4>3. c.ref # DefaultRef  BY <2>3, <2>4, <3>1 DEF PaletteShown, PaletteRef
      <4>4. d.colors = DefaultPalette  BY <4>1, <4>3 DEF Colors
      <4>5. /\ console' \in ConsoleState /\ console'.ref = DefaultRef
            /\ console'.keys = c.keys /\ console'.timer = c.timer
            /\ console'.redirect = c.redirect
            /\ console'.again = {} /\ console'.colors = DefaultPalette
        BY <4>1, <4>2, <4>4 DEF ConsoleState
      <4>. QED  BY <1>4, <4>5 DEF PaletteShown, PaletteRef, Colors
    <3>2. CASE ~ u.changed
      <4>1. console' = c  BY <1>1, <3>2
      <4>2. c.ref = DefaultRef /\ c.again = {}
        BY <2>3, <3>2 DEF PaletteShown, PaletteRef
      <4>3. PaletteShown(c, s, t)
        BY <1>4, <2>3, <3>2, <4>2 DEF PaletteShown, PaletteRef, Colors
      <4>. QED  BY <1>3, <4>1, <4>3
    <3>. QED  BY <3>1, <3>2
  <2>. QED  BY <1>1, <1>4, <1>5, <1>6, <2>1, <2>2, <2>5, WindowStep
<1>7. CASE active # s
  BY <1>1, <1>3, <1>4, <1>7, WindowStep
<1>. QED  BY <1>6, <1>7

\* Looking at the history hides the cursor, coming back shows it.
LEMMA HistoryScrollInv ==
  ASSUME Inv, NEW away \in BOOLEAN, HistoryScroll(away)
  PROVE  Inv'
<1> USE DEF Inv
<1> DEFINE h == IF away THEN term[active].hidden \cup {"history"}
                        ELSE term[active].hidden \ {"history"}
           t == [term[active] EXCEPT !.hidden = h]
<1>1. /\ active # None /\ "history" \in HiddenBy
      /\ term' = [term EXCEPT ![active] = t]
      /\ console' = ModeChanged(console, active, active, t, {"CursorVisible"})
      /\ UNCHANGED <<slot, cur, active, count, vcCurrent, running>>
  BY Zenon DEF HistoryScroll
<1>2. active \in Shell /\ term[active] \in TermState /\ console \in ConsoleState
  BY <1>1 DEF TypeOK
<1>3. h \in SUBSET HiddenBy  BY <1>1, <1>2 DEF TermState
<1> HIDE DEF h
<1>4. /\ t \in TermState /\ t.keys = term[active].keys
      /\ t.changed = term[active].changed /\ t.palette = term[active].palette
  BY <1>2, <1>3 DEF TermState
<1> HIDE DEF t
<1>5. /\ console.keys = t.keys
      /\ console.redirect = active /\ PaletteShown(console, active, term[active])
  BY <1>1, <1>4 DEF ConsoleFollowsActive, ConsoleFor
<1>6. AgreeElsewhere(console, t, {"CursorVisible"})  BY <1>5 DEF AgreeElsewhere
<1>7. console' = Mirror(console, t)  BY <1>1, <1>2, <1>4, <1>6, ModeChangedMirrors
<1>8. PICK s \in Shell : s = active  BY <1>2
<1>9. /\ term' = [term EXCEPT ![s] = t]
      /\ console' \in ConsoleState /\ console'.keys = t.keys
      /\ console'.timer = Blinks(t) /\ console'.redirect = s
      /\ console'.ref = console.ref
      /\ console'.colors = console.colors /\ console'.again = console.again
  BY <1>1, <1>2, <1>4, <1>5, <1>7, <1>8, MirrorType
<1>10. PaletteShown(console', s, t)
  BY <1>4, <1>5, <1>8, <1>9, PaletteShownSame
<1>. QED  BY <1>1, <1>4, <1>8, <1>9, <1>10, WindowStep

-----------------------------------------------------------------------------
(* The theorems *)

\* Every step of the program keeps the invariant.
LEMMA NextInv == Inv /\ [Next]_vars => Inv'
<1> SUFFICES ASSUME Inv, [Next]_vars PROVE Inv'  OBVIOUS
<1>1. ASSUME CreateShell PROVE Inv'  BY <1>1, CreateShellInv
<1>2. ASSUME DeleteShell PROVE Inv'
  <2>1. slot[cur] \in Alive  BY <1>2 DEF DeleteShell, Alive, Inv, TypeOK
  <2>2. ShellExited(slot[cur])  BY <1>2 DEF DeleteShell
  <2>. QED  BY <2>1, <2>2, ShellExitedInv
<1>3. ASSUME NEW s \in Shell, ProgramEnds(s) PROVE Inv'
  BY <1>3, ShellExitedInv DEF ProgramEnds
<1>4. ASSUME NEW i \in Slots, SwitchShell(i) PROVE Inv'  BY <1>4, SwitchShellInv
<1>5. ASSUME NextShell PROVE Inv'
  <2>1. NextIndex(slot, cur) \in Slots  BY IndexTypes DEF Inv, TypeOK
  <2>. QED  BY <1>5, <2>1, SwitchShellInv DEF NextShell
<1>6. ASSUME PrevShell PROVE Inv'
  <2>1. PrevIndex(slot, cur) \in Slots  BY IndexTypes DEF Inv, TypeOK
  <2>. QED  BY <1>6, <2>1, SwitchShellInv DEF PrevShell
<1>7. ASSUME NEW enter \in BOOLEAN, SwitchVc(enter) PROVE Inv'  BY <1>7, SwitchVcInv
<1>8. ASSUME Exit PROVE Inv'
  <2>1. /\ UNCHANGED <<slot, cur, active, count, vcCurrent, term, console>>
        /\ running' = FALSE
    BY <1>8 DEF Exit
  <2>2. TypeOK'  BY <2>1 DEF Inv, TypeOK
  <2>3. ActiveIsCurrent' /\ OneSlotEach' /\ ConsoleFollowsActive' /\ CountIsOccupied'
    BY <2>1 DEF Inv, ActiveIsCurrent, OneSlotEach, ConsoleFollowsActive,
                CountIsOccupied, Occupied
  <2>. QED  BY <2>2, <2>3 DEF Inv
<1>9. ASSUME NEW s \in Shell, NEW m \in KeyModes, NEW v \in BOOLEAN, SetKeyMode(s, m, v)
      PROVE  Inv'
  BY <1>9, SetKeyModeInv
<1>10. ASSUME NEW s \in Shell, NEW r \in HiddenBy, NEW hide \in BOOLEAN, SetCursor(s, r, hide)
       PROVE  Inv'
  BY <1>10, SetCursorInv
<1>11. ASSUME NEW s \in Shell, ResetTerm(s) PROVE Inv'  BY <1>11, ResetTermInv
<1>12. ASSUME NEW s \in Shell, NEW i \in ColorIndex, NEW c \in Color, PaletteSet(s, i, c)
       PROVE  Inv'
  BY <1>12, PaletteSetInv
<1>13. ASSUME NEW s \in Shell, PaletteClear(s) PROVE Inv'  BY <1>13, PaletteClearInv
<1>14. ASSUME NEW away \in BOOLEAN, HistoryScroll(away) PROVE Inv'
  BY <1>14, HistoryScrollInv
<1>15. ASSUME UNCHANGED vars PROVE Inv'
  <2>1. UNCHANGED <<slot, cur, active, count, vcCurrent, running, term, console>>
    BY <1>15 DEF vars
  <2>2. TypeOK'  BY <2>1 DEF Inv, TypeOK
  <2>3. ActiveIsCurrent' /\ OneSlotEach' /\ ConsoleFollowsActive' /\ CountIsOccupied'
    BY <2>1 DEF Inv, ActiveIsCurrent, OneSlotEach, ConsoleFollowsActive,
                CountIsOccupied, Occupied
  <2>. QED  BY <2>2, <2>3 DEF Inv
<1>. QED
  BY <1>1, <1>2, <1>3, <1>4, <1>5, <1>6, <1>7, <1>8, <1>9, <1>10, <1>11, <1>12,
     <1>13, <1>14, <1>15 DEF Next

\* The window manager's invariant holds in every reachable state.
THEOREM Invariance == Spec => []Inv
  BY InitInv, NextInv, PTL DEF Spec

\* Every variable of the window manager keeps its type.
THEOREM TypeCorrect == Spec => []TypeOK
<1>1. Inv => TypeOK  BY DEF Inv
<1>. QED  BY <1>1, Invariance, PTL

\* mActiveShell never dangles: it is the current slot's window, or null.
THEOREM ActiveIsCurrentAlways == Spec => []ActiveIsCurrent
<1>1. Inv => ActiveIsCurrent  BY DEF Inv
<1>. QED  BY <1>1, Invariance, PTL

\* The console always mirrors the active window and is reset without one.
THEOREM ConsoleFollowsActiveAlways == Spec => []ConsoleFollowsActive
<1>1. Inv => ConsoleFollowsActive  BY DEF Inv
<1>. QED  BY <1>1, Invariance, PTL

\* mShellCount always is the number of windows, each in a slot of its own.
THEOREM CountIsOccupiedAlways == Spec => [](CountIsOccupied /\ OneSlotEach)
<1>1. Inv => CountIsOccupied /\ OneSlotEach  BY DEF Inv
<1>. QED  BY <1>1, Invariance, PTL

-----------------------------------------------------------------------------
(* What no step does to the windows                                        *)

\* Only createShell fills a slot and only a window that closes frees one.
LEMMA SlotStep ==
  ASSUME Inv, [Next]_vars
  PROVE  \/ slot' = slot
         \/ \E i \in Slots, s \in Shell : slot[i] = None /\ slot' = [slot EXCEPT ![i] = s]
         \/ \E s \in Alive : ShellExited(s)
<1>1. CASE CreateShell
  <2>1. PICK s \in Shell : slot' = [slot EXCEPT ![FreeIndex(slot, cur)] = s]
    BY <1>1 DEF CreateShell
  <2>2. FreeIndex(slot, cur) \in Slots /\ slot[FreeIndex(slot, cur)] = None
    BY <1>1, FreeSlot DEF CreateShell
  <2>. QED  BY <2>1, <2>2
<1>2. CASE DeleteShell
  <2>1. slot[cur] \in Alive  BY <1>2 DEF DeleteShell, Alive, Inv, TypeOK
  <2>. QED  BY <1>2, <2>1 DEF DeleteShell
<1>3. CASE \E s \in Shell : ProgramEnds(s)
  BY <1>3 DEF ProgramEnds
<1>4. CASE \/ \E i \in Slots : SwitchShell(i)
           \/ NextShell \/ PrevShell
           \/ \E enter \in BOOLEAN : SwitchVc(enter)
           \/ Exit
           \/ UNCHANGED vars
  BY <1>4 DEF SwitchShell, NextShell, PrevShell, SwitchVc, Exit, vars
<1>5. CASE \/ \E s \in Shell, m \in KeyModes, v \in BOOLEAN : SetKeyMode(s, m, v)
           \/ \E s \in Shell, r \in HiddenBy, hide \in BOOLEAN : SetCursor(s, r, hide)
           \/ \E s \in Shell : ResetTerm(s)
  BY <1>5 DEF SetKeyMode, SetCursor, ResetTerm, Output
<1>6. CASE \/ \E s \in Shell, i \in ColorIndex, c \in Color : PaletteSet(s, i, c)
           \/ \E s \in Shell : PaletteClear(s)
           \/ \E away \in BOOLEAN : HistoryScroll(away)
  BY <1>6 DEF PaletteSet, PaletteClear, HistoryScroll
<1>. QED  BY <1>1, <1>2, <1>3, <1>4, <1>5, <1>6 DEF Next

\* What shellExited does to the slots.
LEMMA ExitedStep ==
  ASSUME Inv, NEW s \in Alive, ShellExited(s)
  PROVE  \E i \in Occupied :
           /\ slot' = [slot EXCEPT ![i] = None]
           /\ i = cur => cur' = PrevIndex(slot', cur)
           /\ i # cur => UNCHANGED <<cur, active, console>>
<1> DEFINE i == GetIndex(slot, cur, {s}, TRUE, 0)
           freed == [slot EXCEPT ![i] = None]
<1>1. i \in Occupied  BY ExitedSlot DEF Occupied, Alive
<1>2. /\ slot' = freed
      /\ IF i = cur THEN Select(PrevIndex(freed, cur), freed, term)
                    ELSE UNCHANGED <<cur, active, console>>
  BY Zenon DEF ShellExited
<1>3. i = cur => cur' = PrevIndex(freed, cur)  BY <1>2 DEF Select
<1> HIDE DEF i
<1> WITNESS i \in Occupied
<1>. QED  BY <1>2, <1>3

\* No step puts another window in a slot in use, and closing a window leaves
\* all others where they are (createShell, shellExited).
THEOREM WindowsKeepSlotsAlways == Spec => WindowsKeepSlots
<1> DEFINE Keep == \A i \in Occupied : slot'[i] # slot[i] =>
                     /\ slot'[i] = None
                     /\ \A j \in Slots \ {i} : slot'[j] = slot[j]
<1>1. Inv /\ [Next]_vars => Keep
  <2> SUFFICES ASSUME Inv, [Next]_vars PROVE Keep  OBVIOUS
  <2>1. CASE \E s \in Alive : ShellExited(s)
    <3>1. PICK i \in Occupied : slot' = [slot EXCEPT ![i] = None]  BY <2>1, ExitedStep
    <3>. QED  BY <3>1 DEF Inv, TypeOK, Occupied
  <2>2. CASE \E i \in Slots, s \in Shell : slot[i] = None /\ slot' = [slot EXCEPT ![i] = s]
    BY <2>2 DEF Inv, TypeOK, Occupied
  <2>. QED  BY <2>1, <2>2, SlotStep
<1> HIDE DEF Keep
<1>2. Inv /\ [Next]_vars => [Keep]_vars  BY <1>1
<1>3. Spec => [][Keep]_vars  BY <1>2, Invariance, PTL DEF Spec
<1>. QED  BY <1>3 DEF Keep, WindowsKeepSlots

\* When the current window closes, the nearest one before it takes its place;
\* when another closes, nothing moves on the screen (shellExited, getIndex).
THEOREM FocusFallsBackAlways == Spec => FocusFallsBack
<1> DEFINE Back == \A i \in Occupied : (slot'[i] = None /\ Occupied' # {}) =>
                     IF i = cur
                     THEN slot'[cur'] # None /\ \A k \in Between(cur', cur) : slot'[k] = None
                     ELSE cur' = cur /\ active' = active /\ console' = console
<1>1. Inv /\ [Next]_vars => Back
  <2> SUFFICES ASSUME Inv, [Next]_vars, NEW i \in Occupied, slot'[i] = None, Occupied' # {}
               PROVE  IF i = cur
                      THEN slot'[cur'] # None /\ \A k \in Between(cur', cur) : slot'[k] = None
                      ELSE cur' = cur /\ active' = active /\ console' = console
    OBVIOUS
  <2>1. i \in Slots /\ slot[i] # None  BY DEF Occupied
  <2>2. PICK s \in Alive : ShellExited(s)
    <3>1. slot' # slot  BY <2>1
    <3>2. ~ \E j \in Slots, s \in Shell : slot[j] = None /\ slot' = [slot EXCEPT ![j] = s]
      BY <2>1, NoneAssumption DEF Inv, TypeOK
    <3>. QED  BY <3>1, <3>2, SlotStep
  <2>3. PICK j \in Occupied :
          /\ slot' = [slot EXCEPT ![j] = None]
          /\ j = cur => cur' = PrevIndex(slot', cur)
          /\ j # cur => UNCHANGED <<cur, active, console>>
    BY <2>2, ExitedStep
  <2>4. i = j  BY <2>1, <2>3 DEF Inv, TypeOK, Occupied
  <2>5. CASE i # cur  BY <2>3, <2>4, <2>5
  <2>6. CASE i = cur
    <3>1. slot' \in [Slots -> Shell \cup {None}]  BY <2>1, <2>3 DEF Inv, TypeOK
    <3>2. PICK n \in Slots : slot'[n] # None  BY DEF Occupied, Slots
    <3>3. slot'[n] \in Shell /\ slot'[cur] \notin Shell /\ cur \in Slots
      BY <2>1, <2>6, <3>1, <3>2, NoneAssumption
    <3>4. cur' = PrevIndex(slot', cur)  BY <2>3, <2>4, <2>6
    <3>5. slot'[cur'] \in Shell /\ \A k \in Between(cur', cur) : slot'[k] \notin Shell
      BY <3>3, <3>4, PrevNearest
    <3>6. \A k \in Between(cur', cur) : k \in Slots  BY DEF Between
    <3>. QED  BY <2>6, <3>1, <3>5, <3>6, NoneAssumption
  <2>. QED  BY <2>5, <2>6
<1> HIDE DEF Back
<1>2. Inv /\ [Next]_vars => [Back]_vars  BY <1>1
<1>3. Spec => [][Back]_vars  BY <1>2, Invariance, PTL DEF Spec
<1>. QED  BY <1>3 DEF Back, FocusFallsBack
=============================================================================
