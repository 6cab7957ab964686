------------------------------- MODULE Shells -------------------------------
(***************************************************************************)
(* The window manager of FbTerm (FbShellManager) and what a window does to *)
(* the Linux console it is drawn on (FbShell::switchVt, ::modeChanged and  *)
(* ::request).                                                             *)
(*                                                                         *)
(* FbTerm is one process with one event loop: an action is one handler,    *)
(* run to its end.  A window is known by its address, and the address of a *)
(* deleted window may be given to a new one.                               *)
(***************************************************************************)
EXTENDS Naturals, FiniteSets

CONSTANTS
  NrShells,       \* NR_SHELLS, the number of window slots
  Shell,          \* addresses a window object can have
  None,           \* the null pointer
  DefaultRef,     \* the address of the default palette
  KeyModes,       \* console modes a window mirrors: CursorKeyEscO, ...
  HiddenBy,       \* reasons for a cursor not to be shown
  ColorIndex,     \* palette entries
  Color           \* colours of a palette entry

ASSUME NrShellsAssumption == NrShells \in Nat \ {0}
ASSUME NoneAssumption == None \notin Shell
ASSUME DefaultRefAssumption == DefaultRef \notin Shell \cup {None}
ASSUME ColorAssumption == Color # {}
ASSUME KeyModesAssumption ==
  KeyModes \subseteq {"CursorKeyEscO", "AutoRepeatKey", "ApplicKeypad", "CRWithLF"}
ASSUME HiddenByAssumption ==
  HiddenBy \subseteq {"CursorVisible", "CursorShape", "history"}

VARIABLES
  slot,           \* mShellList
  cur,            \* mCurShell
  active,         \* mActiveShell
  count,          \* mShellCount
  vcCurrent,      \* mVcCurrent: FbTerm's virtual console is in front
  running,        \* FbTerm::mRun, as exit() leaves it
  term,           \* per window: the VTerm modes and the FbShell palette
  console         \* the console: key modes, timer, TIOCCONS, palette

vars == <<slot, cur, active, count, vcCurrent, running, term, console>>

Slots == 0 .. NrShells - 1
Alive == {slot[i] : i \in Slots} \ {None}
Occupied == {i \in Slots : slot[i] # None}

-----------------------------------------------------------------------------
(* One window: the modes VTerm::reset gives it and its private palette.    *)

ResetModes == [m \in KeyModes |-> m = "AutoRepeatKey"]

DefaultColor == CHOOSE c \in Color : TRUE
DefaultPalette == [i \in ColorIndex |-> DefaultColor]

NewTerm ==
  [keys |-> ResetModes, hidden |-> {}, changed |-> FALSE, palette |-> DefaultPalette]

TermState ==
  [keys : [KeyModes -> BOOLEAN], hidden : SUBSET HiddenBy,
   changed : BOOLEAN, palette : [ColorIndex -> Color]]

\* A cursor nothing hides blinks: the timer of FbShell::enableCursor runs.
Blinks(t) == t.hidden = {}

\* The palette a window asks the screen for, and the colours it stands for.
PaletteRef(s, t) == IF t.changed THEN s ELSE DefaultRef
Colors(ref, t) == IF ref = DefaultRef THEN DefaultPalette ELSE t.palette

-----------------------------------------------------------------------------
(* The console, changed by the program it is the terminal of.              *)

ConsoleState ==
  [keys : [KeyModes -> BOOLEAN], timer : BOOLEAN,
   redirect : Shell \cup {None},
   ref : Shell \cup {None, DefaultRef}, colors : [ColorIndex -> Color],
   again : SUBSET ColorIndex]  \* history: entries set while already in force

InitConsole ==
  [keys |-> ResetModes, timer |-> FALSE, redirect |-> None,
   ref |-> None, colors |-> DefaultPalette, again |-> {}]

\* Screen::setPalette: a palette at the address of the present one is taken
\* to be the present one.
SetPalette(c, ref, t) ==
  IF c.ref = ref THEN c ELSE [c EXCEPT !.ref = ref, !.colors = Colors(ref, t)]

\* FbShell::modeChanged of window s in state t, when act is the active one.
ModeChanged(c, act, s, t, types) ==
  IF act # s THEN c
  ELSE [c EXCEPT
          !.keys = [m \in KeyModes |-> IF m \in types THEN t.keys[m] ELSE c.keys[m]],
          !.timer = IF types \cap {"CursorVisible", "CursorShape"} # {}
                    THEN Blinks(t) ELSE c.timer]

AllModes == KeyModes \cup {"CursorVisible", "CursorShape"}

\* FbShell::switchVt(false, peer): only the last window to leave resets.
Leave(c, peer) ==
  IF peer # None
  THEN [c EXCEPT !.redirect = None]
  ELSE SetPalette([c EXCEPT !.redirect = None, !.keys = ResetModes,
                            !.timer = FALSE, !.again = {}], DefaultRef, NewTerm)

\* Slip: mActiveShell is still the window left when the modes are reported.
EnterBeforeActive(c, act, s, t) ==
  SetPalette([c EXCEPT !.redirect = s, !.again = {}], PaletteRef(s, t), t)

\* FbShell::switchVt(true, peer) of window s in state t.
Enter(c, act, s, t) ==
  ModeChanged(SetPalette([c EXCEPT !.redirect = s, !.again = {}], PaletteRef(s, t), t),
              act, s, t, AllModes)

\* FbShellManager::setActive: what making s the active window, the state of
\* the windows being tt, does to the console.
Activate(c, s, tt) ==
  IF active = s THEN c
  ELSE LET left == IF active = None THEN c ELSE Leave(c, s)
       IN  IF s = None THEN left ELSE Enter(left, s, s, tt[s])

SetActive(s, tt) ==
  /\ active' = s
  /\ console' = Activate(console, s, tt)

-----------------------------------------------------------------------------
(* FbShellManager::getIndex: try the slots from the current one, forwards  *)
(* or backwards; when none holds a wanted value the last one tried stands. *)

Probe(from, forward, first, k) ==
  IF forward THEN (from + first + k) % NrShells
             ELSE ((from + NrShells) - (first + k)) % NrShells

GetIndex(slots, from, wanted, forward, first) ==
  LET hits == {k \in Slots : slots[Probe(from, forward, first, k)] \in wanted}
      least == CHOOSE k \in hits : \A j \in hits : k <= j
  IN  Probe(from, forward, first, IF hits = {} THEN NrShells - 1 ELSE least)

NextIndex(slots, from) == GetIndex(slots, from, Shell, TRUE, 1)
PrevIndex(slots, from) == GetIndex(slots, from, Shell, FALSE, 1)
\* Slip: the current slot is taken without a look whether it is free.
FreeIndexHere(slots, from) == from
FreeIndex(slots, from) == GetIndex(slots, from, {None}, TRUE, 0)

\* Slip: the window is made active although the console is not FbTerm's.
SelectAlways(i, slots, tt) == cur' = i /\ SetActive(slots[i], tt)

\* FbShellManager::switchShell, the slots being slots and the windows tt.
Select(i, slots, tt) ==
  /\ cur' = i
  /\ IF vcCurrent THEN SetActive(slots[i], tt) ELSE UNCHANGED <<active, console>>

-----------------------------------------------------------------------------
Init ==
  /\ slot = [i \in Slots |-> None]
  /\ cur = 0
  /\ active = None
  /\ count = 0
  /\ vcCurrent = FALSE
  /\ running = TRUE
  /\ term = [s \in Shell |-> NewTerm]
  /\ console = InitConsole

\* createShell, at the start and on CTRL_ALT_C.
CreateShell ==
  /\ count # NrShells
  /\ count' = count + 1
  /\ \E s \in Shell \ Alive :
       LET i == FreeIndex(slot, cur) IN
         /\ slot' = [slot EXCEPT ![i] = s]
         /\ term' = [term EXCEPT ![s] = NewTerm]
         /\ Select(i, slot', term')
  /\ UNCHANGED <<vcCurrent, running>>

\* ~FbShell and shellExited: the slot is freed, the window before it is
\* selected if it was the current one, and FbTerm ends with its last window.
ShellExited(s) ==
  LET i == GetIndex(slot, cur, {s}, TRUE, 0)
      freed == [slot EXCEPT ![i] = None]
  IN  /\ slot' = freed
      /\ IF i = cur THEN Select(PrevIndex(freed, cur), freed, term)
                    ELSE UNCHANGED <<cur, active, console>>
      /\ count' = count - 1
      /\ running' = (running /\ count' # 0)
      /\ term' = [term EXCEPT ![s] = NewTerm]
      /\ UNCHANGED vcCurrent

\* CTRL_ALT_D, deleteShell.
DeleteShell == slot[cur] # None /\ ShellExited(slot[cur])

\* A shell program ends: its pseudo terminal hangs up or SIGCHLD names it.
ProgramEnds(s) == s \in Alive /\ ShellExited(s)

\* CTRL_ALT_1 to CTRL_ALT_0, switchShell: the slot may be an empty one.
SwitchShell(i) ==
  /\ Select(i, slot, term)
  /\ UNCHANGED <<slot, count, vcCurrent, running, term>>

NextShell == SwitchShell(NextIndex(slot, cur))
PrevShell == SwitchShell(PrevIndex(slot, cur))

\* FbShellManager::switchVc, on SIGUSR2 (enter) and SIGUSR1 (leave).
SwitchVc(enter) ==
  /\ vcCurrent' = enter
  /\ SetActive(IF enter THEN slot[cur] ELSE None, term)
  /\ UNCHANGED <<slot, cur, count, running, term>>

\* CTRL_ALT_E, SIGTERM, SIGHUP.
Exit ==
  /\ running' = FALSE
  /\ UNCHANGED <<slot, cur, active, count, vcCurrent, term, console>>

-----------------------------------------------------------------------------
(* What the programs in the windows do.  VTerm::input first ends a look at *)
(* the history, then the escape sequence takes effect.                     *)

Snapped(t) == [t EXCEPT !.hidden = @ \ {"history"}]

SnapConsole(s) ==
  IF "history" \in term[s].hidden
  THEN ModeChanged(console, active, s, Snapped(term[s]), {"CursorVisible"})
  ELSE console

\* Output of window s that turns its state into t and reports types.
Output(s, t, types) ==
  /\ term' = [term EXCEPT ![s] = t]
  /\ console' = ModeChanged(SnapConsole(s), active, s, t, types)
  /\ UNCHANGED <<slot, cur, active, count, vcCurrent, running>>

\* enable_mode, keypad_numeric and keypad_application.
SetKeyMode(s, m, v) ==
  /\ s \in Alive
  /\ Output(s, [Snapped(term[s]) EXCEPT !.keys[m] = v], {m})

\* enable_mode(25) and set_cursor_type: show or hide the cursor.
SetCursor(s, r, hide) ==
  /\ s \in Alive /\ r # "history"
  /\ Output(s, [Snapped(term[s]) EXCEPT !.hidden = IF hide THEN @ \cup {r} ELSE @ \ {r}], {r})

\* reset (ESC c): every mode gets its default, the palette stays.
ResetTerm(s) ==
  /\ s \in Alive
  /\ Output(s, [Snapped(term[s]) EXCEPT !.keys = ResetModes, !.hidden = {}], AllModes)

\* FbShell::request(PaletteSet): the first change copies the default colours.
\* A later one is made in place, in a palette the screen may have in force.
PaletteSet(s, i, c) ==
  /\ s \in Alive
  /\ LET t == Snapped(term[s])
         base == IF t.changed THEN t.palette ELSE DefaultPalette
         new == [t EXCEPT !.changed = TRUE, !.palette = [base EXCEPT ![i] = c]]
     IN  /\ term' = [term EXCEPT ![s] = new]
         /\ console' =
              IF active = s
              THEN [SetPalette(SnapConsole(s), s, new) EXCEPT
                      !.again = IF t.changed THEN @ \cup {i} ELSE {}]
              ELSE SnapConsole(s)
  /\ UNCHANGED <<slot, cur, active, count, vcCurrent, running>>

\* FbShell::request(PaletteClear).  The colours of the window are dead now: the
\* next change copies the default ones over them.
PaletteClear(s) ==
  /\ s \in Alive
  /\ LET t == Snapped(term[s]) IN
       /\ term' = [term EXCEPT ![s] = [t EXCEPT !.changed = FALSE, !.palette = DefaultPalette]]
       /\ console' = IF active = s /\ t.changed
                     THEN [SetPalette(SnapConsole(s), DefaultRef, t) EXCEPT !.again = {}]
                     ELSE SnapConsole(s)
  /\ UNCHANGED <<slot, cur, active, count, vcCurrent, running>>

\* SHIFT_PAGEUP and SHIFT_PAGEDOWN, historyScroll and VTerm::historyDisplay:
\* the active window starts or ends a look at lines scrolled off.
HistoryScroll(away) ==
  /\ active # None /\ "history" \in HiddenBy
  /\ LET t == [term[active] EXCEPT
                 !.hidden = IF away THEN @ \cup {"history"} ELSE @ \ {"history"}]
     IN  /\ t # term[active]
         /\ term' = [term EXCEPT ![active] = t]
         /\ console' = ModeChanged(console, active, active, t, {"CursorVisible"})
  /\ UNCHANGED <<slot, cur, active, count, vcCurrent, running>>

Next ==
  \/ CreateShell
  \/ DeleteShell
  \/ \E s \in Shell : ProgramEnds(s)
  \/ \E i \in Slots : SwitchShell(i)
  \/ NextShell
  \/ PrevShell
  \/ \E enter \in BOOLEAN : SwitchVc(enter)
  \/ Exit
  \/ \E s \in Shell, m \in KeyModes, v \in BOOLEAN : SetKeyMode(s, m, v)
  \/ \E s \in Shell, r \in HiddenBy, hide \in BOOLEAN : SetCursor(s, r, hide)
  \/ \E s \in Shell : ResetTerm(s)
  \/ \E s \in Shell, i \in ColorIndex, c \in Color : PaletteSet(s, i, c)
  \/ \E s \in Shell : PaletteClear(s)
  \/ \E away \in BOOLEAN : HistoryScroll(away)

Spec == Init /\ [][Next]_vars

-----------------------------------------------------------------------------
(* Properties.                                                             *)

\* Every variable has its type.
TypeOK ==
  /\ slot \in [Slots -> Shell \cup {None}]
  /\ cur \in Slots
  /\ active \in Shell \cup {None}
  /\ count \in 0 .. NrShells
  /\ vcCurrent \in BOOLEAN
  /\ running \in BOOLEAN
  /\ term \in [Shell -> TermState]
  /\ console \in ConsoleState

\* mActiveShell, which every drawing and mode function compares with this, is
\* the window of the current slot while FbTerm's console is in front and null
\* otherwise: it never dangles after a window is deleted, and an empty slot
\* chosen with CTRL_ALT_n has no active window.
ActiveIsCurrent == active = IF vcCurrent THEN slot[cur] ELSE None

\* mShellCount, which limits createShell and ends FbTerm, counts the slots in
\* use whatever the order of creations, deletions and exits.
CountIsOccupied == count = Cardinality(Occupied)

\* No window is in two slots, so shellExited clears the only one it is in.
OneSlotEach == \A i, j \in Occupied : slot[i] = slot[j] => i = j

\* The palette of window s in state t is in force, with its colours, but for
\* entries the window has changed in its own palette while that was in force.
PaletteShown(c, s, t) ==
  /\ c.ref = PaletteRef(s, t)
  /\ c.again = {} \/ t.changed
  /\ \A i \in ColorIndex \ c.again : c.colors[i] = Colors(c.ref, t)[i]

\* The console is programmed for the active window: its key modes, the cursor
\* timer, TIOCCONS and the colours drawn with are that window's, and when no
\* window is active they are the default ones (switchVt, modeChanged).  So an
\* address that names other colours than before, in another window or after a
\* clear, is never taken for the palette in force.  One case is left out: an
\* entry the window in front sets in its own palette when that is in force
\* already is not shown until it comes to the front again (`again`), although
\* doc/fbterm.1.in:179 says the sequence sets it: setPalette compares addresses.
ConsoleFor(c, s, tt) ==
  IF s # None
  THEN /\ c.keys = tt[s].keys
       /\ c.timer = Blinks(tt[s])
       /\ c.redirect = s
       /\ PaletteShown(c, s, tt[s])
  ELSE /\ c.keys = ResetModes
       /\ ~ c.timer
       /\ c.redirect = None
       /\ c.ref \in {None, DefaultRef}
       /\ c.again = {} /\ (c.ref = DefaultRef => c.colors = DefaultPalette)

ConsoleFollowsActive == ConsoleFor(console, active, term)

\* A window keeps its slot until it is closed: no step puts another window in
\* a slot in use, and a step that frees a slot leaves the others alone
\* (createShell, shellExited).
WindowsKeepSlots ==
  [][\A i \in Occupied : slot'[i] # slot[i] =>
       /\ slot'[i] = None
       /\ \A j \in Slots \ {i} : slot'[j] = slot[j]]_vars

\* Slots passed over going from slot i back to slot j.
Between(j, i) == {k \in Slots : k # i /\ k # j /\
                   ((i + NrShells) - k) % NrShells < ((i + NrShells) - j) % NrShells}

\* When the current window closes, the nearest window before it becomes
\* current; when another closes, the current one stays (shellExited).
FocusFallsBack ==
  [][\A i \in Occupied : (slot'[i] = None /\ Occupied' # {}) =>
       IF i = cur
       THEN slot'[cur'] # None /\ \A k \in Between(cur', cur) : slot'[k] = None
       ELSE cur' = cur /\ active' = active /\ console' = console]_vars
=============================================================================
