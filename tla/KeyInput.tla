------------------------------ MODULE KeyInput ------------------------------
(***************************************************************************)
(* The keyboard: TtyInput reads what the terminal has, as characters or,    *)
(* while the active window's input method server asks for it, as key codes  *)
(* (K_MEDIUMRAW).  It carries out FbTerm's shortcuts and passes the rest on *)
(* in pieces to the active window, which gives it to its input method       *)
(* server or to its program.                                                *)
(*                                                                         *)
(* One modifier stands for the combinations of the keymap.  The handler is  *)
(* one step per key, and nothing else happens until the buffer is done.     *)
(***************************************************************************)
EXTENDS Naturals, Sequences, FiniteSets, SequencesExt

CONSTANTS
  Win,      \* windows
  None,     \* no window
  Mods,     \* keys of the modifier
  Special,  \* keys that are a shortcut together with the modifier
  Plain,    \* all other keys
  RawInput, \* the servers ask for key codes
  MaxQueue  \* bound: keys that wait to be read

Key == Mods \cup Special \cup Plain

ASSUME WinAssumption == None \notin Win
ASSUME KeyAssumption == Mods \cap (Special \cup Plain) = {} /\ Special \cap Plain = {}
ASSUME RawInputAssumption == RawInput \in BOOLEAN
ASSUME MaxQueueAssumption == MaxQueue \in Nat \ {0}

VARIABLES
  held,     \* keys held down
  queue,    \* keys the terminal has for FbTerm
  front,    \* FbTerm's console is in front (mVcCurrent)
  windows,  \* the windows there are
  cur,      \* the current one
  on,       \* windows whose input method is switched on
  rawMode,  \* TtyInput::mRawMode, and the keyboard's mode
  keyDown,  \* keys of which key_down is set; down_num is their number
  modDown,  \* shift_down of the modifier; shift_state says whether it is 0
  batch,    \* the buffer read
  at,       \* next key of it
  start,    \* first key of it not passed on
  shell,    \* the window that was active when it was read
  sent,     \* what the last step passed on
  passed,   \* the keys of the buffer passed on
  ahead,    \* a buffer held more than one key
  imSees    \* keys a server has seen pressed and not released

outside == <<held, queue, front>>
manager == <<windows, cur, on>>
keyboard == <<rawMode, keyDown, modDown>>
reading == <<batch, at, start, shell, ahead>>
vars == <<outside, manager, keyboard, reading, sent, passed, imSees>>

Active == IF front THEN cur ELSE None

RawKey(k, down) == [raw |-> TRUE, key |-> k, down |-> down, shortcut |-> FALSE]
Char(k, shortcut) == [raw |-> FALSE, key |-> k, down |-> TRUE, shortcut |-> shortcut]

Init ==
  /\ held = {} /\ queue = << >> /\ front = TRUE
  /\ \E w \in Win : windows = {w} /\ cur = w
  /\ on = {} /\ rawMode = FALSE /\ keyDown = {} /\ modDown = 0
  /\ batch = << >> /\ at = 1 /\ start = 1 /\ shell = None
  /\ sent = << >> /\ passed = << >> /\ ahead = FALSE
  /\ imSees = [w \in Win |-> {}]

-----------------------------------------------------------------------------
(* The keyboard and the kernel.                                            *)

Idle == batch = << >>

\* Keys struck on FbTerm's console are queued in the keyboard's mode.
Strike(events) ==
  /\ Idle
  /\ IF front
     THEN Len(queue) + Len(events) <= MaxQueue /\ queue' = queue \o events
     ELSE UNCHANGED queue
  /\ sent' = << >>
  /\ UNCHANGED <<front, manager, keyboard, reading, passed, imSees>>

\* A key goes down, or repeats.
Press(k) ==
  /\ held' = held \cup {k}
  /\ Strike(IF rawMode THEN <<RawKey(k, TRUE)>>
            ELSE IF k \in Mods THEN << >>
            ELSE <<Char(k, k \in Special /\ held \cap Mods # {})>>)

Release(k) ==
  /\ k \in held
  /\ held' = held \ {k}
  /\ Strike(IF rawMode THEN <<RawKey(k, FALSE)>> ELSE << >>)

-----------------------------------------------------------------------------
(* What a window does with the keys passed to it.                          *)

\* FbShell::keyInput, the input methods in oni being on; a window deleted
\* meanwhile is freed memory.
Piece(w, oni, keys) ==
  IF w = None \/ keys = << >> THEN << >>
  ELSE <<[win |-> w, keys |-> keys,
          via |-> IF w \notin windows THEN "freed"
                  ELSE IF w \in oni THEN "server" ELSE "program"]>>

\* keycode_to_keysym of the example server: it follows the keys.
Follow(down, e) == IF e.down THEN down \cup {e.key} ELSE down \ {e.key}

See(sees, piece) ==
  IF piece.via # "server" THEN sees
  ELSE [sees EXCEPT ![piece.win] = FoldLeft(Follow, @, piece.keys)]

\* Servers see what is sent to them; switched on, they start afresh
\* (init_keycode_state).
Pass(pieces) ==
  /\ sent' = pieces
  /\ imSees' = LET seen == FoldLeft(See, imSees, pieces)
               IN  [w \in Win |-> IF w \in on \cap on' THEN seen[w] ELSE {}]

-----------------------------------------------------------------------------
(* TtyInput::setRawMode and the shortcuts of FbTerm::processSysKey.        *)

Releases(down) == SetToSeq({RawKey(k, FALSE) : k \in down})

SameMode(down, mods) == rawMode' = rawMode /\ keyDown' = down /\ modDown' = mods

\* Slip: the key state is kept when the mode is entered again.
EndRawModeKeeping(wanted, down, mods) ==
  rawMode' = wanted /\ keyDown' = down /\ modDown' = mods

\* setRawMode(FALSE) and then, if on is wanted, setRawMode(TRUE): the key state
\* is reset when the mode is entered only.
EndRawMode(wanted, down, mods) ==
  /\ rawMode' = wanted
  /\ keyDown' = IF wanted THEN {} ELSE down
  /\ modDown' = IF wanted THEN 0 ELSE mods

\* Slip: the keys held are not released when the keyboard's mode changes.
LeavesHeld(w, oni, down) == << >>

\* The releases setRawMode(FALSE) makes up, for the window that is active.
Left(w, oni, down) == IF rawMode THEN Piece(w, oni, Releases(down)) ELSE << >>

\* setActive: leaving the window, its server is told of releases while it is
\* still on; entering window v sets the mode v's server wants.
SwitchTo(v, down, mods, pieces) ==
  /\ cur' = v
  /\ IF v = cur
     THEN SameMode(down, mods) /\ Pass(pieces)
     ELSE /\ EndRawMode(RawInput /\ v \in on, down, mods)
          /\ Pass(pieces \o Left(cur, on, down))

\* CTRL_SPACE, toggleActive: the input method is off before its keys are
\* released.
Toggle(down, mods, pieces) ==
  LET oni == IF cur \in on THEN on \ {cur} ELSE on \cup {cur} IN
  /\ on' = oni
  /\ EndRawMode(RawInput /\ cur \in oni, down, mods)
  /\ Pass(pieces \o Left(cur, oni, down))
  /\ UNCHANGED <<windows, cur>>

\* CTRL_ALT_K, killIm: likewise, in ~ImProxy.
Kill(down, mods, pieces) ==
  /\ on' = on \ {cur}
  /\ IF cur \in on
     THEN EndRawMode(FALSE, down, mods) /\ Pass(pieces \o Left(cur, on', down))
     ELSE SameMode(down, mods) /\ Pass(pieces)
  /\ UNCHANGED <<windows, cur>>

\* SHIFT_RIGHT and its like; which window is next, Shells says.
Switch(down, mods, pieces) ==
  /\ UNCHANGED <<windows, on>>
  /\ \E v \in windows : SwitchTo(v, down, mods, pieces)

\* CTRL_ALT_C.
Create(down, mods, pieces) ==
  /\ UNCHANGED on
  /\ \E v \in Win \ windows : windows' = windows \cup {v} /\ SwitchTo(v, down, mods, pieces)

\* CTRL_ALT_D: the window's server goes first, then another window is entered.
Destroy(down, mods, pieces) ==
  /\ windows' = windows \ {cur}
  /\ on' = on \ {cur}
  /\ \E v \in IF windows' = {} THEN {None} ELSE windows' :
       /\ cur' = v
       /\ EndRawMode(RawInput /\ v \in on', down, mods)
  /\ Pass(pieces \o Left(cur, on', down))

\* With no window left most of them do nothing.
Ignore(down, mods, pieces) ==
  /\ UNCHANGED manager
  /\ SameMode(down, mods)
  /\ Pass(pieces)

\* A shortcut, key_down and shift_down being down and mods and the keys before
\* it passed on as pieces.
SysKey(down, mods, pieces) ==
  \/ Create(down, mods, pieces)
  \/ cur = None /\ Ignore(down, mods, pieces)
  \/ cur # None /\ \/ Toggle(down, mods, pieces)
                   \/ Kill(down, mods, pieces)
                   \/ Switch(down, mods, pieces)
                   \/ Destroy(down, mods, pieces)

-----------------------------------------------------------------------------
(* TtyInput::readyRead and processRawKeys.                                 *)

\* The buffer takes all there is; the window is looked up once.
Read ==
  /\ Idle /\ queue # << >> /\ windows # {}
  /\ batch' = queue /\ queue' = << >> /\ at' = 1 /\ start' = 1
  /\ shell' = Active
  /\ ahead' = (ahead \/ Len(queue) > 1)
  /\ sent' = << >> /\ passed' = << >>
  /\ UNCHANGED <<held, front, manager, keyboard, imSees>>

\* Keys from start to before end, for the window looked up.
Flush(end) == Piece(shell, on, SubSeq(batch, start, end - 1))

Step == batch # << >> /\ at <= Len(batch)

\* A character that is no shortcut stays in the buffer.
ReadChar ==
  /\ Step /\ ~ batch[at].raw /\ ~ batch[at].shortcut
  /\ at' = at + 1
  /\ sent' = << >>
  /\ UNCHANGED <<outside, manager, keyboard, batch, start, shell, passed, ahead, imSees>>

\* Slip: the piece before the shortcut is not marked as passed on.
ReadShortcutAgain ==
  /\ Step /\ ~ batch[at].raw /\ batch[at].shortcut
  /\ SysKey(keyDown, modDown, Flush(at))
  /\ at' = at + 1 /\ start' = start
  /\ passed' = passed \o SubSeq(batch, start, at - 1)
  /\ UNCHANGED <<outside, batch, shell, ahead>>

\* A shortcut: what was before it is passed on first, it is not.
ReadShortcut ==
  /\ Step /\ ~ batch[at].raw /\ batch[at].shortcut
  /\ SysKey(keyDown, modDown, Flush(at))
  /\ at' = at + 1 /\ start' = at + 1
  /\ passed' = passed \o SubSeq(batch, start, at - 1)
  /\ UNCHANGED <<outside, batch, shell, ahead>>

\* Slip: the shortcut's own key is passed on with what follows.
ReadRawShortcutLate ==
  /\ Step /\ batch[at].raw
  /\ batch[at].down /\ batch[at].key \in Special /\ modDown > 0
  /\ SysKey(keyDown \cup {batch[at].key}, modDown, Flush(at))
  /\ at' = at + 1 /\ start' = at
  /\ passed' = passed \o SubSeq(batch, start, at - 1)
  /\ UNCHANGED <<outside, batch, shell, ahead>>

DownAfter(e) == IF e.down THEN keyDown \cup {e.key} ELSE keyDown \ {e.key}

\* Repeats of the modifier do not count; releases do, if it is down at all.
ModsAfter(e) ==
  IF e.key \notin Mods \/ (e.down /\ e.key \in keyDown) THEN modDown
  ELSE IF e.down THEN modDown + 1
  ELSE IF modDown > 0 THEN modDown - 1 ELSE 0

\* Slip: it is passed on.
StrayReleaseKept ==
  /\ Step /\ batch[at].raw /\ ~ batch[at].down /\ batch[at].key \notin keyDown
  /\ modDown' = ModsAfter(batch[at])
  /\ at' = at + 1 /\ sent' = << >>
  /\ UNCHANGED <<outside, manager, rawMode, keyDown, batch, start, shell, passed, ahead, imSees>>

\* A release of a key that is not down is cut out, what was before it passed on.
ReadStrayRelease ==
  /\ Step /\ batch[at].raw /\ ~ batch[at].down /\ batch[at].key \notin keyDown
  /\ UNCHANGED manager /\ Pass(Flush(at))
  /\ modDown' = ModsAfter(batch[at])
  /\ at' = at + 1 /\ start' = at + 1
  /\ passed' = passed \o SubSeq(batch, start, at - 1)
  /\ UNCHANGED <<outside, rawMode, keyDown, batch, shell, ahead>>

\* Any other key stays in the buffer ...
ReadRawKey ==
  /\ Step /\ batch[at].raw
  /\ batch[at].down \/ batch[at].key \in keyDown
  /\ ~ (batch[at].down /\ batch[at].key \in Special /\ modDown > 0)
  /\ keyDown' = DownAfter(batch[at]) /\ modDown' = ModsAfter(batch[at])
  /\ at' = at + 1
  /\ sent' = << >>
  /\ UNCHANGED <<outside, manager, rawMode, batch, start, shell, passed, ahead, imSees>>

\* ... except that a shortcut is passed on before it is carried out.
ReadRawShortcut ==
  /\ Step /\ batch[at].raw
  /\ batch[at].down /\ batch[at].key \in Special /\ modDown > 0
  /\ SysKey(DownAfter(batch[at]), modDown, Flush(at + 1))
  /\ at' = at + 1 /\ start' = at + 1
  /\ passed' = passed \o SubSeq(batch, start, at)
  /\ UNCHANGED <<outside, batch, shell, ahead>>

\* The rest is passed on at the end.
Finish ==
  /\ batch # << >> /\ at > Len(batch)
  /\ UNCHANGED manager /\ Pass(Flush(at))
  /\ batch' = << >> /\ at' = 1 /\ start' = 1 /\ shell' = None /\ passed' = << >>
  /\ UNCHANGED <<outside, keyboard, ahead>>

-----------------------------------------------------------------------------
\* FbShellManager::switchVc, when the keys struck before are read.
LeaveVc ==
  /\ Idle /\ queue = << >> /\ front
  /\ front' = FALSE
  /\ UNCHANGED manager
  /\ IF cur \in on
     THEN EndRawMode(FALSE, keyDown, modDown) /\ Pass(Left(cur, on, keyDown))
     ELSE sent' = << >> /\ UNCHANGED <<keyboard, imSees>>
  /\ UNCHANGED <<held, queue, reading, passed>>

EnterVc ==
  /\ Idle /\ ~ front
  /\ front' = TRUE
  /\ IF RawInput /\ cur \in on THEN EndRawMode(TRUE, {}, 0) ELSE UNCHANGED keyboard
  /\ sent' = << >>
  /\ UNCHANGED <<held, queue, manager, reading, passed, imSees>>

Next ==
  \/ \E k \in Key : Press(k) \/ Release(k)
  \/ Read \/ ReadChar \/ ReadShortcut \/ ReadStrayRelease \/ ReadRawKey \/ ReadRawShortcut \/ Finish
  \/ LeaveVc \/ EnterVc

Spec == Init /\ [][Next]_vars

-----------------------------------------------------------------------------
(* Properties.                                                             *)

Item == [raw : BOOLEAN, key : Key, down : BOOLEAN, shortcut : BOOLEAN]

\* Every variable has its type; the modifier is never counted more often than
\* it has keys.
TypeOK ==
  /\ held \subseteq Key /\ queue \in Seq(Item) /\ front \in BOOLEAN
  /\ windows \subseteq Win /\ cur \in windows \cup {None} /\ on \subseteq windows
  /\ rawMode \in BOOLEAN /\ keyDown \subseteq Key /\ modDown \in 0 .. Cardinality(Mods)
  /\ batch \in Seq(Item) /\ at \in 1 .. Len(batch) + 1 /\ start \in 1 .. at
  /\ shell \in Win \cup {None} /\ ahead \in BOOLEAN
  /\ \A i \in DOMAIN sent : sent[i].win \in Win /\ sent[i].keys \in Seq(Item)
  /\ passed \in Seq(Item) /\ imSees \in [Win -> SUBSET Key]

\* What has to be passed on of some keys: presses, and characters that are no
\* shortcut.
Wanted(e) == IF e.raw THEN e.down ELSE ~ e.shortcut
Take(taken, e) == IF Wanted(e) THEN Append(taken, e) ELSE taken
WantedOf(keys) == FoldLeft(Take, << >>, keys)

\* Every press and every character that is no shortcut is passed on once and in
\* order, however shortcuts and releases cut the buffer into pieces.
KeysPassedOnce ==
  WantedOf(passed \o SubSeq(batch, start, at - 1)) = WantedOf(SubSeq(batch, 1, at - 1))

\* Keys go to the window that is active, never to one left or deleted by the
\* shortcut they belong to.  This is so for keys read one at a time: the window
\* is looked up once for a buffer (readyRead, processRawKeys).
KeysReachActive ==
  [][~ ahead' => \A i \in DOMAIN sent' : sent'[i].win = Active /\ sent'[i].via # "freed"]_vars

\* A server is told only of releases of keys it has seen pressed: "fixed a bug
\* that ctrl/space release keycodes are sent to im server when user enable it by
\* pressing ctrl+space" (ChangeLog).
ReleasesFollowPresses ==
  [][~ ahead' => \A i \in DOMAIN sent' :
       LET before == FoldLeft(See, imSees, SubSeq(sent', 1, i - 1))[sent'[i].win]
           keys == sent'[i].keys
       IN  sent'[i].via = "server" =>
             \A n \in DOMAIN keys : keys[n].raw /\ ~ keys[n].down =>
               keys[n].key \in FoldLeft(Follow, before, SubSeq(keys, 1, n - 1))]_vars

\* A server whose window is not active holds no key: it was told of the releases
\* it will not see (setRawMode).
BackgroundHoldsNothing ==
  ~ ahead /\ Idle => \A w \in on \ {Active} : imSees[w] = {}

\* With all keys read, a key taken to be down is held, and the shortcuts see
\* the modifier if and only if it was struck since key codes are read.
KeysDownAreHeld ==
  rawMode /\ Idle /\ queue = << >> =>
    /\ keyDown \subseteq held
    /\ modDown = Cardinality(keyDown \cap Mods)
=============================================================================
