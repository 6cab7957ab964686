------------------------------ MODULE VtSwitch ------------------------------
(***************************************************************************)
(* FbTerm and the kernel's virtual consoles.  FbTerm takes part in the     *)
(* switches of its console (VT_PROCESS): the kernel asks for the console    *)
(* with SIGUSR1 and waits for VT_RELDISP, and gives it back with SIGUSR2.   *)
(* FbTerm::processSignal leaves and enters; both arrive on the signal       *)
(* descriptor, which returns the pending signals lowest number first.       *)
(*                                                                         *)
(* A handler is one step: the kernel reacts to its last call only.          *)
(***************************************************************************)
EXTENDS Naturals, Sequences, FiniteSets

CONSTANTS
  Signals   \* signals FbTerm blocks and reads, by number

USR1 == 10
USR2 == 12
SIGTERM == 15

ASSUME SignalsAssumption ==
  Signals \subseteq Nat /\ IsFiniteSet(Signals) /\ {USR1, USR2, SIGTERM} \subseteq Signals

VARIABLES
  front,    \* FbTerm's console is the one shown (kernel)
  newvt,    \* the kernel waits for VT_RELDISP to show another (vt_newvt)
  pending,  \* pending signals
  batch,    \* signals read and not yet processed
  phase,    \* start, running, leaving (mRun is false), over
  current,  \* FbShellManager::mVcCurrent: a window draws on the screen
  window,   \* there is a window: run() has created the first one
  keymap,   \* the kernel's keymap: original, or with FbTerm's shortcuts
  keyboard, \* mode of the keyboard and the terminal: original or raw
  palette,  \* the screen's colours: original or FbTerm's
  overtaken \* (history) the last SIGUSR1 was processed before an older SIGUSR2

console == <<keymap, keyboard, palette>>
vars == <<front, newvt, pending, batch, phase, current, window, console, overtaken>>

Init ==
  /\ front \in BOOLEAN
  /\ newvt = FALSE /\ pending = {} /\ batch = << >> /\ phase = "start"
  /\ current = FALSE /\ window = FALSE
  /\ keymap = "original" /\ keyboard = "original" /\ palette = "original"
  /\ overtaken = FALSE

-----------------------------------------------------------------------------
(* The kernel and the user.                                                *)

Alive == phase # "over"

\* Another console is asked for: FbTerm is asked first, if it still runs.
LeaveConsole ==
  /\ front
  /\ IF Alive
     THEN newvt' = TRUE /\ pending' = pending \cup {USR1} /\ UNCHANGED front
     ELSE front' = FALSE /\ UNCHANGED <<newvt, pending>>
  /\ UNCHANGED <<batch, phase, current, window, console, overtaken>>

\* FbTerm's console is asked for: it is shown and FbTerm told.
ReturnToConsole ==
  /\ ~ front
  /\ front' = TRUE
  /\ pending' = IF Alive THEN pending \cup {USR2} ELSE pending
  /\ UNCHANGED <<newvt, batch, phase, current, window, console, overtaken>>

\* SIGTERM, SIGHUP, SIGALRM, SIGCHLD are sent.
Signal(s) ==
  /\ Alive /\ s \in Signals \ {USR1, USR2}
  /\ pending' = pending \cup {s}
  /\ UNCHANGED <<front, newvt, batch, phase, current, window, console, overtaken>>

-----------------------------------------------------------------------------
(* FbTerm.                                                                 *)

\* VT_RELDISP: the switch the kernel waits for is done.
RelDisp ==
  /\ newvt' = FALSE
  /\ front' = (front /\ ~ newvt)

\* TtyInput::switchVc: the keymap is set and put back each time, keyboard and
\* terminal are set once and stay so: they belong to this console.
KeyboardSwitchVc(enter) ==
  /\ keymap' = IF enter THEN "ours" ELSE "original"
  /\ keyboard' = IF enter THEN "raw" ELSE keyboard

\* Screen::switchVc and, when there is a window to draw, its colours
\* (setupPalette).
ScreenSwitchVc(enter, drawn) ==
  palette' = IF enter THEN (IF drawn THEN "ours" ELSE palette) ELSE "original"

\* Slip: nothing is answered by a process that has not entered.
LeaveIfEntered ==
  /\ current' = FALSE
  /\ KeyboardSwitchVc(FALSE) /\ ScreenSwitchVc(FALSE, window)
  /\ IF current THEN RelDisp ELSE UNCHANGED <<front, newvt>>
  /\ UNCHANGED window

\* Slip: the screen is left before the window, whose switchVt sets the palette.
LeaveScreenFirst ==
  /\ current' = FALSE
  /\ KeyboardSwitchVc(FALSE)
  /\ palette' = IF current /\ window THEN "ours" ELSE "original"
  /\ RelDisp
  /\ UNCHANGED window

\* SIGUSR1: manager, screen and keyboard give up the console, which is then
\* released.
Leave ==
  /\ current' = FALSE
  /\ KeyboardSwitchVc(FALSE) /\ ScreenSwitchVc(FALSE, window)
  /\ RelDisp
  /\ UNCHANGED window

\* SIGUSR2: keyboard, screen and manager take it.  The palette is known once
\* there is a window.
Enter ==
  /\ KeyboardSwitchVc(TRUE) /\ ScreenSwitchVc(TRUE, window)
  /\ current' = TRUE
  /\ UNCHANGED <<front, newvt, window>>

\* Slip: started in the foreground, FbTerm waits for a signal to enter.
RunWaiting ==
  /\ phase = "start"
  /\ phase' = "running"
  /\ window' = TRUE
  /\ UNCHANGED <<front, newvt, pending, batch, current, console, overtaken>>

\* Slip: FbTerm enters without asking whether its console is shown.
RunAnyway ==
  /\ phase = "start"
  /\ phase' = "running"
  /\ window' = TRUE
  /\ KeyboardSwitchVc(TRUE) /\ ScreenSwitchVc(TRUE, window') /\ current' = TRUE
  /\ UNCHANGED <<front, newvt, pending, batch, overtaken>>

\* run(): enter if the console is shown, then create the first window.
Run ==
  /\ phase = "start"
  /\ phase' = "running"
  /\ window' = TRUE
  /\ IF front
     THEN KeyboardSwitchVc(TRUE) /\ ScreenSwitchVc(TRUE, window') /\ current' = TRUE
     ELSE UNCHANGED <<console, current>>
  /\ UNCHANGED <<front, newvt, pending, batch, overtaken>>

\* The members of S, lowest first.
InOrder(S) ==
  {q \in [1 .. Cardinality(S) -> S] :
     /\ \A i, j \in DOMAIN q : i < j => q[i] < q[j]
     /\ \A s \in S : \E i \in DOMAIN q : q[i] = s}

\* SignalIo::readyRead: one read returns every pending signal, in order.
ReadSignals ==
  /\ phase = "running" /\ batch = << >> /\ pending # {}
  /\ batch' \in InOrder(pending)
  /\ pending' = {}
  /\ UNCHANGED <<front, newvt, phase, current, window, console, overtaken>>

\* processSignal for the next of them.  SIGALRM and SIGCHLD concern windows.
ProcessSignal ==
  /\ batch # << >>
  /\ batch' = Tail(batch)
  /\ \/ Head(batch) = USR1 /\ Leave /\ UNCHANGED phase
     \/ Head(batch) = USR2 /\ Enter /\ UNCHANGED phase
     \/ /\ Head(batch) \in {1, SIGTERM}
        /\ phase' = "leaving"
        /\ UNCHANGED <<front, newvt, current, window, console>>
     \/ /\ Head(batch) \notin {1, USR1, USR2, SIGTERM}
        /\ UNCHANGED <<front, newvt, phase, current, window, console>>
  /\ overtaken' = IF Head(batch) = USR1 THEN (\E i \in 2 .. Len(batch) : batch[i] = USR2) ELSE overtaken
  /\ UNCHANGED pending

\* CTRL_ALT_E, or the last window closes: FbTerm::exit.
Exit ==
  /\ phase = "running" /\ batch = << >>
  /\ phase' = "leaving"
  /\ UNCHANGED <<front, newvt, pending, batch, current, window, console, overtaken>>

\* End of run() and the destructors: if the console is shown it is left as for
\* SIGUSR1; the keyboard is put back in any case, if it was ever changed.  The
\* kernel takes a console whose process is gone for itself.
Quit ==
  /\ phase = "leaving" /\ batch = << >>
  /\ phase' = "over"
  /\ keymap' = "original" /\ keyboard' = "original" /\ newvt' = FALSE
  /\ IF front
     THEN front' = ~ newvt /\ palette' = "original"
     ELSE UNCHANGED <<front, palette>>
  /\ current' = FALSE /\ pending' = {}
  /\ UNCHANGED <<batch, window, overtaken>>

Next ==
  \/ LeaveConsole \/ ReturnToConsole
  \/ \E s \in Signals : Signal(s)
  \/ Run \/ ReadSignals \/ ProcessSignal \/ Exit \/ Quit

\* The process runs when it has something to do.
Fairness == WF_vars(Run) /\ WF_vars(ReadSignals) /\ WF_vars(ProcessSignal) /\ WF_vars(Quit)

Spec == Init /\ [][Next]_vars /\ Fairness

-----------------------------------------------------------------------------
(* Properties.                                                             *)

\* Every variable has its type.
TypeOK ==
  /\ front \in BOOLEAN /\ newvt \in BOOLEAN /\ current \in BOOLEAN /\ window \in BOOLEAN
  /\ pending \subseteq Signals /\ batch \in Seq(Signals)
  /\ phase \in {"start", "running", "leaving", "over"}
  /\ keymap \in {"original", "ours"} /\ keyboard \in {"original", "raw"}
  /\ palette \in {"original", "ours"} /\ overtaken \in BOOLEAN

\* The kernel's request is answered: the user can always leave FbTerm's console,
\* also before FbTerm has entered it (processSignal, VT_RELDISP).
RequestsGranted == newvt ~> ~ newvt

\* Shown, the console is entered, unless it is left again or FbTerm ends.
EntersInFront == front ~> (current \/ ~ front \/ ~ Alive)

\* Whether FbTerm lets go of the console in this step.
HandsOver == Alive /\ front /\ (~ front' \/ phase' = "over")

\* The console is handed over as it was found, the colours of the screen and
\* the keymap, which all consoles share; also when FbTerm ends in front.
HandedOverClean ==
  [][HandsOver => ~ current' /\ keymap' = "original" /\ palette' = "original"]_vars

\* In the background FbTerm holds nothing and draws nothing, from its start
\* ("fixed a clearing screen issue on startup even in inactive tty", ChangeLog)
\* on.  Not so when the user returns and leaves again before FbTerm has read
\* SIGUSR2: SIGUSR1 is read first, and FbTerm enters after it has left.
HeldOnlyInFront ==
  ~ front /\ ~ overtaken => ~ current /\ keymap = "original" /\ palette = "original"
=============================================================================
