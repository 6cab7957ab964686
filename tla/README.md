# A TLA+ model of FbTerm

FbTerm (`src/`) is a terminal emulator for the Linux frame buffer console: up to
ten windows, each with a shell program on a pseudo terminal, an optional input
method program, its own scrolling and font rendering, and a dialogue with the
kernel's virtual console switch. It is one process with one thread and one event
loop. What makes it hard is not parallelism inside it, but the order in which
signals, keys, output and messages of other processes reach that loop, what a
handler leaves behind for the next one, and work that is put off (deferred
scrolling, messages put aside, signals that coalesce).

Paths below are relative to the repository; `src/` in them is its source
directory.

## 1. Inventory

| Component | State it keeps | Operations | Talks to | Hard | Correct when |
|---|---|---|---|---|---|
| `FbTerm` (`src/fbterm.cpp`) | `mInit`, `mRun`, blocked signals | `run`, `processSignal`, `exit`, `initChildProcess` | kernel consoles (`VT_PROCESS`, SIGUSR1/2, `VT_RELDISP`), window manager, keyboard, screen | the signal descriptor returns signals by number, not by age; they coalesce | the user can always leave; the console is handed over clean |
| `FbShellManager` (`src/fbshellman.cpp`) | `mShellList`, `mShellCount`, `mCurShell`, `mActiveShell`, `mVcCurrent` | `createShell`, `deleteShell`, `shellExited`, `nextShell`, `prevShell`, `switchShell`, `switchVc`, `historyScroll`, `redraw`, `childProcessExited` | windows, `FbTerm::exit` | three reasons to close a window, addresses used again | slots, count, current and active window agree |
| `FbShell` (`src/fbshell.cpp`) | palette, the drawn cursor, the drawn pointer, `mImProxy` | `switchVt`, `modeChanged`, `request`, `drawCursor`, `updateCursor`, `mouseInput`, `switchCodec`, `toggleIm`, `createIm`, `killIm` | console (key modes, TIOCCONS, timer), screen, `ImProxy` | the console holds the active window's state; each mode has its own path to it; cursor and pointer are drawn over text by several handlers | the console is always that of the active window; one cursor, at most one pointer |
| `VTerm`, screen and history (`src/lib/vterm.cpp`, `vterm_action.cpp`) | text, `linenumbers`, dirty ranges, `pending_scroll`, history ring, margins, cursor | scrolling, editing, erasing, `update`, `expose`, `history_scroll`, `resize` | `FbShell` draws and copies | scrolls only renumber lines; the display follows later, in one copy; a character may have two columns | the display shows what the program wrote |
| `VTerm`, parser (`vterm_states.cpp`, `input`) | `esc_state`, `cur_char`, `utf8_count`, `npar`, `param`, modes, character sets | `input`, `do_control_char`, the tables | the actions | UTF-8 and sequences share variables; control codes occur within both | characters and parameters are those written |
| `FbIoDispatcher` (`src/fbio.cpp`) | `ioPipeMap`, epoll set | `addIoSource`, `removeIoSource`, `poll` | every `IoPipe` | an event of a batch may be about a descriptor that is closed, or used again | windows and descriptors match |
| `Shell` (`src/lib/shell.cpp`) | pid, pty, selection | `createShellProcess`, destructor, `waitChildProcessExit`, `startTextSelect`, `middleTextSelect`, `endTextSelect`, `autoTextSelect`, `mouseInput` | programs, SIGCHLD | `forkpty` fails; one SIGCHLD for many ends; the selection lives in the attributes of the text, and each step of a drag reverses only the difference | no window without an end; exactly the selection is reversed |
| `IoPipe` (`src/lib/io.cpp`) | `mFd`, `iconv` states, `mBufRead`, `mBufWrite` | `ready`, `write`, `translate`, `writeIo`, `setCodec` | kernel | incomplete characters between two reads; a blocking write in the thread that also reads | bytes neither lost nor doubled; no wait for ever |
| `TtyInput` (`src/input.cpp`) | saved modes, keymap, `mRawMode`, `key_down`, `shift_down` | `readyRead`, `processRawKeys`, `setRawMode`, `switchVc`, shortcuts | active window, window manager | a shortcut changes the window in the middle of a buffer; keys held over a switch | every key reaches one window, once; nobody believes a key is held for ever |
| `ImProxy` (`src/improxy.cpp`) | `mConnected`, `mActive`, wait type and state, windows | `toggleActive`, `switchVt`, `sendKey`, `changeCursorPos`, `waitImMessage`, `processMessage`, `setImWin` | server, keyboard, screen | FbTerm blocks for the server, the server for FbTerm, either may be gone | nobody waits for ever; each request has one answer |
| client library (`im/imapi.c`) | `pending_msg_buf`, `im_active` | `check_im_message`, `process_message`, `wait_message`, `set_im_window` | FbTerm | messages read while it waits are put aside | nothing is stranded |
| `keycode.c` | keymap, shift states | `init_keycode_state`, `keycode_to_keysym`, `update_term_mode` | server | as the keyboard | as the keyboard |
| `Mouse` (`src/mouse.cpp`) | a gpm connection, the last position | `ready` | active window | a drag goes on while output, keys and switches come | events land in the right cell |
| `Screen` (`src/screen.cpp`) | rotation, offsets, `mScrollEnable` | `move`, `eraseMargin`, `switchVc`, `setPalette`, `fillRect`, `drawText` | device | panning wraps around or starts over, in the direction the rotation gives it | a copy moves what it says, or is refused; margins stay clean |
| rendering (`screen_render.cpp`) | palette in force | blitting, `setPalette` | frame buffer | the palette is remembered by address | colours are those set |
| `FbDev`, `VesaDev` | saved palette, mapped memory | `setupPalette`, `setupOffset` | kernel, BIOS | palette saved and put back once | handed over as found |
| `Font` | glyph cache | `getGlyph` | freetype | none | - |
| `Config` | options | parse once | - | none | - |
| tables (`wcwidth.cpp`, `charsetmap.cpp`) | - | - | `VTerm` | which maps have glyphs for control codes | - |

How they interact: `FbIoDispatcher::poll` waits with `epoll_wait` and calls
`ready` of the pipes one by one. The pipes are the signal descriptor
(`FbTerm::processSignal`), the keyboard (`TtyInput::readyRead`, which calls the
window manager for shortcuts and the active window for keys), the mouse, the
windows' pseudo terminals (`VTerm::input`, which calls `FbShell` back to draw
and to change modes) and the sockets of input method servers
(`ImProxy::readyRead`). A handler runs to its end before the next one, with one
exception: `waitImMessage` polls again from inside a handler, for its own pipe
only.

The hazards that follow from this are listed, at their lines, in `PROJECT.json`;
the properties are aimed at them.

## 2. Plan

Order of work, the most important behaviour first:

1. `Shells`: windows, slots and the console. *Done, safety proved.*
2. `Terminal` (abstract) and `Scroll` (its algorithm). *Done; invariants and
   refinement proved.*
3. `EventLoop`: batches, descriptors and the end of programs. *Done, invariants
   proved.*
4. `ImDialogue`: FbTerm, the library and the example server. *Done, invariants
   proved.*
5. `VtSwitch`: consoles and signals. *Done, safety proved.*
6. `KeyInput`: the keyboard in both modes. *Done, safety proved.*
7. `VTermParser`: bytes to characters and actions. *Done, safety proved.*
8. `Picture` and `Cells`: the columns of a row, what of them is drawn, and the
   cursor over it. *Done, safety proved.*
9. `Pointing`: mouse pointer and selection. *Done, safety proved.*
10. `ScreenPan`: moving rows by panning the video memory. *Done, safety proved.*
11. `IoPipe`: bytes, conversions and blocking writes. *Done, invariants proved.*

Left for later:

* `ImWindows`: the drawing messages `ImProxy` stores, the rectangles of its
  windows and what it redraws when they go.
* Compositions: `ImDialogue` with `KeyInput` (who gets a key while FbTerm
  waits), `Scroll` with `ScreenPan` (the three outcomes of a copy, which
  `Scroll` assumes, from the offsets that give them).

## 3. Modules and the code

`PROJECT.json` gives the lines for every definition. Common to all modules: an
action is one handler, or one step of a loop within it where something else can
happen in between; the names are those of the code; definitions headed `Slip:`
are plausible mistakes, one for each property, which no run uses: with one in
place of the definition it varies, the property named for it fails. A variable
marked `(history)` only records what has happened; no guard reads it but those
named as a bound (`Followed` in `Cells`, `Events` in `Pointing`).

### Shells (`FbShellManager`, `FbShell`, `Screen::setPalette`)

State: the ten slots, current and active window, the count, whether the console
is in front, and for every window address what `VTerm` and `FbShell` hold that
the console mirrors. `console` is that mirror: key modes, blink timer, TIOCCONS
and the palette, as the address in force and the colours on the display, which
are two things: the address is compared, the colours are seen. An address may be
given to a new window after `delete`. `again` (history) has the entries that a
window in front has set in its own palette while that was in force already.
`createShell`, `deleteShell`, the end of a program (`shellExited`),
`switchShell`/`nextShell`/`prevShell`, `switchVc`, `historyScroll` and what a
program can do to the console (`modeChanged`, `request`) are actions. `getIndex`
is the search of the source, direction and start included. Drawing is left out.

### Terminal, Scroll (`VTerm` at the grain of a line)

`Terminal` is what a program and a user may rely on: rows, a scrolling region,
the last `H` rows that left at the top, and a display that shows them whenever
no output is being processed and the window is active. `Scroll` is the
algorithm: lines that never move, `linenumbers`, the dirty marks,
`pending_scroll`, the history ring in the same memory, `update` at the end of
`input`, and `Screen::move`, which may do the copy, refuse, or start over at
another place of the video memory. `Scroll` implements `Terminal` by the mapping
at the end of the module: the screen is `text` through `linenumbers`, the
history is the ring read from its oldest line.

A line is one value of a small set, so that the columns, attributes and the
cursor's column are abstracted; `WideChars` adds the one operation of a line's
end that matters to the display, see section 7. The size changes in the
constructor only, as in the program, which resizes a window before its program
runs.

### LoopState, EventLoop (`FbIoDispatcher`, `Shell`, SIGCHLD)

A new pseudo terminal gets the lowest free descriptor, as from the kernel.
`EpollWait` takes all ready sources in any order; `Handle` looks the pipe up by
number at its turn, as the code does. The loop is left when the last window
closes, by CTRL_ALT_E (`exit` among the keys) or by SIGTERM or SIGHUP
(`Terminate`), with the rest of the batch still handled. A program may leave
others behind on its terminal (`Holders`), so that SIGCHLD and hang-up are two
events. At the end of the loop every window with a descriptor is deleted. `Fd`,
the descriptors pseudo terminals can get, is any finite set of numbers other
than 0 and those of the signal descriptor and the keyboard (`FdAssumption`): the
dispatcher takes none from `NR_FDS` (32) on. `LoopState` has the state and what
is promised of it, `EventLoop` what happens.

### ImDialogue (`ImProxy`, `imapi.c`, the callbacks of `example.c`)

Two processes and two message queues. A read returns any non-empty beginning of
what was written. `waitImMessage` is a state of FbTerm (`awaiting`) in which
only its socket and the two seconds count; the server's `wait_message` is a
state as well. The server may die at any point; `KillIm` is FbTerm's shortcut.
FbTermInfo, TermMode, FillRect and DrawText change nothing of the dialogue and
are left out; messages split between two reads are, too. `late` records that a
wait for AckHideUI ran into its timeout. `Ids` lists the indices of the windows
the server redraws on a switch, each once (`IdsAssumption`).

### VtSwitch (`FbTerm::run`, `processSignal`, `TtyInput::switchVc`, the palette)

The kernel's console switch is external: `LeaveConsole` sends SIGUSR1 and waits
for `VT_RELDISP`; `ReturnToConsole` shows the console and sends SIGUSR2.
`ReadSignals` takes the pending signals in ascending order, as a signalfd
returns them; `ProcessSignal` is one signal of the batch. `Quit` is the end of
`run` with the destructors.

### KeyInput (`TtyInput`, and what `ImProxy` does with keys)

The terminal's queue, the buffer read and the loop over it, one key per step,
with `start` as the first key not yet passed on. Passing on goes to the server
or to the program as `ImProxy` decides. Shortcuts create, delete and change
windows and toggle the input method. One modifier stands for Ctrl-Alt and Ctrl;
key codes above 127, which take three bytes, are left out.

### VTermParser (`input`, `do_control_char`, the tables, parameter actions)

One action feeds one byte. Tables are sets of bytes per state. The variables are
the code's own; `part`, `seen` and `out` record the bytes of a character, those
of a sequence and what the last byte led to. Character maps are reduced to
whether they have glyphs for control codes, since this decides whether a control
code is obeyed.

### Picture, RowState, Cells (`do_normal_char`, `shift_text`, `clear_area`, `expose`, the cursor)

`Picture` is what the display gets of a row: `expose` extends the range it is
asked for by the halves it would cut, and the characters are drawn one behind
the other, each as wide as it is. `Cells` is one row under everything a program
can do to its columns: printing in replace and in insert mode, wrapping, ICH,
DCH, ECH, EL, ED and RIS, modes of the cursor, and the dirty range that
`changed_line` keeps. `BeginInput` and `EndInput` are the two ends of `input`,
with nothing else in between; a read has at most `MaxOps` characters and
sequences. The cursor is the record `mCursor`; it is drawn at the end of
`input`, by SIGALRM (`Blink`) and by a switch of windows. `tick` is a SIGALRM
that was pending when the timer was stopped. `torn`, `late` and `left` (history)
record where the display may differ from the row. The row is the last one and is
not scrolled (the region ends above it); `Scroll` has the other rows. `Fits`,
`PrintsAt` and `MakeRoom` name the three decisions of `do_normal_char`. The
state `hung` is its loop that does not end, see section 7. `RowState` has the
variables and what is promised about them, `Cells` how they change: so a module
of proofs can extend the promises of one component and instance its steps,
beside those of another with operators of the same names (`Init`, `Reset`,
`Painted`).

### Pointing (`Shell`'s selection, `FbShell::mouseInput`, `clearMousePointer`)

A window with two rows and a line of history, the attribute `reverse` of every
cell, the selection and the pointer. `Drag` is a movement with the left button;
`Extended` is `middleTextSelect`: where the end stays on its side of the start,
only the cells between the old end and the new one are reversed, one or two
cells off, in `u32` arithmetic; where it turns, all is taken back and done anew.
`KeyInput`, `Output`, `HistoryScroll`, `Activate` and `Deactivate` are the other
handlers, as far as selection, pointer and display are concerned.
`HistoryScroll` and `Output` have the outcomes of `Screen::move`. The words of
`autoTextSelect` are found by the code's two loops, which stop short of the last
column they could look at.

### ScreenPan (`Screen::move`, `eraseMargin`, `switchVc`, the offsets)

Video memory line by line along the direction of scrolling. The kind of device
(`redraw`, `pan`, `wrap`) and the direction of the lines (`back`, for two of the
four rotations) are chosen in `Init` and kept. `Place` is `rotateRect` with
`adjustOffset`: where line `y` of the screen is in memory. `Scroll` is
`Screen::move` with what its caller draws afterwards, in the order of the code:
the new offset, the rows outside the region, the margins, then the rows that
`move` did not bring. `edge` is the memory right of the text.

### PipeState, IoPipe (`ready`, `translate`, `write`, `writeIo`, `setCodec`)

Both directions between a window and its program. `Ready` is `ready(true)`;
`Translate` is one round of the loop in `translate`, for either direction;
`WriteIo` one round of the loop in `writeIo`: a partial write, a sleep, or the
end of the retries. All are steps of the one thread, so that nothing is read
while `writeIo` waits; between the steps only the program may act. `iconv` is
external, for a codec with characters of two bytes that are UTF-8 of two bytes
as well; it takes the longest beginning it can convert and reports why it
stopped. `due` is the reference: what the bytes mean as one stream, however it is
cut. Single bytes a program writes are requests (`q`), which the terminal
answers through `write` in the middle of `readyRead`. `PipeState` has the
variables and the two invariants, as `RowState` does for `Cells`.

## 4. Runs

| Run | Instance | States | What it shows |
|---|---|---|---|
| `shells_windows` | 3 slots, 3 addresses (symmetric), one key mode, two reasons for a hidden cursor, two colours | 321,690 | current and active window agree; windows keep their slots; focus falls back; the console is the active window's, colours included |
| `scroll` | 2 rows, 3 lines of history, `u16` of 5 | 175,056 | rows and ring share no line with every line number in use; after any mix of scrolls, margins, edits and refused copies the display is right; `Scroll` implements `Terminal`, history and going back in it included |
| `loop_windows` | 3 windows, 3 descriptors, the shortcuts, SIGTERM | 367,186 | descriptors match windows; hung up windows close; no program outlives the loop, however it ends |
| `im_dialogue` | 4 events, 2 windows, server that polls | 74,967 | one answer for every request, a switch is seen before it is done, nobody waits for ever, raw mode follows, nothing stranded |
| `im_select` | the same, with a server that waits in `select` | violation | `NothingStranded` fails: a message put aside is left there (section 7) |
| `vt_switch` | signals 1, 10, 12, 14, 15 | 5,806 | requests granted, clean hand-over, nothing held in the background |
| `keys` | 2 windows, 3 keys, 3 events queued | 657,209 | keys passed on once, to the active window, releases after presses |
| `parser` | 22 bytes | 129,004 | characters and parameters are those written, with no byte lost; ESC is heard |
| `cells` | 3 columns, 2 characters or sequences a read, both cursor shapes | 1,776,899 | the display shows the row, with one cursor, at `cursor_x` |
| `pointing` | 2 rows of 3 columns, 1 line of history | 211,580 | exactly the selection is reversed and kept; at most one pointer is left |
| `screen_pan` | 5 rows of 2 lines, 1 line of margin, 3 spare lines | 12,032 | the display stays in the memory, and shows every line and clean margins |
| `io_pipe` | buffers of 3 bytes, a kernel that keeps 2, 1 retry | 90,384 | characters whole and in order in both directions; no deadlock with the program |

The proofs of section 6 remove the bounds for what they are about, every
invariant and action property of the passing runs and the refinement. Why the
bounds are enough for the rest, and why what is proved was worth checking with
them:

* `Shells`: with three slots the search of `getIndex` wraps around, meets used
  and free slots in every pattern of predecessor, self and successor, and runs
  out; with as many addresses as slots every address is used again. The symmetric
  set is used for invariants and action properties only. Two colours let a
  reused address name another palette than before.
* `Scroll`: two rows are a region of the whole screen, one of either row, and
  margins upside down; `MaxPending` = 2 lets `pending_scroll` reach the region's
  height and more. The ring of three lines, longer than the screen, is empty,
  partly filled, full and wrapped, and `U16` = `N + H` leaves no line number
  unused: one line more and `LinesApart` fails. What needs more rows, such as a
  region with an inside, is covered by the theorems, for every `N` and `H`
  (`CleanRowsShownAlways`, `RefinesTerminal`).
* `EventLoop`: three windows and three descriptors allow one that closes, one
  that opens on the same descriptor and one that is not concerned, in one batch.
  SIGTERM stands for SIGHUP too, which is handled the same way.
* `ImDialogue`: `MaxOps` = 4 is a start, a switch away during it, a return and
  one more event; two windows let a second request follow an answer that is
  late.
* `KeyInput`: `MaxQueue` = 3 holds a modifier, a shortcut and a key.
* `VTermParser`: `NPar` = 3 and `MaxSeen` = 3 reach the last parameter and go
  one beyond; `PaletteLen` is 2 instead of 7; `MaxParam` bounds the digits. The
  bytes have one of each kind of control code, one of each way to change the
  decoding, and first and continuation bytes of characters that are right,
  overlong, surrogates and broken off. The instance leaves out ESC 7, so that
  `saved` keeps its initial value, and ESC #.
* `Cells`: in three columns a double width character fits at either end and
  overlaps another by each half; two operations a read let one tear a character
  and the next mend it, or a hidden cursor be shown again, before anything is
  drawn. States build up over any number of reads.
* `Pointing`: two rows make a drag cross the end of a row, over and back; three
  columns hold a double width character and another one, in both orders. `U32`
  (64) need only be above twice the number of positions (`U32Assumption`): then
  a position below 0 wraps to one that is none. One line of history is one view
  besides the screen.
* `ScreenPan`: five rows are what the decision of `move` needs to accept some
  regions and refuse others; three spare lines are no multiple of the font's
  two, so that panning ends in the middle of a row, in either direction.
* `IoPipe`: a buffer of three holds a carried byte and a read that ends in the
  middle of the next character, and overflows (`E2BIG`) in a conversion. The
  kernel keeps `Room` = 2 bytes instead of thousands and `Retries` is 1 instead
  of 5: what matters is that a chunk can be longer than the room, and that there
  is a retry and an end of retries.

Deadlock is not checked where the system may stop: FbTerm ends (`loop_windows`,
`vt_switch`), or the bound of events is used up (`im_dialogue`, `im_select`,
`keys`). It is checked in the others. Two states of `Cells` and `Pointing` in
which nothing more is followed stutter by a disjunct of their own.

Properties with a condition. Some hold only where the code is not exposed to a
hazard that it does not handle, and say so; section 7 says what happens
otherwise.

* `ConsoleFollowsActive` but for the colours of entries that the window in front
  has set in its own palette while that was in force (`again`).
* `HangUpsAreFresh` but for windows made since the last `epoll_wait`.
* `HeldOnlyInFront` as long as no SIGUSR1 has overtaken an older SIGUSR2.
* `SwitchIsSeen` as long as no wait for this server has timed out (`late`).
* `KeysReachActive` and `ReleasesFollowPresses` while a read returns one key.
* `NothingStranded` for servers that wait in `read` alone (`~ Select`).
* `ShownAsWritten` with UTF-8 on, outside of sequences and with `display_ctrl`
  off; `EscapeHeard` where control codes are obeyed; `ArgumentsAsWritten` for
  `ESC [` and `ESC ] P`, not for CSI as one byte (0x9B).
* `RowShown` and `OneCursor` until a character was drawn without one of its
  halves (`torn`) or a late signal drew the cursor (`late`), and again after the
  window has been painted anew; and but for the last column from when a double
  width character was wrapped out of it until it is painted (`LeftBehind`).
* `OnlySelectionReversed` and `TextShown` until the drag leaves the screen, or a
  selection is undone in another view, or a pointer is moved with its row
  (`lost`). `KeepsWhatIsShown` for a selection that is still shown.
* `KeysReachProgram` states what is lost: the rest of what `writeIo` gives up,
  and a character given to `write` in two pieces.

## 5. Fairness

* `EventLoop`: weak fairness of `EpollWait`, `Handle` and `Finish`: the one
  thread is scheduled by the kernel and blocks nowhere else. Nothing is assumed
  of programs and of the user.
* `VtSwitch`: weak fairness of `Run`, `ReadSignals`, `ProcessSignal` and `Quit`,
  for the same reason. That the user switches, or FbTerm exits, is never
  assumed.
* `ImDialogue`: weak fairness of FbTerm's handlers, of the end of a wait after
  two seconds (`select` has that timeout), of the hang-up's arrival, and of the
  library's `WaitMessage`, a loop of blocking reads. The server's callbacks are
  not fair: a server may be frozen, and FbTerm has to go on (`FbTermGoesOn`).
* `IoPipe`: weak fairness of FbTerm's steps; strong fairness of `Ready`, since
  every `epoll_wait` reports every pipe that can be read, so that a program that
  has written is not passed over again and again for the keyboard's sake. The
  program is not fair: it may stop reading for ever, and what it has written is
  still read (`OutputIsRead`), because the retries of `writeIo` are counted.
* The other modules have safety properties only.

## 6. Proofs

All theorems hold for every value of the constants that the named assumptions of
the modules allow; the few that need more say so. Each invariant a run checks and
each action property below is proved from an inductive invariant, checked by TLC
before it was proved.

`ShellsProofs`, for any number of slots at least one, any set of addresses,
modes, reasons and colours, from the named assumptions of `Shells` (addresses
differ from null and from the default palette; there is a colour):

    Inv == TypeOK /\ ActiveIsCurrent /\ OneSlotEach /\ ConsoleFollowsActive /\ CountIsOccupied

is inductive, and gives the theorems `TypeCorrect`, `ActiveIsCurrentAlways`,
`ConsoleFollowsActiveAlways` and `CountIsOccupiedAlways`. None of the parts is
inductive alone. `ConsoleFollowsActive` needs to know which window is active,
hence `ActiveIsCurrent`; closing a window must not leave it in another slot,
hence `OneSlotEach`; and that the address in force is the active window's or the
default one means that a window that comes to the front has its palette set,
never taken for the one in force (`PaletteHonest`). `OneSlotEach` also makes
`CountIsOccupied` go down by exactly one; and `getIndex` has to find a slot if
there is one, which is a lemma (`GetIndexFinds`) that rests on the least element
of a non-empty set of naturals. The lemmas on `Leave`, `Enter` and `Activate`
follow `switchVt` of the old and of the new window. The two action properties,
`WindowsKeepSlotsAlways` and `FocusFallsBackAlways`, need more of `getIndex`:
that a search backwards stops at the nearest used slot, around the end, and at
its start only if there is no other (`PrevNearest`), which comes from the
distance of a probe (`ProbeBack`, `ProbeDistance`). `SlotStep` sorts all actions
by what they do to the slots: nothing, fill a free one, or `shellExited`.

`ScrollProofs`, for any size of screen and history. In
three layers:

* `TypeInv == TypeOK /\ LinesInMemory /\ SaveInRing /\ ViewInHistory` holds
  whatever wraps (`TypeCorrect`).
* `LinesApartAlways`: rows and ring share no line, if `LinesFit`, that is
  `H + N <= U16`. The code does not check this: with `history-lines` near 65535
  it is false, and so is the theorem (section 7). The argument is that the loop
  of `scroll_region` takes every line of the region once (`TakeYPermutes`).
* `CleanRowsShownAlways`, if `LinesFit` and no wide character is put off the
  last column (`~ WideChars`; with them it is false, section 7). While output is
  processed the view is on the screen and clean rows are where `update` looks
  for them; otherwise nothing is owed and the display is right. Neither half is
  inductive alone: `EndInput` makes the second from the first, the next
  `BeginInput` the first from the second.

From the three, `RefinesTerminal`: `Spec => T!TSpec` (`ImplementsTerminal`)
under the same two hypotheses. The hard part is the history. The ring writes `n`
lines at `save`, keeping the last `H` if `n` is more; the abstract history
appends `n` rows and keeps its last `H`. `RecordedAt` and `RecordedNotAt` say
which line a place of the ring holds after that, and the lemmas on positions
(`ModRound`, `ModSum`, `SmallMultiple`) that a ring read from its oldest line is
the same sequence, whether it was partly filled, becomes full or was full.

`FbTermProofs` has the proofs of two modules, both about the main loop.
`VtSwitch`, for every finite set of signals with SIGUSR1, SIGUSR2 and SIGTERM:
`TypeCorrect`, `HeldOnlyInFrontAlways` and `HandedOverCleanAlways`, from

    Inv == TypeOK /\ SwitchInv /\ HeldOnlyInFront

`SwitchInv` says what `HeldOnlyInFront` cannot: a batch is in ascending order;
the kernel waits only while the console is in front; while it waits, or FbTerm
is in the background, a pending SIGUSR2 is accompanied by a pending SIGUSR1
(which will be read first and makes the difference between order and
overtaking); a SIGUSR2 in the batch in the background is either overtaken
already or has SIGUSR1 before it; and nothing is left at the end.

`EventLoop` (`Loop` in the module), for any windows and every finite set of
descriptors: `LoopTypeCorrect`, `PipesMatchAlways` and `HangUpsAreFreshAlways`,
from

    LoopInv == Loop!TypeOK /\ PipesMatch /\ BatchIsFresh

`HangUpsAreFresh` is about the next event only. `BatchIsFresh` says the same of
every event of the batch still to come, since closing a window for one of them
changes what the later ones are about. That there is a lowest free descriptor
needs numbers, not only a finite set (`LowestFreeIsFree`).

`ImDialogueProofs`, for any list of distinct windows, any number of events, in
both modes of input and for both kinds of server. `RawModeFollowsAlways`, from

    KeyboardInv == types of FbTerm's state /\ Nested /\ Waits /\ RawModeFollows

`RawModeFollows` says nothing during a wait, so that its end would have nothing
to go by: `Waits` says how each wait finds the keyboard and the server (waiting
for Connect, the server is not on and the keyboard as it was; waiting for
AckHideUI, the server is on but the keyboard given up already). `Nested` (on
implies connected implies existing) is what the death of a server needs. No step
of this proof looks at the messages: it holds for servers that answer late,
twice or never, and at any point die. Those about the messages do, from

    WireInv == WireType /\ Gone /\ Working /\ ConnectFirst /\ OneAnswerEach /\ OneHideUI /\ Awake

which counts messages of a type in both directions of the socket, in the buffer
being worked off, among what the running callback has still to send and among
those put aside; lemmas say what sending, a read of any length, and taking one
out of the middle do to such a count. `OneAnswerEachAlways` is one of its parts,
`SwitchIsSeenAlways` follows from `OneHideUI`: while FbTerm waits there is
exactly one HideUI or AckHideUI, so that with the answer here no request is
left, unless a wait had timed out. `Gone` clears the counts when the server
dies; `ConnectFirst` is why the wait for Connect skips nothing.
`NothingStrandedAlways` has the hypothesis `~ Select`, with which it is false
(section 7): `Awake` says that messages put aside while stored ones were
processed have FbTerm pinged, so that the read in which the server then sleeps
gets an answer. `CountCoversWindowsAlways` is by an invariant of its own.

`ScreenPanProofs`, for every number of rows, height of font, margin, spare
memory, kind of device and direction. `InMemoryAlways` comes from the invariant
that the offset is one the device accepts. `OffsetBounds` shows it of every
panning, by any distance; `PlacesApart` that from such an offset no line leaves
the memory and no two lines share a place, wrap-around included.
`DisplayRightAlways` builds on it: since places are apart, what a row draws is
at its own lines and nowhere else (`DrawnAt`, `RowsDrawnAt`), the margin is
erased where the new offset has it (`BottomErasedAt`), and a line that panning
brought from elsewhere is at its new place already (`PannedPlace`).

`InputProofs` has two modules' proofs, of what goes into a window's program and
comes out of it. `KeyInput`, for any windows and keys and a queue of any length:

    Inv == KeyType /\ ModeInv /\ HeldInv

`ModeInv` says when key codes are read, and that what is queued was struck in
that mode. `HeldInv` is about the keys still to be read: the last report of each
key tells how it is, and a key FbTerm takes to be down that is not held has its
release among them. So with all read, a key that is down is held
(`DownIsHeldAlways`), through every change of mode and window with keys held and
unread. `KeysDownAreHeldAlways` adds the count of modifiers, if the modifier has
one key (`OneKey`): with two the count of the code is wrong, as section 7 says.
`KeysReachActiveAlways` is the action property that keys go to the active window
while a read returns one of them. Its invariant says that the window looked up
before the loop is still active as long as a key is not passed on.

The other three are about sequences of keys, as folds. A fold is a choice, from
which nothing follows until it is shown that there is something to choose:
`FoldUnique` and the existence of the fold over each beginning give that one more
element is one more step (`FoldAppend`). Induction over sequences is that of the
naturals, in the form that a set of lengths without a least element is empty
(`AllSequences` states it once, for the bytes of the pipe). With them:

* `KeysPassedOnceAlways`, from `PassInv`: what of the buffer has to be passed on
  before `start` is what was passed on.
* `ReleasesFollowPressesAlways` and `BackgroundHoldsNothingAlways`, from
  `SeesInv`, whose main part `SeenInv` relates two beliefs: the active window's
  server has seen pressed what FbTerm takes to be down (but for the key being
  looked at), and the servers in the background have seen nothing pressed. The
  releases that `setRawMode` makes up, one for each key down and in any order,
  take a server from the one to the other (`ReleasesSeen`, from
  `FollowReleases`). `BackgroundHoldsNothing` is stated for servers that ask for
  key codes (`RawInput`); others get characters, which are not held.

`IoPipe` (`Pipe` in the module), for every size of the buffers above one, every
room in the kernel, number of retries and set of chunks that the assumptions of
`IoPipe` allow, and a codec that changes at any moment:

    PipeInv == PipeTypes /\ WriteOwes(...) /\ ReadOwes(...)

says in each direction that what is owed, `due`, is the bytes held, converted,
and then what the bytes not yet converted mean. It gives `ReadsAsSentAlways` and
`KeysReachProgramAlways`. The argument is about cutting a stream: the meaning of
two pieces is that of the first and then of the second (`MeantConcat`), and is
put behind what was there before (`MeantBefore`). `ScannedCut` says that `iconv`
converts rightly what it takes, and why it stops where it does; from it
`TurnIconv` follows, that a round of `translate`, whichever of its four outcomes
it has, leaves the meaning of the whole unchanged.

`PictureProofs` has two modules' proofs as well, of what a window shows.
`Pointing`, for every size of window and history, and every set of lines in which
no half of a character is without the other:

    IInv == TypeInv /\ SelectionInv /\ ReversedInv /\ ShownInv

`SelectionInv` says that ends shown as selected are positions of the screen;
`ReversedInv` is `OnlySelectionReversed` cell by cell; `ShownInv` has the display
show each cell with its reversal, but for a pointer over one character. The
theorems are `OnlySelectionReversedAlways`, `TextShownAlways` and
`KeepsWhatIsShownAlways`. Most of the work is in `middleTextSelect`: that the
cells it reverses are exactly those in which the old and the new selection
differ, with each end moved off the halves of characters by one or two cells, in
`u32` (`U32Assumption` keeps what wraps apart from positions), and whether the
drag goes on, comes back or turns. That rests on positions being rows and columns
(`Division`, `PositionCell`) and on the two halves of a character being side by
side in a row (`Halves`). For `KeepsWhatIsShown` the characters kept are counted
up to each position (`KeptIsSelected`).

`Cells` (`Row` in the module), for every width of at least two columns, every set
of characters, of cursor shapes, and every number of operations in a read:

    RowInv == RowTypes /\ FollowedInv /\ WholeInv /\ CursorInv /\ PendingInv /\ SettledInv

It has two halves, as that of `Scroll`. `PendingInv` holds while output is
processed: a column is marked as changed, or it is a blank left behind, or the
display has it right, and a mark of the old cursor on it will be painted over
since it is the other half of a character one half of which is marked.
`SettledInv` holds otherwise: the row is shown, and the marks on the display are
the cursor's (`RowShown` and `OneCursor`, cell by cell). `BeginInput` makes the
first from the second, `EndInput` the second from the first. Between them, every
operation is an edit in the sense of `Edited`: what it changes is marked
afterwards, except a last column left behind (`left`), and nothing marked is
forgotten (`ClearAreaEdits`, `ShiftTextEdits`, `PrintCharEdits`); `EditKeeps`
needs no more of them. `CursorInv` has the recorded cursor at the program's
position and over what is there, so that `Blink` draws what it drew before.
Three lemmas are about `expose`: in a row of whole characters (`WholeInv`, or
else the row is `torn`) each character is drawn where its cell is, as counting
the widths of those before it shows (`DrawnHere`); the range is extended to
whole characters and stays in the row (`ExposedEnds`); so that what is painted
in a column is what the row has there, and nothing is painted twice
(`DrawnRight`). They give `RowShownAlways` and `OneCursorAlways`.

`ParserProofs`, for every number of parameters and digits of a colour, and any
set of bytes, that the assumptions of `VTermParser` allow. `ShownAsWrittenAlways`
and `TypeCorrect` come from

    ParserInv == Types /\ PaletteInv /\ CharInv

`ShownAsWritten` is an action property about every byte fed: each character
shown for it is right (`Right`), and the bytes held back before it and the byte
itself are all accounted for (`NothingLost`), as a part of a character shown or
of one begun, or as a control code. So a byte that breaks a character off is not
lost with it. `CharInv` says what is known of a character that is not complete:
as many bytes are read as `npar` says, of those its first byte asks for; the
others are continuation bytes; and `cur_char` is what they come to so far
(`DenotedAppend`: one byte more is six bits more). `npar` counts these bytes
here and parameters in sequences, so `CharInv` also says that a character is
begun outside of sequences only; this, with `PaletteInv`, keeps it an index of
`param`. When the last byte is read, the comparison with `utf8_length_changes`
has to come to the same as one with the encoding (`CompleteRight`): `TwoBytes`
and `ThreeBytes` compute that a value in the range for its length is encoded by
just these bytes; longer characters are beyond U+FFFF and replaced; and what is
replaced is overlong, too large or no character (`CheckedIs`). A character
broken off has fewer bytes than an encoding that begins like it (`EncodedLead`,
`BrokenRight`).

`ArgumentsAsWrittenAlways` needs besides, of the bytes of the sequence so far,

    ArgInv == seen \in Seq(Bytes) /\ SquareInv /\ ColourInv

`SquareInv` has each parameter the number its field stands for, and `npar` the
field that is being read. The fields are cut out of the bytes by the semicolons
before each place (`Places`), so that one byte more is shown to be one digit more
of one field, or the beginning of the next unless it is the last, which takes all
that is left (`DigitCounts`, `SlotCounts`). That the code cuts a parameter to 16
bits at each digit, and the property at the end only, is `TimesTen`.
`EscapeHeardAlways` needs no invariant. Numbers and code points are folds; the
lemmas on them are those of `InputProofs`, repeated so that the module stands on
its own.

Only model-checked:

* Liveness: out of the prover's reach.
* The type invariants of the other modules, which are stated for the reader; the
  runs spend their time on what could be wrong. Those of `Shells`, `Scroll`,
  `EventLoop`, `VtSwitch` and `VTermParser` are proved (`TypeCorrect`), and so is
  that the count of windows is right (`CountIsOccupied`).

## 7. What the model shows of the code

Every property of the passing runs holds. What the code does where it does not
meet what its documents say, or what one would expect of it, is known and is
excluded by the condition of a property, by a constant or by the choice of what
is modelled, or shown by a run that fails (`im_select`); the list follows.

Against a document or a comment:

* A palette changed in place is not set. `Screen::setPalette` compares addresses
  (`screen_render.cpp:39`), and a window always passes its own palette: from the
  second `ESC [ 3 ; n ; r ; g ; b }` (`doc/fbterm.1.in:179`) on, colours do not
  reach the display until the window is switched away and back. `Shells` keeps
  the address in force and the colours on the display (`console`), and
  `ConsoleFollowsActive` compares both, but for the entries so changed (`again`).
* Messages put aside can be stranded (`im/imapi.c:264`; `ChangeLog:81` says it
  is fixed). `check_im_message` works off what was put aside, and then reads; if
  a callback for one of those sets a window, what arrives meanwhile is put aside
  again, and the ping that was to bring the server back is consumed by that
  read. A server that waits in `select` first, as `imapi.h` allows, then sleeps:
  `im_select`, which is `im_dialogue` with `Select = TRUE`, shows it: TLC finds
  `NothingStranded` violated. In a server without `select` nothing is stranded,
  but messages are processed out of order.
* Key codes reach a program (`improxy.cpp:131`). The input method is marked
  inactive before raw mode is ended, and the releases made up for the keys held
  go to the window's program, although `immessage.h:80` speaks of sending them
  to the server.
* ESC can be lost for good (`vterm.cpp:375`). Without UTF-8 and with a map that
  has a glyph for ESC, no control code is obeyed, contrary to the comment on
  `CTRL_ALWAYS` (`vterm.cpp:389`).

The display:

* In insert mode a character at column 0 never returns (`vterm.cpp:448`): the
  loop counts a `u16` down to 0 and tests that it is not less. `Cells` has that
  state (`hung`).
* A character of two columns that loses one of its halves to another character,
  a deletion or an erasure leaves the other half in the row; `expose` draws what
  follows a column off (`vterm.cpp:456`, `torn`).
* The blank put into the last column for a double width character is not marked
  as changed (`vterm.cpp:430`, `LeftBehind`; in `Scroll`, with
  `WideChars = TRUE`, the display is no longer right).
* A SIGALRM pending when the program hides the cursor draws it once more
  (`fbshell.cpp:404`, `late`).
* With `history-lines` near 65535, line numbers of 16 bits wrap (`LinesApart`
  needs `HistoryLines + Height <= 65536`).

The selection (`lost` in `Pointing`): dragged against the first or the last cell
of the screen, it reverses cells by positions that are none; SHIFT_PAGEUP and
SHIFT_PAGEDOWN do not pass through the window's input, so that a selection made
in one view is undone in another, and a drawn pointer is moved with its row; its
start and end are not initialized, and a button that comes up before it ever
went down reads them.

Keys, signals and windows:

* A window created and given a descriptor within a batch can receive the hang-up
  event of the one that was closed before it (`fbio.cpp:103`).
* SIGUSR2 pending and the user leaves again: SIGUSR1 is processed first, and
  FbTerm enters after it has left, until the next switch.
* Keys read together: the window is looked up once per buffer, so that keys
  after a shortcut go to the window before it, which may be deleted.
* Two keys of one modifier, one held since before raw mode: the count and the
  keys held differ.
* A late `AckHideUI` of a wait that timed out satisfies the next one.

Bytes:

* The rest of an incomplete character is saved in `mBufWrite` and never used
  (`io.cpp:217` saves it, `write` does not look): a character that is typed in
  two pieces is lost.
* `writeIo` counts its retries for a whole call and then drops the rest: FbTerm
  stands still for a second, and what was to be written is lost in part.
* What is left of an incomplete character stays in `mBufRead` when the encoding
  is changed, and is read in the new one.
* CSI as one byte does not clear the parameters of the last sequence.
* `restore_cursor` before `save_cursor` takes variables never written;
  `Unwritten` is the choice made.

## 8. Not modelled

* Fonts (`Font`): a cache over freetype and fontconfig that never evicts.
* Configuration (`Config`): parsed once before anything else; its options are
  constants of the modules.
* Pixels: `fillRect` and glyph blitting of `screen_render.cpp` are arithmetic
  without state; the mapping of video memory (`FbDev`) and the real mode BIOS
  calls and the search for a mode (`VesaDev`) are I/O. Of both devices the kinds
  of scrolling and their ranges are in `ScreenPan`.
* The mouse: the connection to gpm, the arithmetic of its coordinates, and the
  reports to a program that asked for them, one message for each event.
* The input method's drawing: messages `ImProxy` stores, the geometry of its
  windows (planned).
* Attributes other than `reverse`, and colours (`adjustCharAttr`).
* The `select` build of the dispatcher, in which windows close by SIGCHLD only.
* `iconv`, gpm, the kernel and the programs are external, and modelled as far as
  the code meets them.

Handlers are atomic with respect to the kernel, but for the places named in
section 3; allocation does not fail, except for `forkpty`.
