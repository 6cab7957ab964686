----------------------------- MODULE LoopState ------------------------------
(***************************************************************************)
(* The windows, their programs and their descriptors, as the event loop    *)
(* sees them, and what it promises of them.  EventLoop says what happens.  *)
(***************************************************************************)
EXTENDS Naturals, Sequences, FiniteSets

CONSTANTS
  Win,        \* window objects
  None,       \* no window
  SignalFd,   \* descriptor of SignalIo
  KeyboardFd, \* descriptor of TtyInput
  Fd          \* descriptors pseudo terminals can get, numbers below NR_FDS

ASSUME WinAssumption == None \notin Win
ASSUME FdAssumption == IsFiniteSet(Fd) /\ Fd \subseteq Nat \ {0, SignalFd, KeyboardFd}
ASSUME SourcesAssumption == {SignalFd, KeyboardFd} \subseteq Nat /\ SignalFd # KeyboardFd

VARIABLES
  open,       \* windows that exist
  fd,         \* IoPipe::mFd of each window, 0 when it has none
  map,        \* ioPipeMap
  proc,       \* the program of each window: none, running, zombie
  hup,        \* windows whose pseudo terminal is hung up
  sigchld,    \* SIGCHLD is pending on the signal descriptor
  sigterm,    \* SIGTERM or SIGHUP is pending there
  key,        \* the key to be read, or none
  events,     \* events of the last epoll_wait not yet handled
  running,    \* FbTerm::mRun
  fresh       \* (history) windows created since the last epoll_wait

-----------------------------------------------------------------------------
(* Properties.                                                             *)

\* The dispatcher's table and the windows agree on who has which descriptor,
\* through every reuse of a number (addIoSource, removeIoSource).
PipesMatch == \A f \in Fd, w \in Win : map[f] = w <=> fd[w] = f

\* A hang-up about to be handled concerns the window that now has the
\* descriptor, or nobody, although windows were closed and descriptors taken
\* again since epoll_wait returned it.  Not so for a window created within the
\* batch: poll looks the descriptor up when it comes to the event, and CTRL_ALT_C
\* after a window was closed gets its number.
HangUpsAreFresh ==
  (running /\ events # << >> /\ Head(events) \in Fd) =>
    map[Head(events)] \in {None} \cup hup \cup fresh
=============================================================================
