----------------------------- MODULE EventLoop -----------------------------
(***************************************************************************)
(* FbTerm's event loop and the life of a window's program: FbIoDispatcher  *)
(* (epoll), the signal pipe with SIGCHLD, SIGTERM and SIGHUP, the shortcuts *)
(* that create and destroy windows or end FbTerm, and the closing of       *)
(* windows by hang-up, SIGCHLD or key.                                     *)
(*                                                                         *)
(* epoll_wait returns a batch of events; they are handled one after the    *)
(* other, and handling one may close the descriptor another is about.      *)
(***************************************************************************)
EXTENDS LoopState

CONSTANTS
  Keys,       \* shortcuts the user may press: "create", "destroy", "exit"
  Holders     \* whether a program may leave others behind on its terminal

ASSUME KeysAssumption == Keys \subseteq {"create", "destroy", "exit"}
ASSUME HoldersAssumption == Holders \in BOOLEAN

vars == <<open, fd, map, proc, hup, sigchld, sigterm, key, events, running, fresh>>

NoKey == "none"

\* The descriptors epoll may report: the signals, the keyboard, the windows'.
Sources == {SignalFd, KeyboardFd} \cup Fd

Init ==
  \E w \in Win, f \in Fd :
    /\ open = {w}
    /\ fd = [v \in Win |-> IF v = w THEN f ELSE 0]
    /\ map = [g \in Fd |-> IF g = f THEN w ELSE None]
    /\ proc = [v \in Win |-> IF v = w THEN "running" ELSE "none"]
    /\ hup = {}
    /\ sigchld = FALSE /\ sigterm = FALSE /\ key = NoKey /\ events = << >> /\ running = TRUE
    /\ fresh = {w}

-----------------------------------------------------------------------------
(* The outside: programs end, their terminal hangs up, keys are pressed.   *)

ProgramEnds(w) ==
  /\ proc[w] = "running"
  /\ proc' = [proc EXCEPT ![w] = "zombie"]
  /\ sigchld' = TRUE
  /\ hup' \in IF Holders THEN {hup, hup \cup {w}} ELSE {hup \cup {w}}
  /\ UNCHANGED <<open, fd, map, sigterm, key, events, running, fresh>>

HangUp(w) ==
  /\ w \in open /\ proc[w] # "running" /\ fd[w] # 0 /\ w \notin hup
  /\ hup' = hup \cup {w}
  /\ UNCHANGED <<open, fd, map, proc, sigchld, sigterm, key, events, running, fresh>>

PressKey(k) ==
  /\ key = NoKey
  /\ key' = k
  /\ UNCHANGED <<open, fd, map, proc, hup, sigchld, sigterm, events, running, fresh>>

\* SIGTERM or SIGHUP is sent to FbTerm.
Terminate ==
  /\ ~ sigterm
  /\ sigterm' = TRUE
  /\ UNCHANGED <<open, fd, map, proc, hup, sigchld, key, events, running, fresh>>

-----------------------------------------------------------------------------
(* poll().                                                                 *)

Ready(s) ==
  CASE s = SignalFd -> sigchld \/ sigterm
    [] s = KeyboardFd -> key # NoKey
    [] OTHER -> \E w \in hup : fd[w] = s

Orders(S) ==
  {q \in [1 .. Cardinality(S) -> S] : \A i, j \in DOMAIN q : q[i] = q[j] => i = j}

EpollWait ==
  LET ready == {s \in Sources : Ready(s)} IN
  /\ running /\ events = << >> /\ ready # {}
  /\ events' \in Orders(ready)
  /\ fresh' = {}
  /\ UNCHANGED <<open, fd, map, proc, hup, sigchld, sigterm, key, running>>

\* The descriptor the kernel gives to a new pseudo terminal.
FreeFds == Fd \ {fd[w] : w \in open}
LowestFree == CHOOSE f \in FreeFds : \A g \in FreeFds : f <= g

\* createShell: forkpty may fail, and leaves a window without a program.
Create(w) ==
  /\ open' = open \cup {w}
  /\ fresh' = fresh \cup {w}
  /\ \/ /\ FreeFds # {}
        /\ fd' = [fd EXCEPT ![w] = LowestFree]
        /\ map' = [map EXCEPT ![LowestFree] = w]
        /\ proc' = [proc EXCEPT ![w] = "running"]
     \/ UNCHANGED <<fd, map, proc>>
  /\ UNCHANGED <<hup, sigchld, running>>

\* Slip: the pipe is not taken out of the table (removeIoSource).
CloseKeepsMap(w) ==
  /\ open' = open \ {w}
  /\ running' = (running /\ open' # {})
  /\ fd' = [fd EXCEPT ![w] = 0]
  /\ hup' = hup \ {w}
  /\ proc' = [proc EXCEPT ![w] = "none"]
  /\ UNCHANGED map

\* delete of a window: setFd(-1) forgets and closes the descriptor, then the
\* program is killed if need be and waited for (waitChildProcessExit); the
\* last window ends the loop.
Close(w) ==
  /\ open' = open \ {w}
  /\ running' = (running /\ open' # {})
  /\ map' = [f \in Fd |-> IF f = fd[w] THEN None ELSE map[f]]
  /\ fd' = [fd EXCEPT ![w] = 0]
  /\ hup' = hup \ {w}
  /\ proc' = [proc EXCEPT ![w] = "none"]

\* Killing the program of a closed window raises SIGCHLD once more.
Raised(w) == sigchld \/ proc[w] = "running"

\* processSignal of all that are pending, in the order of their numbers.
\* SIGHUP and SIGTERM end the loop, and SIGCHLD is ignored after that; else it
\* is one waitpid(WAIT_ANY, WNOHANG), and the window of the process it returns
\* is deleted.
HandleSignals ==
  LET zombies == {w \in Win : proc[w] = "zombie"} IN
  /\ sigchld' = FALSE /\ sigterm' = FALSE
  /\ IF sigchld /\ ~ sigterm /\ running /\ zombies # {}
     THEN \E w \in zombies : Close(w)
     ELSE /\ running' = (running /\ ~ sigterm)
          /\ UNCHANGED <<open, fd, map, proc, hup>>
  /\ UNCHANGED <<key, fresh>>

\* TtyInput::readyRead, processSysKey: CTRL_ALT_C, CTRL_ALT_D and CTRL_ALT_E,
\* which ends the loop with the windows open.
HandleKeyboard ==
  /\ key' = NoKey
  /\ \/ /\ key = "create"
        /\ IF open = Win
           THEN UNCHANGED <<open, fd, map, proc, hup, sigchld, running, fresh>>
           ELSE \E w \in Win \ open : Create(w)
     \/ /\ key = "destroy"
        /\ \E w \in open : Close(w) /\ sigchld' = Raised(w)
        /\ UNCHANGED fresh
     \/ /\ key = "destroy" /\ open = {}
        /\ UNCHANGED <<open, fd, map, proc, hup, sigchld, running, fresh>>
     \/ /\ key = "exit"
        /\ running' = FALSE
        /\ UNCHANGED <<open, fd, map, proc, hup, sigchld, fresh>>
  /\ UNCHANGED sigterm

\* Slip: a hang-up is left to SIGCHLD.
HandlePtyLater(f) ==
  /\ f \in Fd
  /\ UNCHANGED <<open, fd, map, proc, hup, sigchld, sigterm, key, running, fresh>>

\* EPOLLHUP of a window's descriptor: the pipe that has it now is deleted.
HandlePty(f) ==
  /\ IF map[f] = None
     THEN UNCHANGED <<open, fd, map, proc, hup, sigchld, running>>
     ELSE Close(map[f]) /\ sigchld' = Raised(map[f])
  /\ UNCHANGED <<sigterm, key, fresh>>

Handle ==
  /\ events # << >>
  /\ events' = Tail(events)
  /\ CASE Head(events) = SignalFd -> HandleSignals
       [] Head(events) = KeyboardFd -> HandleKeyboard
       [] OTHER -> HandlePty(Head(events))

\* Slip: the loop over the table stops one descriptor short.
FinishAllButOne ==
  LET left == {w \in open : \E v \in open : fd[w] > fd[v] /\ fd[v] # 0} IN
  /\ ~ running /\ events = << >> /\ left # {}
  /\ open' = open \ left /\ hup' = hup \ left
  /\ fd' = [w \in Win |-> IF w \in left THEN 0 ELSE fd[w]]
  /\ map' = [f \in Fd |-> IF map[f] \in left THEN None ELSE map[f]]
  /\ proc' = [w \in Win |-> IF w \in left THEN "none" ELSE proc[w]]
  /\ UNCHANGED <<sigchld, sigterm, key, events, running, fresh>>

\* ~FbTerm, ~FbIoDispatcher: when the loop is left every pipe is deleted.
Finish ==
  LET left == {w \in open : fd[w] # 0} IN
  /\ ~ running /\ events = << >> /\ left # {}
  /\ open' = open \ left /\ hup' = hup \ left
  /\ fd' = [w \in Win |-> 0]
  /\ map' = [f \in Fd |-> None]
  /\ proc' = [w \in Win |-> "none"]
  /\ UNCHANGED <<sigchld, sigterm, key, events, running, fresh>>

Next ==
  \/ \E w \in Win : ProgramEnds(w) \/ HangUp(w)
  \/ \E k \in Keys : PressKey(k)
  \/ Terminate
  \/ EpollWait
  \/ Handle
  \/ Finish

\* The process runs when it has something to do.
Fairness == WF_vars(EpollWait) /\ WF_vars(Handle) /\ WF_vars(Finish)

Spec == Init /\ [][Next]_vars /\ Fairness

-----------------------------------------------------------------------------
(* Properties.                                                             *)

\* Every variable has its type, and a window that is gone has left nothing.
TypeOK ==
  /\ open \subseteq Win
  /\ fd \in [Win -> Fd \cup {0}]
  /\ map \in [Fd -> Win \cup {None}]
  /\ proc \in [Win -> {"none", "running", "zombie"}]
  /\ hup \subseteq open /\ fresh \subseteq Win
  /\ \A w \in Win \ open : fd[w] = 0 /\ proc[w] = "none"
  /\ sigchld \in BOOLEAN /\ sigterm \in BOOLEAN /\ key \in Keys \cup {NoKey} /\ running \in BOOLEAN
  /\ events \in Seq(Sources)

\* A window whose terminal is hung up closes, whatever else goes on.
HungUpWindowsClose == \A w \in Win : (w \in hup) ~> (w \notin hup)

\* No program outlives FbTerm: when the loop has been left, by the last window's
\* end or by CTRL_ALT_E, SIGTERM or SIGHUP with any number of windows open, all
\* of them are closed, and what the rest of the batch opened too (~FbTerm).
ProgramsEndWithLoop == ~ running ~> \A w \in Win : proc[w] = "none"
=============================================================================
