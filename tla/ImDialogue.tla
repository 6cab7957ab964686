----------------------------- MODULE ImDialogue -----------------------------
(***************************************************************************)
(* The dialogue of FbTerm with the input method server of one window:      *)
(* ImProxy on FbTerm's side, the client library imapi.c with the callbacks *)
(* of example.c on the server's, two processes joined by a socket pair.    *)
(*                                                                         *)
(* Messages whose callbacks do nothing in the dialogue (FbTermInfo,        *)
(* TermMode) and the drawing ones (FillRect, DrawText) are left out.  A    *)
(* read returns any non-empty beginning of what was written: the writer    *)
(* may not have got further.                                               *)
(***************************************************************************)
EXTENDS Integers, Sequences, FiniteSets, SequencesExt

CONSTANTS
  Ids,      \* the windows the server's callbacks set, in their order
  RawInput, \* the mode the server asks for in Connect
  Select,   \* whether the server waits in select() before check_im_message()
  MaxOps    \* bound: events from the user and the window's program

ASSUME IdsAssumption == Ids \in Seq(Nat) /\ IsInjective(Ids)
ASSUME ModeAssumption == RawInput \in BOOLEAN /\ Select \in BOOLEAN
ASSUME MaxOpsAssumption == MaxOps \in Nat

VARIABLES
  active,     \* the window is FbShellManager's active one
  exists,     \* FbShell::mImProxy is not null
  connected,  \* ImProxy::mConnected
  on,         \* ImProxy::mActive
  rawMode,    \* TtyInput::mRawMode
  awaiting,   \* ImProxy::mMsgWaitType while FbTerm is in waitImMessage
  got,        \* mMsgWaitState = GotMessage
  late,       \* history: a wait for AckHideUI of this server has timed out
  wins,       \* windows with a rectangle in ImProxy::mWins
  count,      \* ImProxy::mValidWinNum
  scroll,     \* Screen::mScrollEnable
  ops,        \* events so far
  toIm, toFb, \* messages on the socket pair
  at,         \* where the server is in check_im_message
  buf,        \* messages of its local buffer still to be processed
  calls,      \* what the running callback has still to do
  waiting,    \* the server is in wait_message(AckWin)
  pending,    \* pending_msg_buf
  imActive    \* im_active

fbTerm == <<active, exists, connected, on, rawMode, awaiting, got, late, wins, count, scroll, ops>>
server == <<at, buf, calls, waiting, pending, imActive>>
vars == <<fbTerm, toIm, toFb, server>>

Msg(t) == [type |-> t]
SetWin(id, shown) == [type |-> "SetWin", id |-> id, shown |-> shown]

IsType(m, t) == m.type = t
Number(q, t) == Cardinality({i \in DOMAIN q : IsType(q[i], t)})

\* What a read may return: any non-empty beginning of what was sent.
Reads(q) == {SubSeq(q, 1, n) : n \in 1 .. Len(q)}
After(q, p) == SubSeq(q, Len(p) + 1, Len(q))

Init ==
  /\ active = TRUE /\ exists = FALSE /\ connected = FALSE /\ on = FALSE
  /\ rawMode = FALSE /\ awaiting = "none" /\ got = FALSE /\ late = FALSE
  /\ wins = {} /\ count = 0 /\ scroll = TRUE /\ ops = 0
  /\ toIm = << >> /\ toFb = << >>
  /\ at = "none" /\ buf = << >> /\ calls = << >> /\ waiting = FALSE
  /\ pending = << >> /\ imActive = FALSE

-----------------------------------------------------------------------------
(* FbTerm.                                                                 *)

\* The server listens: it is connected and switched on (the early returns of
\* changeCursorPos, sendKey, switchVt).
Listening == exists /\ connected /\ on

\* A message to a server that has died is lost.
Send(q) == toIm' = IF at = "none" THEN << >> ELSE toIm \o q

\* FbTerm is in its event loop and takes another event of the user or of the
\* window's program.
Event ==
  /\ awaiting = "none" /\ ops < MaxOps
  /\ ops' = ops + 1

\* toggleActive and the reports that follow it in FbShell::toggleIm.
ToggleActive ==
  IF connected
  THEN /\ on' = ~ on
       /\ rawMode' = (RawInput /\ on')
       /\ Send(IF on' THEN <<Msg("Active"), Msg("CursorPosition")>> ELSE <<Msg("Deactive")>>)
  ELSE UNCHANGED <<on, rawMode, toIm>>

\* CTRL_SPACE: the first one starts the server and waits for its Connect.
ToggleIm ==
  /\ Event /\ active
  /\ IF exists
     THEN /\ ToggleActive
          /\ UNCHANGED <<exists, awaiting, server>>
     ELSE /\ exists' = TRUE
          /\ awaiting' = "Connect"
          /\ at' = "starting"
          /\ buf' = << >> /\ calls' = << >> /\ waiting' = FALSE
          /\ pending' = << >> /\ imActive' = FALSE
          /\ UNCHANGED <<on, rawMode, toIm>>
  /\ UNCHANGED <<active, connected, got, late, wins, count, scroll, toFb>>

\* FbShell::keyInput: to the server, or straight to the program.
KeyInput ==
  /\ Event /\ active
  /\ IF exists /\ on
     THEN Send(<<Msg("SendKey")>>)
     ELSE UNCHANGED toIm
  /\ UNCHANGED <<active, exists, connected, on, rawMode, awaiting, got, late, wins, count, scroll, toFb, server>>

\* The program moves the cursor: FbShell::drawCursor, reportCursor.
MoveCursor ==
  /\ Event /\ active /\ Listening
  /\ Send(<<Msg("CursorPosition")>>)
  /\ UNCHANGED <<active, exists, connected, on, rawMode, awaiting, got, late, wins, count, scroll, toFb, server>>

\* setActive to another window or console: switchVt(false) of this one, which
\* waits for AckHideUI before the switch is done.
SwitchAway ==
  /\ Event /\ active
  /\ IF Listening
     THEN /\ rawMode' = FALSE
          /\ Send(<<Msg("HideUI")>>)
          /\ awaiting' = "AckHideUI"
          /\ UNCHANGED active
     ELSE /\ active' = FALSE
          /\ UNCHANGED <<rawMode, toIm, awaiting>>
  /\ UNCHANGED <<exists, connected, on, got, late, wins, count, scroll, toFb, server>>

\* setActive to this window: switchVt(true), then the cursor is reported.
SwitchBack ==
  /\ Event /\ ~ active
  /\ active' = TRUE
  /\ IF Listening
     THEN /\ rawMode' = RawInput
          /\ Send(<<Msg("ShowUI"), Msg("CursorPosition")>>)
     ELSE UNCHANGED <<rawMode, toIm>>
  /\ UNCHANGED <<exists, connected, on, awaiting, got, late, wins, count, scroll, toFb, server>>

\* The server's process is gone, with all it had in memory and unread.
ServerGone ==
  /\ at' = "none" /\ waiting' = FALSE /\ imActive' = FALSE
  /\ buf' = << >> /\ calls' = << >> /\ pending' = << >>
  /\ toIm' = << >>

\* Slip: the keyboard is left in the mode the server had asked for.
RawKept == rawMode

\* The keyboard's mode after ~ImProxy: a connected server's window gives it
\* up if it is the active one.
RawLeft == rawMode /\ ~ (connected /\ active)

\* ~ImProxy: the server is told, its socket closed, its process waited for,
\* and the windows it has left are taken away.
Destroy ==
  /\ exists' = FALSE /\ connected' = FALSE /\ on' = FALSE
  /\ rawMode' = RawLeft
  /\ scroll' = IF connected /\ active /\ wins # {} THEN count = Cardinality(wins) ELSE scroll
  /\ wins' = {} /\ count' = 0
  /\ toFb' = << >>
  /\ late' = FALSE
  /\ ServerGone
  /\ UNCHANGED <<active, awaiting, got>>

\* CTRL_ALT_K.
KillIm == Event /\ active /\ exists /\ Destroy

\* The server has died: SIGCHLD, or the hang-up of its socket.
ImExited ==
  /\ exists /\ at = "none" /\ awaiting = "none"
  /\ Destroy
  /\ UNCHANGED ops

\* Slip: a window set while FbTerm waits for AckHideUI gets no answer.
SetImWinUnanswered(m) ==
  /\ wins' = IF m.shown THEN wins \cup {m.id} ELSE wins \ {m.id}
  /\ count' = Cardinality(wins')
  /\ scroll' = IF active THEN wins' = {} ELSE scroll
  /\ IF awaiting = "none" THEN Send(<<Msg("AckWin")>>) ELSE UNCHANGED toIm

\* Slip: the old window is not counted out when the new one is empty only.
SetImWinMiscounts(m) ==
  /\ wins' = IF m.shown THEN wins \cup {m.id} ELSE wins \ {m.id}
  /\ count' = IF m.shown THEN count + 1 ELSE count - 1
  /\ scroll' = IF active THEN count' = 0 ELSE scroll
  /\ Send(<<Msg("AckWin")>>)

\* setImWin and sendAckWin.  Of the active window the old rectangle is taken
\* out of the count (unless the new one covers it: it then stays counted),
\* of another one it is only forgotten.
SetImWin(m) ==
  LET shown == m.id \in wins
      out   == IF active /\ shown /\ ~ m.shown THEN 1 ELSE 0
      in    == IF ~ shown /\ m.shown THEN 1 ELSE 0
  IN /\ wins' = IF m.shown THEN wins \cup {m.id} ELSE wins \ {m.id}
     /\ count' = count - out + in
     /\ scroll' = IF active THEN count' = 0 ELSE scroll
     /\ Send(<<Msg("AckWin")>>)

\* Slip: any message ends the wait.
AnyMessage(m) == awaiting # "none"

\* The message FbTerm waits for; it is known by its type only.
Awaited(m) == IsType(m, awaiting)

\* ready, readyRead: one message.  Before Connect the others are skipped.
ReadyRead ==
  /\ exists /\ toFb # << >>
  /\ toFb' = Tail(toFb)
  /\ LET m == Head(toFb) IN
     /\ got' = (got \/ Awaited(m))
     /\ connected' = (connected \/ IsType(m, "Connect"))
     /\ IF connected /\ IsType(m, "SetWin")
        THEN SetImWin(m)
        ELSE /\ UNCHANGED <<wins, count, scroll>>
             /\ IF connected /\ IsType(m, "Ping") THEN Send(<<Msg("AckPing")>>) ELSE UNCHANGED toIm
  /\ UNCHANGED <<active, exists, on, rawMode, awaiting, late, ops, server>>

\* End of file while waiting: ImProxy::ioError.
IoError ==
  /\ awaiting # "none" /\ at = "none" /\ toFb = << >> /\ ~ got
  /\ got' = TRUE
  /\ UNCHANGED <<active, exists, connected, on, rawMode, awaiting, late, wins, count, scroll, ops, toIm, toFb, server>>

\* waitImMessage returns to switchVt or to createImProcess and toggleIm.
Resume ==
  /\ awaiting' = "none" /\ got' = FALSE
  /\ \/ /\ awaiting = "AckHideUI"
        /\ scroll' = TRUE
        /\ active' = FALSE
        /\ UNCHANGED <<on, rawMode, toIm>>
     \/ /\ awaiting = "Connect"
        /\ ToggleActive
        /\ UNCHANGED <<scroll, active>>
  /\ UNCHANGED <<exists, connected, wins, count, ops, toFb, server>>

GotMessage == got /\ Resume /\ UNCHANGED late

\* Slip: only Connect is waited for with a limit.
TimeOutOnce == awaiting = "Connect" /\ ~ got /\ Resume /\ UNCHANGED late

\* Two seconds have passed.
TimeOut ==
  /\ awaiting # "none" /\ ~ got
  /\ Resume
  /\ late' = (late \/ awaiting = "AckHideUI")

-----------------------------------------------------------------------------
(* The server.                                                             *)

\* connect_fbterm.
ImStart ==
  /\ at = "starting"
  /\ at' = "check"
  /\ toFb' = Append(toFb, Msg("Connect"))
  /\ UNCHANGED <<fbTerm, toIm, buf, calls, waiting, pending, imActive>>

\* Entry of check_im_message: what wait_message has put aside comes first.
CheckImMessage ==
  /\ at = "check"
  /\ Select => toIm # << >>
  /\ IF pending # << >>
     THEN at' = "stored" /\ buf' = pending /\ pending' = << >>
     ELSE at' = "read" /\ UNCHANGED <<buf, pending>>
  /\ UNCHANGED <<fbTerm, toIm, toFb, calls, waiting, imActive>>

\* The read of check_im_message, which blocks.
ReadMessages ==
  /\ at = "read"
  /\ \E p \in Reads(toIm) : buf' = p /\ toIm' = After(toIm, p)
  /\ at' = "fresh"
  /\ UNCHANGED <<fbTerm, toFb, calls, waiting, pending, imActive>>

\* What the library and the callbacks of example.c do for a message.
Callback(m) ==
  CASE IsType(m, "Active") -> <<Msg("ImOn")>>
    [] IsType(m, "Deactive") ->
         [i \in DOMAIN Ids |-> SetWin(Ids[i], FALSE)] \o <<Msg("ImOff")>>
    [] IsType(m, "HideUI") -> <<Msg("AckHideUI")>>
    [] imActive /\ (IsType(m, "ShowUI") \/ IsType(m, "CursorPosition")) ->
         [i \in DOMAIN Ids |-> SetWin(Ids[i], TRUE)]
    [] imActive /\ IsType(m, "SendKey") -> <<Msg("PutText")>>
    [] OTHER -> << >>

\* process_messages: the next message, when the last callback has returned.
ProcessMessage ==
  /\ at \in {"stored", "fresh"} /\ calls = << >> /\ ~ waiting
  /\ IF buf # << >>
     THEN /\ calls' = Callback(Head(buf))
          /\ buf' = Tail(buf)
          /\ UNCHANGED at
     ELSE /\ at' = IF at = "stored" THEN "read" ELSE "check"
          /\ UNCHANGED <<calls, buf>>
  /\ UNCHANGED <<fbTerm, toIm, toFb, waiting, pending, imActive>>

\* The callback's next call: im_active set and reset by the library itself,
\* set_im_window (nothing unless im_active), put_im_text, AckHideUI.
Call ==
  /\ calls # << >> /\ ~ waiting
  /\ LET c == Head(calls) IN
     /\ imActive' = IF IsType(c, "ImOn") THEN TRUE ELSE IF IsType(c, "ImOff") THEN FALSE ELSE imActive
     /\ IF IsType(c, "SetWin") /\ imActive
        THEN toFb' = Append(toFb, c) /\ waiting' = TRUE
        ELSE /\ UNCHANGED waiting
             /\ toFb' = IF c.type \in {"PutText", "AckHideUI"} THEN Append(toFb, c) ELSE toFb
  /\ calls' = Tail(calls)
  /\ UNCHANGED <<fbTerm, toIm, at, buf, pending>>

\* Slip: what was put aside waits for FbTerm's next message.
NoPing == FALSE

\* wait_message ends with messages put aside: FbTerm is pinged, so that its
\* answer will wake the server to process them.
Pings == ~ waiting' /\ pending' # << >>

\* wait_message(AckWin): what arrives before it, or in the same read after it,
\* is put aside.
WaitMessage ==
  /\ waiting
  /\ \E p \in Reads(toIm) :
       /\ toIm' = After(toIm, p)
       /\ LET acks == {i \in DOMAIN p : IsType(p[i], "AckWin")} IN
          /\ pending' = pending \o (IF acks = {} THEN p ELSE RemoveAt(p, Min(acks)))
          /\ waiting' = (acks = {})
  /\ toFb' = IF Pings THEN Append(toFb, Msg("Ping")) ELSE toFb
  /\ UNCHANGED <<fbTerm, at, buf, calls, imActive>>

\* The server's process ends by itself, whatever it was doing.
ImDies == at # "none" /\ ServerGone /\ UNCHANGED <<fbTerm, toFb>>

-----------------------------------------------------------------------------
FbTermStep == ReadyRead \/ IoError \/ GotMessage

Next ==
  \/ ToggleIm \/ KeyInput \/ MoveCursor \/ SwitchAway \/ SwitchBack \/ KillIm
  \/ ImExited \/ ReadyRead \/ IoError \/ GotMessage \/ TimeOut
  \/ ImStart \/ CheckImMessage \/ ReadMessages \/ ProcessMessage \/ Call \/ WaitMessage
  \/ ImDies

\* FbTerm runs when it can and two seconds pass; of the server only the wait of
\* the library is sure to go on, its callbacks may take for ever.
Fairness ==
  /\ WF_vars(FbTermStep) /\ WF_vars(ImExited) /\ WF_vars(TimeOut)
  /\ WF_vars(WaitMessage)

Spec == Init /\ [][Next]_vars /\ Fairness

-----------------------------------------------------------------------------
(* Properties.                                                             *)

Types == {"Connect", "Active", "Deactive", "SendKey", "PutText", "SetWin", "AckWin",
          "CursorPosition", "ShowUI", "HideUI", "AckHideUI", "Ping", "AckPing", "ImOn", "ImOff"}
Messages(q) == \A i \in DOMAIN q : q[i].type \in Types

\* Every variable has its type.
TypeOK ==
  /\ active \in BOOLEAN /\ exists \in BOOLEAN /\ connected \in BOOLEAN /\ on \in BOOLEAN
  /\ rawMode \in BOOLEAN /\ awaiting \in {"none", "Connect", "AckHideUI"} /\ got \in BOOLEAN /\ late \in BOOLEAN
  /\ wins \subseteq ToSet(Ids) /\ count \in Nat /\ scroll \in BOOLEAN
  /\ ops \in 0 .. MaxOps
  /\ \A q \in {toIm, toFb, buf, calls, pending} : Messages(q)
  /\ at \in {"none", "starting", "check", "stored", "read", "fresh"}
  /\ waiting \in BOOLEAN /\ imActive \in BOOLEAN

\* A server that waits for AckWin has one SetWin or its answer on the way, and
\* otherwise none is: no answer is lost, and none is left to be taken for the
\* next one's, whatever FbTerm waits for meanwhile (set_im_window, readyRead).
OneAnswerEach ==
  Number(toFb, "SetWin") + Number(toIm, "AckWin") <= 1
    /\ (waiting <=> at # "none" /\ Number(toFb, "SetWin") + Number(toIm, "AckWin") = 1)

\* FbTerm answers a window request even while it waits for the server itself:
\* the two processes never wait for each other (waitImMessage, wait_message).
RequestsAnswered == waiting ~> ~ waiting

\* A switch that has got its answer is known to the server: the HideUI of this
\* switch, and no earlier one, has been processed, with whatever was put aside
\* meanwhile.  Only after a wait has timed out can its late AckHideUI be taken
\* for the next one's (waitImMessage, readyRead, wait_message).
SwitchIsSeen ==
  got /\ awaiting = "AckHideUI" /\ at # "none" /\ ~ late =>
    \A q \in {toIm, buf, pending} : Number(q, "HideUI") = 0

\* FbTerm waits for the server for a time only (waitImMessage).
FbTermGoesOn == (awaiting # "none") ~> (awaiting = "none")

\* Outside the wait the keyboard is in raw mode exactly when the active
\* window's server is switched on and wants it, through switches, kills and
\* deaths of the server (setRawMode in toggleActive, switchVt, ~ImProxy).
RawModeFollows ==
  awaiting = "none" => (rawMode <=> active /\ Listening /\ RawInput)

\* mValidWinNum never falls below the number of windows with a rectangle:
\* redrawImWin and addWinMsg stop looking when they have found that many.
CountCoversWindows == Cardinality(wins) <= count

\* The server does not go to sleep on messages it has put aside (answers to its
\* own pings apart), with nothing on the way that would wake it: ChangeLog:81
\* says "fixed a bug where IM maybe doesn't process pending messages until a new
\* message arrives".  It holds if the server sleeps in the read of
\* check_im_message only, as example.c's does (~ Select), and not if it sleeps in
\* select() first, as imapi.h:90 allows: then that read may consume the answer
\* that was to wake it.
NothingStranded ==
  ~ ( /\ at = "read" \/ (at = "check" /\ Select)
      /\ Number(pending, "AckPing") < Len(pending)
      /\ toIm = << >> /\ toFb = << >> )
=============================================================================
