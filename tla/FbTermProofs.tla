---------------------------- MODULE FbTermProofs -----------------------------
(***************************************************************************)
(* Machine-checked proofs about FbTerm's main loop.  First its signals and *)
(* console switching, for every set of signals that FbTerm blocks: what it *)
(* holds in the background, hands over and leaves behind; then the events  *)
(* of windows, for every number of them, every finite set of descriptors   *)
(* and every set of shortcuts.                                             *)
(***************************************************************************)
EXTENDS VtSwitch, LoopState, FiniteSetTheorems, SequenceTheorems, WellFoundedInduction, TLAPS

\* The events of the loop.
CONSTANTS Keys, Holders
Loop == INSTANCE EventLoop

\* What the console is like when FbTerm has none of it.
Clean == ~ current /\ keymap = "original" /\ palette = "original"

\* Signal s is among those read and not yet processed.
InBatch(s) == \E i \in 1 .. Len(batch) : batch[i] = s

(* The inductive invariant.  SIGUSR2 is processed in the background only if *)
(* it has been overtaken: whenever the console was left with SIGUSR2 still  *)
(* to come, the request that it was left for is or was still to come too.   *)
SwitchInv ==
  /\ \A i, j \in 1 .. Len(batch) : i < j => batch[i] < batch[j]
  /\ newvt => front
  /\ newvt /\ USR2 \in pending => USR1 \in pending
  /\ ~ front /\ USR2 \in pending => USR1 \in pending
  /\ ~ front /\ InBatch(USR2) => overtaken \/ InBatch(USR1)
  /\ phase = "over" =>
       batch = << >> /\ pending = {} /\ ~ newvt /\ (overtaken \/ Clean)

Inv == TypeOK /\ SwitchInv /\ HeldOnlyInFront

\* A read returns the pending signals, each of them, in ascending order.
LEMMA InOrderSeq ==
  ASSUME NEW S \in SUBSET Signals, NEW q \in InOrder(S)
  PROVE  /\ q \in Seq(Signals)
         /\ \A i, j \in 1 .. Len(q) : i < j => q[i] < q[j]
         /\ \A s \in S : \E i \in 1 .. Len(q) : q[i] = s
         /\ \A i \in 1 .. Len(q) : q[i] \in S
<1>1. IsFiniteSet(S)  BY SignalsAssumption, FS_Subset
<1>2. Cardinality(S) \in Nat  BY <1>1, FS_CardinalityType
<1>3. q \in [1 .. Cardinality(S) -> S] /\ DOMAIN q = 1 .. Cardinality(S)  BY DEF InOrder
<1>4. q \in Seq(S) /\ Len(q) = Cardinality(S)  BY <1>2, <1>3
<1>5. q \in Seq(Signals)  BY <1>2, <1>3
<1>. QED  BY <1>3, <1>4, <1>5 DEF InOrder

\* The batch without its first signal.
LEMMA TailOf ==
  ASSUME NEW q \in Seq(Signals), q # << >>
  PROVE  /\ Tail(q) \in Seq(Signals) /\ Head(q) = q[1] /\ Head(q) \in Signals
         /\ Len(q) \in Nat /\ Len(q) > 0
         /\ Len(Tail(q)) = Len(q) - 1
         /\ \A i \in 1 .. Len(Tail(q)) : Tail(q)[i] = q[i + 1]
  OBVIOUS

\* The program starts in it.
LEMMA InitInv == Init => Inv
<1>. SUFFICES ASSUME Init  PROVE Inv
  OBVIOUS
<1>1. batch = << >> /\ Len(batch) = 0 /\ 1 .. Len(batch) = {}  BY DEF Init
<1>2. TypeOK
  <2>1. << >> \in Seq(Signals)  OBVIOUS
  <2>2. batch \in Seq(Signals)  BY <1>1, <2>1
  <2>. QED  BY <2>2 DEF Init, TypeOK
<1>3. SwitchInv  BY <1>1 DEF Init, SwitchInv, InBatch
<1>4. HeldOnlyInFront  BY DEF Init, HeldOnlyInFront
<1>. QED  BY <1>2, <1>3, <1>4 DEF Inv

\* What the parts of the invariant about signals depend on.
LEMMA KeepsBatch ==
  ASSUME Inv, UNCHANGED batch
  PROVE  /\ \A i, j \in 1 .. Len(batch') : i < j => batch'[i] < batch'[j]
         /\ \A s : InBatch(s)' <=> InBatch(s)
  BY DEF Inv, SwitchInv, InBatch

-----------------------------------------------------------------------------
(* The outside                                                             *)

\* Another console is asked for: SIGUSR1 is pending, or FbTerm is no more.
LEMMA LeaveConsoleInv == Inv /\ LeaveConsole => Inv'
<1>. SUFFICES ASSUME Inv, LeaveConsole  PROVE Inv'
  OBVIOUS
<1>1. TypeOK'  BY SignalsAssumption DEF Inv, TypeOK, LeaveConsole, console
<1>2. SwitchInv'
  <2>1. phase = "over" => batch = << >> /\ ~ (\E i \in 1 .. Len(batch) : TRUE)
    BY DEF Inv, SwitchInv
  <2>2. ~ InBatch(USR2) \/ phase # "over"  BY <2>1 DEF InBatch
  <2>3. CASE phase = "over"
    <3>1. ~ InBatch(USR2)' /\ batch' = << >> /\ phase' = "over" /\ pending' = {} /\ ~ newvt'
      BY <2>2, <2>3, KeepsBatch DEF Inv, SwitchInv, LeaveConsole, Alive
    <3>2. overtaken' \/ Clean'
      BY <2>3 DEF Inv, SwitchInv, LeaveConsole, console, Clean
    <3>. QED  BY <3>1, <3>2, KeepsBatch DEF SwitchInv, LeaveConsole
  <2>4. CASE phase # "over"
    BY <2>4, KeepsBatch DEF Inv, SwitchInv, LeaveConsole, Alive
  <2>. QED  BY <2>3, <2>4
<1>3. HeldOnlyInFront'
  BY DEF Inv, TypeOK, SwitchInv, HeldOnlyInFront, LeaveConsole, console, Clean, Alive
<1>. QED  BY <1>1, <1>2, <1>3 DEF Inv

\* FbTerm's console is shown again: SIGUSR2 is pending.
LEMMA ReturnToConsoleInv == Inv /\ ReturnToConsole => Inv'
<1>. SUFFICES ASSUME Inv, ReturnToConsole  PROVE Inv'
  OBVIOUS
<1>1. TypeOK'  BY SignalsAssumption DEF Inv, TypeOK, ReturnToConsole, console
<1>2. SwitchInv'
  BY KeepsBatch DEF Inv, SwitchInv, ReturnToConsole, console, Clean, Alive
<1>3. HeldOnlyInFront'  BY DEF ReturnToConsole, HeldOnlyInFront
<1>. QED  BY <1>1, <1>2, <1>3 DEF Inv

\* A signal comes.
LEMMA SignalInv == \A s \in Signals : Inv /\ Signal(s) => Inv'
<1>. SUFFICES ASSUME NEW s \in Signals, Inv, Signal(s)  PROVE Inv'
  OBVIOUS
<1>1. TypeOK'  BY DEF Inv, TypeOK, Signal, console
<1>2. SwitchInv'
  BY KeepsBatch DEF Inv, SwitchInv, Signal, console, Clean, Alive
<1>3. HeldOnlyInFront'  BY DEF Inv, HeldOnlyInFront, Signal, console
<1>. QED  BY <1>1, <1>2, <1>3 DEF Inv

-----------------------------------------------------------------------------
(* FbTerm                                                                  *)

\* The program starts its loop.
LEMMA RunInv == Inv /\ Run => Inv'
<1>. SUFFICES ASSUME Inv, Run  PROVE Inv'
  OBVIOUS
<1>1. TypeOK'
  BY DEF Inv, TypeOK, Run, console, KeyboardSwitchVc, ScreenSwitchVc
<1>2. SwitchInv'  BY KeepsBatch DEF Inv, SwitchInv, Run
<1>3. HeldOnlyInFront'  BY DEF Inv, HeldOnlyInFront, Run, console
<1>. QED  BY <1>1, <1>2, <1>3 DEF Inv

\* The one read puts what is pending, in order, into the batch.
LEMMA ReadSignalsInv == Inv /\ ReadSignals => Inv'
<1>. SUFFICES ASSUME Inv, ReadSignals  PROVE Inv'
  OBVIOUS
<1>1. pending \in SUBSET Signals /\ batch' \in InOrder(pending)
  BY DEF Inv, TypeOK, ReadSignals
<1>2. /\ batch' \in Seq(Signals)
      /\ \A i, j \in 1 .. Len(batch') : i < j => batch'[i] < batch'[j]
      /\ \A s \in pending : InBatch(s)'
      /\ \A s : InBatch(s)' => s \in pending
  BY <1>1, InOrderSeq DEF InBatch
<1>3. TypeOK'  BY <1>2 DEF Inv, TypeOK, ReadSignals, console
<1>4. SwitchInv'
  <2>1. ~ front' /\ InBatch(USR2)' => overtaken' \/ InBatch(USR1)'
    BY <1>2 DEF Inv, SwitchInv, ReadSignals
  <2>. QED  BY <1>2, <2>1 DEF Inv, SwitchInv, ReadSignals
<1>5. HeldOnlyInFront'  BY DEF Inv, HeldOnlyInFront, ReadSignals, console
<1>. QED  BY <1>3, <1>4, <1>5 DEF Inv

\* The first signal leaves the batch: the others were there and stay in order,
\* and SIGUSR1 comes before SIGUSR2.
LEMMA BatchTail ==
  ASSUME Inv, batch # << >>, batch' = Tail(batch)
  PROVE  /\ batch' \in Seq(Signals)
         /\ \A i, j \in 1 .. Len(batch') : i < j => batch'[i] < batch'[j]
         /\ \A s : InBatch(s)' => InBatch(s)
         /\ \A s : InBatch(s) => s = Head(batch) \/ InBatch(s)'
         /\ Head(batch) = USR2 => ~ InBatch(USR1)
         /\ \A s : (\E i \in 2 .. Len(batch) : batch[i] = s) <=> InBatch(s)'
<1>1. batch \in Seq(Signals)  BY DEF Inv, TypeOK
<1>2. /\ Head(batch) = batch[1] /\ Len(batch) \in Nat /\ Len(batch) > 0
      /\ Len(batch') = Len(batch) - 1
      /\ \A i \in 1 .. Len(batch') : batch'[i] = batch[i + 1]
  BY <1>1, TailOf
<1>3. \A i, j \in 1 .. Len(batch) : i < j => batch[i] < batch[j]
  BY DEF Inv, SwitchInv
<1>4. \A i, j \in 1 .. Len(batch') : i < j => batch'[i] < batch'[j]
  <2>. SUFFICES ASSUME NEW i \in 1 .. Len(batch'), NEW j \in 1 .. Len(batch'), i < j
                PROVE  batch'[i] < batch'[j]
    OBVIOUS
  <2>1. i + 1 \in 1 .. Len(batch) /\ j + 1 \in 1 .. Len(batch) /\ i + 1 < j + 1
    BY <1>2
  <2>. QED  BY <1>2, <1>3, <2>1
<1>5. \A s : (\E i \in 2 .. Len(batch) : batch[i] = s) <=> InBatch(s)'
  <2>. SUFFICES ASSUME NEW s
                PROVE  (\E i \in 2 .. Len(batch) : batch[i] = s) <=> InBatch(s)'
    OBVIOUS
  <2>1. ASSUME NEW i \in 2 .. Len(batch), batch[i] = s  PROVE InBatch(s)'
    <3>1. i - 1 \in 1 .. Len(batch') /\ (i - 1) + 1 = i  BY <1>2
    <3>2. batch'[i - 1] = s  BY <1>2, <3>1, <2>1
    <3>. QED  BY <3>1, <3>2 DEF InBatch
  <2>2. ASSUME NEW i \in 1 .. Len(batch'), batch'[i] = s
        PROVE  \E j \in 2 .. Len(batch) : batch[j] = s
    <3>1. i + 1 \in 2 .. Len(batch) /\ batch[i + 1] = s  BY <1>2, <2>2
    <3>. QED  BY <3>1
  <2>. QED  BY <2>1, <2>2 DEF InBatch
<1>6. \A s : InBatch(s) => s = Head(batch) \/ InBatch(s)'
  BY <1>2, <1>5, SMTT(20) DEF InBatch
<1>7. \A s : InBatch(s)' => InBatch(s)
  BY <1>2, <1>5 DEF InBatch
<1>8. Head(batch) = USR2 => ~ InBatch(USR1)
  <2>. SUFFICES ASSUME Head(batch) = USR2, NEW i \in 1 .. Len(batch), batch[i] = USR1
                PROVE  FALSE
    BY DEF InBatch
  <2>1. i = 1 \/ 1 < i  BY <1>2
  <2>2. 1 \in 1 .. Len(batch)  BY <1>2
  <2>. QED  BY <1>2, <1>3, <2>1, <2>2 DEF USR1, USR2
<1>9. batch' \in Seq(Signals)  BY <1>1, TailOf
<1>. QED  BY <1>4, <1>5, <1>6, <1>7, <1>8, <1>9

\* SIGUSR1: whatever is left in the batch has been overtaken.
LEMMA LeaveInv ==
  ASSUME Inv, ProcessSignal, Head(batch) = USR1
  PROVE  Inv'
<1>1. /\ batch # << >> /\ batch' = Tail(batch) /\ Leave /\ UNCHANGED <<pending, phase>>
      /\ overtaken' = (\E i \in 2 .. Len(batch) : batch[i] = USR2)
  <2>1. batch # << >> /\ batch' = Tail(batch) /\ UNCHANGED pending
    BY DEF ProcessSignal
  <2>2. Leave /\ UNCHANGED phase
    BY DEF ProcessSignal, USR1, USR2, SIGTERM
  <2>3. overtaken' = (\E i \in 2 .. Len(batch) : batch[i] = USR2)
    BY Zenon DEF ProcessSignal
  <2>. QED  BY <2>1, <2>2, <2>3
<1>2. TypeOK'
  BY <1>1, BatchTail DEF Inv, TypeOK, Leave, RelDisp, KeyboardSwitchVc, ScreenSwitchVc
<1>3. overtaken' <=> InBatch(USR2)'  BY <1>1, BatchTail
<1>4. phase # "over"  BY <1>1 DEF Inv, SwitchInv
<1>5. SwitchInv'
  BY <1>1, <1>3, <1>4, BatchTail DEF Inv, TypeOK, SwitchInv, Leave, RelDisp
<1>6. HeldOnlyInFront'
  BY <1>1 DEF HeldOnlyInFront, Leave, KeyboardSwitchVc, ScreenSwitchVc
<1>. QED  BY <1>2, <1>5, <1>6 DEF Inv

\* SIGUSR2 in the background has been overtaken.
LEMMA EnterInv ==
  ASSUME Inv, ProcessSignal, Head(batch) = USR2
  PROVE  Inv'
<1>1. batch # << >> /\ batch' = Tail(batch) /\ Enter /\ UNCHANGED <<pending, phase, overtaken>>
  <2>1. USR1 # USR2  BY DEF USR1, USR2
  <2>2. batch # << >> /\ batch' = Tail(batch) /\ UNCHANGED pending
    BY DEF ProcessSignal
  <2>3. UNCHANGED overtaken
    BY <2>1 DEF ProcessSignal
  <2>4. Enter /\ UNCHANGED phase
    BY DEF ProcessSignal, USR1, USR2, SIGTERM
  <2>. QED  BY <2>2, <2>3, <2>4
<1>2. TypeOK'
  BY <1>1, BatchTail DEF Inv, TypeOK, Enter, KeyboardSwitchVc, ScreenSwitchVc
<1>3. phase # "over"  BY <1>1 DEF Inv, SwitchInv
<1>4. InBatch(USR2)
  <2>1. 1 \in 1 .. Len(batch) /\ batch[1] = USR2  BY <1>1, TailOf DEF Inv, TypeOK
  <2>. QED  BY <2>1 DEF InBatch
<1>5. ~ front => overtaken  BY <1>1, <1>4, BatchTail DEF Inv, SwitchInv
<1>6. SwitchInv'
  BY <1>1, <1>3, <1>5, BatchTail DEF Inv, SwitchInv, Enter
<1>7. HeldOnlyInFront'  BY <1>1, <1>5 DEF HeldOnlyInFront, Enter
<1>. QED  BY <1>2, <1>6, <1>7 DEF Inv

\* Any other signal leaves the console as it is.
LEMMA OtherSignalInv ==
  ASSUME Inv, ProcessSignal, Head(batch) # USR1, Head(batch) # USR2
  PROVE  Inv'
<1>1. /\ batch # << >> /\ batch' = Tail(batch) /\ UNCHANGED <<pending, overtaken>>
      /\ UNCHANGED <<front, newvt, current, window, console>>
      /\ phase' \in {phase, "leaving"}
  BY DEF ProcessSignal
<1>2. TypeOK'  BY <1>1, BatchTail DEF Inv, TypeOK, console
<1>3. phase' # "over"  BY <1>1 DEF Inv, SwitchInv
<1>4. SwitchInv'  BY <1>1, <1>3, BatchTail DEF Inv, SwitchInv
<1>5. HeldOnlyInFront'  BY <1>1 DEF Inv, HeldOnlyInFront, console
<1>. QED  BY <1>2, <1>4, <1>5 DEF Inv

\* FbTerm::exit.
LEMMA ExitInv == Inv /\ Exit => Inv'
<1>. SUFFICES ASSUME Inv, Exit  PROVE Inv'
  OBVIOUS
<1>1. TypeOK'  BY DEF Inv, TypeOK, Exit, console
<1>2. SwitchInv'  BY KeepsBatch DEF Inv, SwitchInv, Exit
<1>3. HeldOnlyInFront'  BY DEF Inv, HeldOnlyInFront, Exit, console
<1>. QED  BY <1>1, <1>2, <1>3 DEF Inv

\* The end of run() and the destructors.
LEMMA QuitInv == Inv /\ Quit => Inv'
<1>. SUFFICES ASSUME Inv, Quit  PROVE Inv'
  OBVIOUS
<1>1. TypeOK'  BY DEF Inv, TypeOK, Quit
<1>2. overtaken' \/ Clean'  BY DEF Inv, HeldOnlyInFront, Quit, Clean
<1>3. batch = << >> /\ batch' = << >> /\ ~ InBatch(USR2)'
  BY DEF Quit, InBatch
<1>4. SwitchInv'  BY <1>2, <1>3, KeepsBatch DEF Inv, TypeOK, SwitchInv, Quit
<1>5. HeldOnlyInFront'  BY <1>2 DEF HeldOnlyInFront, Clean
<1>. QED  BY <1>1, <1>4, <1>5 DEF Inv

\* Every step keeps the invariant.
LEMMA StepInv == Inv /\ [Next]_vars => Inv'
<1>. SUFFICES ASSUME Inv, [Next]_vars  PROVE Inv'
  OBVIOUS
<1>1. CASE LeaveConsole \/ ReturnToConsole  BY <1>1, LeaveConsoleInv, ReturnToConsoleInv
<1>2. CASE \E s \in Signals : Signal(s)  BY <1>2, SignalInv
<1>3. CASE Run \/ ReadSignals  BY <1>3, RunInv, ReadSignalsInv
<1>4. CASE ProcessSignal  BY <1>4, LeaveInv, EnterInv, OtherSignalInv
<1>5. CASE Exit \/ Quit  BY <1>5, ExitInv, QuitInv
<1>6. CASE UNCHANGED vars
  <2>1. TypeOK'  BY <1>6 DEF Inv, TypeOK, vars, console
  <2>2. SwitchInv'  BY <1>6, KeepsBatch DEF Inv, SwitchInv, vars, console, Clean
  <2>3. HeldOnlyInFront'  BY <1>6 DEF Inv, HeldOnlyInFront, vars, console
  <2>. QED  BY <2>1, <2>2, <2>3 DEF Inv
<1>. QED  BY <1>1, <1>2, <1>3, <1>4, <1>5, <1>6 DEF Next

-----------------------------------------------------------------------------
(* Theorems about the console                                              *)

\* The inductive invariant holds throughout (FbTerm::processSignal, run).
THEOREM Invariance == Spec => []Inv
<1>. QED  BY InitInv, StepInv, PTL DEF Spec

\* Every variable of the switch keeps its type.
THEOREM TypeCorrect == Spec => []TypeOK
<1>1. Inv => TypeOK  BY DEF Inv
<1>. QED  BY <1>1, Invariance, PTL

\* In the background FbTerm holds neither keymap nor palette and draws nothing,
\* unless a SIGUSR1 has overtaken an older SIGUSR2 (FbTerm::processSignal).
THEOREM HeldOnlyInFrontAlways == Spec => []HeldOnlyInFront
<1>1. Inv => HeldOnlyInFront  BY DEF Inv
<1>. QED  BY <1>1, Invariance, PTL

\* The console is handed over with its own keymap and colours, whenever it is
\* handed over: answering SIGUSR1 and at the end (Leave, ~FbTerm).
THEOREM HandedOverCleanAlways == Spec => HandedOverClean
<1>1. ASSUME Next, HandsOver
      PROVE  ~ current' /\ keymap' = "original" /\ palette' = "original"
  <2>1. CASE LeaveConsole  BY <1>1, <2>1 DEF LeaveConsole, HandsOver, Alive
  <2>2. CASE ReturnToConsole  BY <1>1, <2>2 DEF ReturnToConsole, HandsOver, Alive
  <2>3. CASE \E s \in Signals : Signal(s)  BY <1>1, <2>3 DEF Signal, HandsOver, Alive
  <2>4. CASE Run \/ ReadSignals \/ Exit  BY <1>1, <2>4 DEF Run, ReadSignals, Exit, HandsOver, Alive
  <2>5. CASE ProcessSignal
    BY <1>1, <2>5 DEF ProcessSignal, Leave, Enter, KeyboardSwitchVc, ScreenSwitchVc, HandsOver, Alive
  <2>6. CASE Quit  BY <1>1, <2>6 DEF Quit, HandsOver, Alive
  <2>. QED  BY <1>1, <2>1, <2>2, <2>3, <2>4, <2>5, <2>6 DEF Next
<1>2. [Next]_vars =>
        [HandsOver => ~ current' /\ keymap' = "original" /\ palette' = "original"]_vars
  BY <1>1
<1>. QED  BY <1>2, PTL DEF Spec, HandedOverClean

-----------------------------------------------------------------------------
(* The events of the loop                                                  *)

\* Every hang-up of the batch, not only the next one, concerns the window that
\* has the descriptor now, or nobody, or a window made within the batch.
BatchIsFresh ==
  \A i \in DOMAIN events :
    events[i] \in Fd => map[events[i]] \in {None} \cup hup \cup fresh

(* The inductive invariant: the closing of a window by an event of the     *)
(* batch must leave the later ones right, and does because the table and   *)
(* the windows agree.                                                      *)
LoopInv == Loop!TypeOK /\ PipesMatch /\ BatchIsFresh

-----------------------------------------------------------------------------
(* The descriptors                                                         *)

\* The lowest free descriptor, when there is one, is a free one.
LEMMA LowestFreeIsFree ==
  ASSUME Loop!FreeFds # {}
  PROVE  Loop!LowestFree \in Loop!FreeFds
<1>1. Loop!FreeFds \in SUBSET Nat  BY FdAssumption DEF Loop!FreeFds
<1>2. \E x \in Loop!FreeFds : \A y \in Loop!FreeFds : ~ (<<y, x>> \in OpToRel(<, Nat))
  BY <1>1, NatLessThanWellFounded, WFMin
<1>3. ASSUME NEW x \in Nat, NEW y \in Nat, ~ (<<y, x>> \in OpToRel(<, Nat))
      PROVE  x <= y
  <2>1. ~ (y < x)  BY <1>3 DEF OpToRel
  <2>. QED  BY <2>1
<1>4. \E x \in Loop!FreeFds : \A y \in Loop!FreeFds : x <= y  BY <1>1, <1>2, <1>3
<1>. QED  BY <1>4 DEF Loop!LowestFree

LEMMA SameCardinality == \A S : Loop!Cardinality(S) = Cardinality(S)
BY DEF Loop!Cardinality, Cardinality

\* The batch epoll_wait returns holds ready sources and nothing else.
LEMMA OrdersAreBatches ==
  ASSUME NEW S \in SUBSET Loop!Sources, NEW q \in Loop!Orders(S)
  PROVE  /\ q \in Seq(Loop!Sources)
         /\ \A i \in DOMAIN q : q[i] \in S
<1>1. IsFiniteSet(Loop!Sources)
  <2>1. IsFiniteSet({SignalFd, KeyboardFd})
    <3>1. IsFiniteSet({SignalFd})  BY FS_Singleton
    <3>2. IsFiniteSet({SignalFd} \cup {KeyboardFd})  BY <3>1, FS_AddElement
    <3>3. {SignalFd, KeyboardFd} = {SignalFd} \cup {KeyboardFd}  OBVIOUS
    <3>. QED  BY <3>2, <3>3
  <2>. QED  BY <2>1, FdAssumption, FS_Union DEF Loop!Sources
<1>2. IsFiniteSet(S)  BY <1>1, FS_Subset
<1>3. Cardinality(S) \in Nat  BY <1>2, FS_CardinalityType
<1>4. q \in [1 .. Cardinality(S) -> S]  BY SameCardinality DEF Loop!Orders
<1>5. q \in [1 .. Cardinality(S) -> Loop!Sources]  BY <1>4
<1>. QED  BY <1>3, <1>4, <1>5

\* What is left of a batch once its first event is handled is in the batch.
LEMMA TailOfBatch ==
  ASSUME events \in Seq(Loop!Sources), events # << >>
  PROVE  /\ Tail(events) \in Seq(Loop!Sources)
         /\ Head(events) \in Loop!Sources
         /\ \A i \in DOMAIN Tail(events) : \E j \in DOMAIN events : Tail(events)[i] = events[j]
         /\ \E j \in DOMAIN events : Head(events) = events[j]
<1>1. /\ Head(events) \in Loop!Sources /\ Tail(events) \in Seq(Loop!Sources)
      /\ Len(Tail(events)) = Len(events) - 1
      /\ \A i \in 1 .. Len(Tail(events)) : Tail(events)[i] = events[i + 1]
  BY HeadTailProperties
<1>2. /\ DOMAIN Tail(events) = 1 .. Len(Tail(events)) /\ DOMAIN events = 1 .. Len(events)
      /\ Len(events) \in Nat \ {0}
  BY <1>1, LenProperties, EmptySeq
<1>3. \A i \in DOMAIN Tail(events) : i + 1 \in DOMAIN events  BY <1>1, <1>2
<1>4. 1 \in DOMAIN events /\ Head(events) = events[1]  BY <1>2
<1>. QED  BY <1>1, <1>2, <1>3, <1>4

-----------------------------------------------------------------------------
(* The parts of a handler                                                  *)

\* Closing a window keeps table and windows in agreement, and no other
\* window's descriptor is touched.
LEMMA CloseKeeps ==
  ASSUME Loop!TypeOK, PipesMatch, NEW w \in Win, Loop!Close(w)
  PROVE  /\ open' \subseteq Win /\ fd' \in [Win -> Fd \cup {0}]
         /\ map' \in [Fd -> Win \cup {None}]
         /\ proc' \in [Win -> {"none", "running", "zombie"}]
         /\ hup' \subseteq open' /\ running' \in BOOLEAN
         /\ \A v \in Win \ open' : fd'[v] = 0 /\ proc'[v] = "none"
         /\ PipesMatch'
         /\ \A f \in Fd : map'[f] = None \/ (map'[f] = map[f] /\ map[f] # w)
         /\ hup \ {w} \subseteq hup'
<1>1. 0 \notin Fd /\ None \notin Win  BY FdAssumption, WinAssumption
<1>2. PipesMatch'
  <2>1. SUFFICES ASSUME NEW f \in Fd, NEW v \in Win
                 PROVE  map'[f] = v <=> fd'[v] = f
    BY DEF PipesMatch
  <2>. QED  BY <1>1, <2>1 DEF Loop!Close, Loop!TypeOK, PipesMatch
<1>3. \A f \in Fd : map'[f] = None \/ (map'[f] = map[f] /\ map[f] # w)
  BY <1>1 DEF Loop!Close, Loop!TypeOK, PipesMatch
<1>4. running' \in BOOLEAN  BY DEF Loop!Close, Loop!TypeOK
<1>. QED  BY <1>2, <1>3, <1>4 DEF Loop!Close, Loop!TypeOK

\* Opening a window does, and the window is among those made in the batch.
LEMMA CreateKeeps ==
  ASSUME Loop!TypeOK, PipesMatch, NEW w \in Win \ open, Loop!Create(w)
  PROVE  /\ open' \subseteq Win /\ fd' \in [Win -> Fd \cup {0}]
         /\ map' \in [Fd -> Win \cup {None}]
         /\ proc' \in [Win -> {"none", "running", "zombie"}]
         /\ hup' \subseteq open' /\ fresh' \subseteq Win
         /\ \A v \in Win \ open' : fd'[v] = 0 /\ proc'[v] = "none"
         /\ PipesMatch'
         /\ \A f \in Fd : map'[f] = map[f] \/ map'[f] \in fresh'
         /\ fresh \subseteq fresh' /\ hup' = hup
<1>1. 0 \notin Fd /\ None \notin Win  BY FdAssumption, WinAssumption
<1>2. fd[w] = 0 /\ proc[w] = "none"  BY DEF Loop!TypeOK
<1>3. CASE /\ Loop!FreeFds # {}
           /\ fd' = [fd EXCEPT ![w] = Loop!LowestFree]
           /\ map' = [map EXCEPT ![Loop!LowestFree] = w]
           /\ proc' = [proc EXCEPT ![w] = "running"]
  <2> DEFINE f0 == Loop!LowestFree
  <2>1. f0 \in Fd /\ \A v \in open : fd[v] # f0  BY <1>3, LowestFreeIsFree DEF Loop!FreeFds
  <2>2. \A v \in Win : fd[v] # f0  BY <1>1, <2>1 DEF Loop!TypeOK
  <2>3. fd' = [fd EXCEPT ![w] = f0] /\ map' = [map EXCEPT ![f0] = w]  BY <1>3
  <2> HIDE DEF f0
  <2>4. PipesMatch'
    <3>1. SUFFICES ASSUME NEW f \in Fd, NEW v \in Win
                   PROVE  map'[f] = v <=> fd'[v] = f
      BY DEF PipesMatch
    <3>. QED  BY <1>1, <1>2, <2>1, <2>2, <2>3, <3>1 DEF Loop!TypeOK, PipesMatch
  <2>5. \A f \in Fd : map'[f] = map[f] \/ map'[f] \in fresh'
    BY <2>1, <2>3 DEF Loop!TypeOK, Loop!Create
  <2>. QED  BY <1>3, <2>1, <2>3, <2>4, <2>5 DEF Loop!TypeOK, Loop!Create
<1>4. CASE UNCHANGED <<fd, map, proc>>
  BY <1>4 DEF Loop!TypeOK, Loop!Create, PipesMatch
<1>. QED  BY <1>3, <1>4 DEF Loop!Create

-----------------------------------------------------------------------------
(* The invariant                                                           *)

\* The first window is open, and nothing is in the batch.
LEMMA LoopInit == Loop!Init => LoopInv
<1> SUFFICES ASSUME NEW w \in Win, NEW f \in Fd,
                    /\ open = {w}
                    /\ fd = [v \in Win |-> IF v = w THEN f ELSE 0]
                    /\ map = [g \in Fd |-> IF g = f THEN w ELSE None]
                    /\ proc = [v \in Win |-> IF v = w THEN "running" ELSE "none"]
                    /\ hup = {}
                    /\ sigchld = FALSE /\ sigterm = FALSE /\ key = Loop!NoKey
                    /\ events = << >> /\ running = TRUE
                    /\ fresh = {w}
             PROVE  LoopInv
  BY DEF Loop!Init
<1>1. 0 \notin Fd /\ None \notin Win  BY FdAssumption, WinAssumption
<1>2. events \in Seq(Loop!Sources) /\ DOMAIN events = {}  OBVIOUS
<1>3. Loop!TypeOK  BY <1>2 DEF Loop!TypeOK
<1>4. PipesMatch  BY <1>1 DEF PipesMatch
<1>5. BatchIsFresh  BY <1>2 DEF BatchIsFresh
<1>. QED  BY <1>3, <1>4, <1>5 DEF LoopInv

\* Signals handled: the window of one ended program may close, or the loop end.
LEMMA HandleSignalsKeeps ==
  ASSUME Loop!TypeOK, PipesMatch, Loop!HandleSignals, events' \in Seq(Loop!Sources)
  PROVE  /\ Loop!TypeOK' /\ PipesMatch'
         /\ \A f \in Fd : map[f] \in {None} \cup hup \cup fresh
                          => map'[f] \in {None} \cup hup' \cup fresh'
<1>1. CASE /\ running' = (running /\ ~ sigterm)
           /\ UNCHANGED <<open, fd, map, proc, hup>>
  <2>1. sigchld' = FALSE /\ sigterm' = FALSE /\ UNCHANGED <<key, fresh>>  BY DEF Loop!HandleSignals
  <2>2. running' \in BOOLEAN  BY <1>1 DEF Loop!TypeOK
  <2>. QED  BY <1>1, <2>1, <2>2 DEF Loop!TypeOK, PipesMatch
<1>2. ASSUME NEW w \in Win, Loop!Close(w)
      PROVE  /\ Loop!TypeOK' /\ PipesMatch'
             /\ \A f \in Fd : map[f] \in {None} \cup hup \cup fresh
                              => map'[f] \in {None} \cup hup' \cup fresh'
  BY <1>2, CloseKeeps DEF Loop!HandleSignals, Loop!TypeOK
<1>. QED  BY <1>1, <1>2 DEF Loop!HandleSignals

\* A shortcut handled: a window may open or close.
LEMMA HandleKeyboardKeeps ==
  ASSUME Loop!TypeOK, PipesMatch, Loop!HandleKeyboard, events' \in Seq(Loop!Sources)
  PROVE  /\ Loop!TypeOK' /\ PipesMatch'
         /\ \A f \in Fd : map[f] \in {None} \cup hup \cup fresh
                          => map'[f] \in {None} \cup hup' \cup fresh'
<1>0. key' = Loop!NoKey /\ sigterm' = sigterm  BY DEF Loop!HandleKeyboard
<1>1. CASE UNCHANGED <<open, fd, map, proc, hup, sigchld, running, fresh>>
  BY <1>0, <1>1 DEF Loop!TypeOK, PipesMatch
<1>2. ASSUME NEW w \in Win \ open, Loop!Create(w)
      PROVE  /\ Loop!TypeOK' /\ PipesMatch'
             /\ \A f \in Fd : map[f] \in {None} \cup hup \cup fresh
                              => map'[f] \in {None} \cup hup' \cup fresh'
  <2>1. running' \in BOOLEAN /\ sigchld' \in BOOLEAN /\ key' \in Keys \cup {Loop!NoKey}
    BY <1>2 DEF Loop!HandleKeyboard, Loop!TypeOK, Loop!Create
  <2>. QED  BY <1>0, <1>2, <2>1, CreateKeeps DEF Loop!TypeOK
<1>3. ASSUME NEW w \in open, Loop!Close(w), sigchld' = Loop!Raised(w), UNCHANGED fresh
      PROVE  /\ Loop!TypeOK' /\ PipesMatch'
             /\ \A f \in Fd : map[f] \in {None} \cup hup \cup fresh
                              => map'[f] \in {None} \cup hup' \cup fresh'
  <2>1. w \in Win  BY DEF Loop!TypeOK
  <2>2. sigchld' \in BOOLEAN /\ key' \in Keys \cup {Loop!NoKey}
    BY <1>3 DEF Loop!HandleKeyboard, Loop!TypeOK, Loop!Raised
  <2>. QED  BY <1>0, <1>3, <2>1, <2>2, CloseKeeps DEF Loop!TypeOK
<1>4. CASE running' = FALSE /\ UNCHANGED <<open, fd, map, proc, hup, sigchld, fresh>>
  BY <1>0, <1>4 DEF Loop!TypeOK, PipesMatch
<1>. QED  BY <1>1, <1>2, <1>3, <1>4 DEF Loop!HandleKeyboard

\* A hang-up handled: the window that has the descriptor closes.
LEMMA HandlePtyKeeps ==
  ASSUME Loop!TypeOK, PipesMatch, NEW f0 \in Fd, Loop!HandlePty(f0), events' \in Seq(Loop!Sources)
  PROVE  /\ Loop!TypeOK' /\ PipesMatch'
         /\ \A f \in Fd : map[f] \in {None} \cup hup \cup fresh
                          => map'[f] \in {None} \cup hup' \cup fresh'
<1>1. CASE map[f0] = None
  BY <1>1 DEF Loop!HandlePty, Loop!TypeOK, PipesMatch
<1>2. CASE map[f0] # None
  <2>1. map[f0] \in Win  BY <1>2 DEF Loop!TypeOK
  <2>2. sigchld' \in BOOLEAN  BY <1>2 DEF Loop!HandlePty, Loop!TypeOK, Loop!Raised
  <2>3. Loop!Close(map[f0])  BY <1>2 DEF Loop!HandlePty
  <2>. QED  BY <2>1, <2>2, <2>3, CloseKeeps DEF Loop!HandlePty, Loop!TypeOK
<1>. QED  BY <1>1, <1>2

\* One event of the batch, whichever handler it goes to.
LEMMA HandleKeepsInv ==
  ASSUME LoopInv, Loop!Handle
  PROVE  LoopInv'
<1>1. Loop!TypeOK /\ PipesMatch /\ BatchIsFresh  BY DEF LoopInv
<1>2. events \in Seq(Loop!Sources) /\ events # << >> /\ events' = Tail(events)
  BY <1>1 DEF Loop!Handle, Loop!TypeOK
<1>3. events' \in Seq(Loop!Sources) /\ Head(events) \in Loop!Sources  BY <1>2, TailOfBatch
<1>4. /\ Loop!TypeOK' /\ PipesMatch'
      /\ \A f \in Fd : map[f] \in {None} \cup hup \cup fresh
                       => map'[f] \in {None} \cup hup' \cup fresh'
  <2>1. \/ Loop!HandleSignals
        \/ Loop!HandleKeyboard
        \/ Head(events) \in Fd /\ Loop!HandlePty(Head(events))
    <3>1. KeyboardFd # SignalFd  BY SourcesAssumption
    <3>. QED  BY <1>3, <3>1 DEF Loop!Handle, Loop!Sources
  <2>. QED
    BY <1>1, <1>3, <2>1, HandleSignalsKeeps, HandleKeyboardKeeps, HandlePtyKeeps
<1>5. BatchIsFresh'  BY <1>1, <1>2, <1>4, TailOfBatch DEF BatchIsFresh
<1>. QED  BY <1>4, <1>5 DEF LoopInv

\* Every step keeps the invariant.
LEMMA LoopStep == LoopInv /\ [Loop!Next]_(Loop!vars) => LoopInv'
<1> SUFFICES ASSUME LoopInv, [Loop!Next]_(Loop!vars)  PROVE LoopInv'
  OBVIOUS
<1> USE DEF LoopInv
<1>1. ASSUME NEW w \in Win, Loop!ProgramEnds(w)  PROVE LoopInv'
  <2>1. w \in open  BY <1>1 DEF Loop!ProgramEnds, Loop!TypeOK
  <2>2. hup \subseteq hup' /\ hup' \subseteq open  BY <1>1, <2>1 DEF Loop!ProgramEnds, Loop!TypeOK
  <2>3. Loop!TypeOK'  BY <1>1, <2>1, <2>2 DEF Loop!ProgramEnds, Loop!TypeOK
  <2>. QED  BY <1>1, <2>2, <2>3 DEF Loop!ProgramEnds, PipesMatch, BatchIsFresh
<1>2. ASSUME NEW w \in Win, Loop!HangUp(w)  PROVE LoopInv'
  <2>1. Loop!TypeOK'  BY <1>2 DEF Loop!HangUp, Loop!TypeOK
  <2>. QED  BY <1>2, <2>1 DEF Loop!HangUp, PipesMatch, BatchIsFresh
<1>3. ASSUME NEW k \in Keys, Loop!PressKey(k)  PROVE LoopInv'
  <2>1. Loop!TypeOK'  BY <1>3 DEF Loop!PressKey, Loop!TypeOK
  <2>. QED  BY <1>3, <2>1 DEF Loop!PressKey, PipesMatch, BatchIsFresh
<1>4. CASE Loop!EpollWait
  <2> DEFINE ready == {s \in Loop!Sources : Loop!Ready(s)}
  <2>1. ready \in SUBSET Loop!Sources  OBVIOUS
  <2>2. events' \in Loop!Orders(ready)  BY <1>4 DEF Loop!EpollWait
  <2>3. events' \in Seq(Loop!Sources) /\ \A i \in DOMAIN events' : events'[i] \in ready
    BY <2>1, <2>2, OrdersAreBatches
  <2>4. \A f \in Fd : Loop!Ready(f) => map[f] \in hup
    <3>1. \A f \in Fd : f # SignalFd /\ f # KeyboardFd  BY FdAssumption
    <3>2. hup \subseteq Win  BY DEF Loop!TypeOK
    <3>. QED  BY <3>1, <3>2 DEF Loop!Ready, PipesMatch
  <2>5. BatchIsFresh'  BY <1>4, <2>3, <2>4 DEF Loop!EpollWait, BatchIsFresh
  <2>. QED  BY <1>4, <2>3, <2>5 DEF Loop!EpollWait, Loop!TypeOK, PipesMatch
<1>5. CASE Loop!Handle
  BY <1>5, HandleKeepsInv
<1>6. CASE Loop!Finish
  <2>1. 0 \notin Fd /\ None \notin Win  BY FdAssumption, WinAssumption
  <2>2. Loop!TypeOK'
    <3>1. hup' \subseteq open' /\ open' \subseteq Win  BY <1>6 DEF Loop!Finish, Loop!TypeOK
    <3>. QED  BY <1>6, <3>1 DEF Loop!Finish, Loop!TypeOK
  <2>3. PipesMatch'  BY <1>6, <2>1 DEF Loop!Finish, PipesMatch
  <2>4. BatchIsFresh'  BY <1>6 DEF Loop!Finish, BatchIsFresh
  <2>. QED  BY <2>2, <2>3, <2>4
<1>7. CASE Loop!Terminate
  <2>1. Loop!TypeOK'  BY <1>7 DEF Loop!Terminate, Loop!TypeOK
  <2>. QED  BY <1>7, <2>1 DEF Loop!Terminate, PipesMatch, BatchIsFresh
<1>8. CASE UNCHANGED Loop!vars
  BY <1>8 DEF Loop!vars, Loop!TypeOK, PipesMatch, BatchIsFresh
<1>. QED  BY <1>1, <1>2, <1>3, <1>4, <1>5, <1>6, <1>7, <1>8 DEF Loop!Next

\* The table, the windows and the batch agree in every reachable state.
THEOREM LoopInvariance == Loop!Spec => []LoopInv
<1>1. Loop!Init => LoopInv  BY LoopInit
<1>2. LoopInv /\ [Loop!Next]_(Loop!vars) => LoopInv'  BY LoopStep
<1>. QED  BY <1>1, <1>2, PTL DEF Loop!Spec

\* Every variable has its type, and a window that is gone has left nothing.
THEOREM LoopTypeCorrect == Loop!Spec => []Loop!TypeOK
<1>1. LoopInv => Loop!TypeOK  BY DEF LoopInv
<1>. QED  BY <1>1, LoopInvariance, PTL

\* The dispatcher's table and the windows agree on who has which descriptor,
\* through every reuse of a number (addIoSource, removeIoSource).
THEOREM PipesMatchAlways == Loop!Spec => []PipesMatch
<1>1. LoopInv => PipesMatch  BY DEF LoopInv
<1>. QED  BY <1>1, LoopInvariance, PTL

\* A hang-up about to be handled concerns the window that has the descriptor
\* now, or nobody, or one made within the batch (FbIoDispatcher::poll).
THEOREM HangUpsAreFreshAlways == Loop!Spec => []HangUpsAreFresh
<1>1. LoopInv => HangUpsAreFresh
  <2>1. SUFFICES ASSUME LoopInv, events # << >>, Head(events) \in Fd
                 PROVE  map[Head(events)] \in {None} \cup hup \cup fresh
    BY DEF HangUpsAreFresh
  <2>2. \E j \in DOMAIN events : Head(events) = events[j]
    BY <2>1, TailOfBatch DEF LoopInv, Loop!TypeOK
  <2>. QED  BY <2>1, <2>2 DEF LoopInv, BatchIsFresh
<1>. QED  BY <1>1, LoopInvariance, PTL
=============================================================================
